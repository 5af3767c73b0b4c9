--------------------------- MODULE CrawlTaskProofs ---------------------------
(***************************************************************************)
(* Proofs about the tasks of a crawler node, for any number of slots and   *)
(* tokens, any thresholds and any bucket.                                  *)
(***************************************************************************)
EXTENDS CrawlTask, FiniteSetTheorems, TLAPS

\* The capacity of the bucket (burst, in units of cost).
LEMMA CapacityIsNat == Capacity \in Nat
  BY CrawlAssumption DEF Capacity

\* What was granted ahead of the inflow is missing from the bucket: the
\* tokens the script would find, and the lead, never exceed the capacity.
RateInv ==
  /\ level \in Nat /\ age \in Nat /\ lead \in Nat
  /\ lead + Refilled =< Capacity

\* The bucket starts full, with nothing granted.
LEMMA InitRate == Init => RateInv
  BY CapacityIsNat DEF Init, RateInv, Refilled, Least

\* A bucket that was just written has in it what was written.
LEMMA FreshBucket ==
  ASSUME NEW cap \in Nat, NEW n \in Nat, n =< cap
  PROVE  Least(cap, n + 0) = n
  BY DEF Least

\* The script: what it adds to the lead it takes from the bucket, and time
\* that was counted as tokens is not counted again.
LEMMA AllowRate ==
  ASSUME RateInv, NEW c \in Slots, Allow(c)
  PROVE  RateInv'
  <1> Cost \in Nat BY CrawlAssumption
  <1>1. Refilled \in Nat
    BY CapacityIsNat DEF RateInv, Refilled, Least
  <1>2. \/ level' = Refilled /\ lead' = lead
        \/ Cost =< Refilled /\ level' = Refilled - Cost /\ lead' = lead + Cost
    BY <1>1 DEF Allow
  <1>3. age' = 0
    BY DEF Allow
  <1>4. Refilled =< Capacity
    BY CapacityIsNat DEF Refilled, Least, RateInv
  <1>5. level' \in Nat /\ lead' \in Nat /\ lead' + level' =< Capacity /\ level' =< Capacity
    BY <1>1, <1>2, <1>4, CapacityIsNat DEF RateInv
  <1>6. Refilled' = Least(Capacity, level' + 0)
    BY <1>3 DEF Refilled, Capacity
  <1>7. Refilled' = level'
    BY <1>5, <1>6, CapacityIsNat, FreshBucket
  <1>8. Capacity' = Capacity
    BY DEF Capacity
  <1> QED BY <1>3, <1>5, <1>7, <1>8 DEF RateInv

\* A unit of time lets one unit in and takes one off the lead.
LEMMA TickRate ==
  ASSUME RateInv, Tick
  PROVE  RateInv'
  <1>1. level' = level /\ age' = Least(age + 1, Capacity) /\ lead' = IF lead = 0 THEN 0 ELSE lead - 1
    BY DEF Tick
  <1>2. Capacity' = Capacity BY DEF Capacity
  <1> QED BY <1>1, <1>2, CapacityIsNat DEF RateInv, Refilled, Least

\* Nothing else touches the bucket.
LEMMA OtherRate ==
  ASSUME RateInv, UNCHANGED limitVars
  PROVE  RateInv'
  BY DEF RateInv, Refilled, Least, limitVars, Capacity

\* Only Allow and the passing of time touch the bucket.
LEMMA NextRate == RateInv /\ [Next]_vars => RateInv'
  <1> SUFFICES ASSUME RateInv, [Next]_vars PROVE RateInv'
    OBVIOUS
  <1>1. CASE \E c \in Slots : StartTask(c) \/ Expire(c) \/ WorkerStep(c) \/ PageStep(c)
    <2> PICK c \in Slots : StartTask(c) \/ Expire(c) \/ WorkerStep(c) \/ PageStep(c)
      BY <1>1
    <2>1. UNCHANGED limitVars
      BY DEF StartTask, Expire, WorkerStep, WorkerResult, WorkerTimeout, PageStep,
             PageFails, PageEmpty, PageLoaded, PageBlocked
    <2> QED BY <2>1, OtherRate
  <1>2. CASE \E c \in Slots : CrawlStep(c)
    <2> PICK c \in Slots : CrawlStep(c)
      BY <1>2
    <2>1. Allow(c) \/ UNCHANGED limitVars
      BY DEF CrawlStep, LateResult, EnsureBrowserState, EnsureFails, AllowFails, AskAgain,
             MaxWaitOver, LimitExpires, JitterExpires, Capture, CaptureFails, OpenPage,
             WakeUp, Succeed, CrawlExpires, ProxyHealthy, ProxyUnhealthy
    <2> QED BY <2>1, OtherRate, AllowRate
  <1>3. CASE Tick
    BY <1>3, TickRate
  <1>4. CASE NodeRestart \/ Sigterm \/ CooldownOver \/ FailuresExpire \/ BlocksExpire
    <2>1. UNCHANGED limitVars
      BY <1>4 DEF NodeRestart, Sigterm, Reboot, CooldownOver, FailuresExpire, BlocksExpire
    <2> QED BY <2>1, OtherRate
  <1>5. CASE UNCHANGED vars
    BY <1>5, OtherRate DEF vars
  <1> QED BY <1>1, <1>2, <1>3, <1>4, <1>5 DEF Next

\* RateLimiter.Allow: in any stretch of time the bucket grants at most Burst
\* requests more than flow in, whatever the rate, the burst and the callers.
THEOREM BucketBounded == Spec => []RateBounded
  <1>1. RateInv => RateBounded
    BY CapacityIsNat DEF RateInv, RateBounded, Refilled, Least
  <1> QED BY <1>1, InitRate, NextRate, PTL DEF Spec
-----------------------------------------------------------------------------
Places == {"idle", "ensure", "limit", "denied", "jitter", "page", "open", "sleep", "probe", "returned"}

\* Where the doCrawls are; the flag of the throttle has a sleeper, and only
\* a task whose context is over asks for the health of the proxy.
SlotInv ==
  /\ pc \in [Slots -> Places]
  /\ expired \in [Slots -> BOOLEAN]
  /\ \A c \in Slots : pc[c] = "probe" => expired[c] = TRUE
  /\ CooldownHasSleeper

\* service.go starts with every doCrawl idle and the throttle off.
LEMMA InitSlots == Init => SlotInv
  BY DEF Init, SlotInv, Places, CooldownHasSleeper

\* A task that is not asleep moves on, and the flag is left alone or cleared.
LEMMA MoveKeepsSlots ==
  ASSUME SlotInv, NEW c \in Slots, NEW to \in Places,
         pc[c] /= "sleep" \/ inCooldown' = FALSE,
         to = "probe" => expired[c] = TRUE,
         pc' = [pc EXCEPT ![c] = to], expired' = expired,
         inCooldown' = inCooldown \/ inCooldown' = FALSE
  PROVE  SlotInv'
  <1>1. pc' \in [Slots -> Places] /\ expired' \in [Slots -> BOOLEAN]
    BY DEF SlotInv
  <1>2. \A d \in Slots : pc'[d] = "probe" => expired'[d] = TRUE
    BY DEF SlotInv
  <1>3. CooldownHasSleeper'
    BY Zenon DEF SlotInv, CooldownHasSleeper
  <1> QED BY <1>1, <1>2, <1>3 DEF SlotInv

\* Nobody moves.
LEMMA RestKeepsSlots ==
  ASSUME SlotInv, pc' = pc, expired' = expired, inCooldown' = inCooldown
  PROVE  SlotInv'
  BY DEF SlotInv, CooldownHasSleeper

\* No step of any task, worker, key or process breaks it.
LEMMA NextSlots == SlotInv /\ [Next]_vars => SlotInv'
  <1> SUFFICES ASSUME SlotInv, [Next]_vars PROVE SlotInv'
    OBVIOUS
  <1> USE DEF Places
  <1>1. ASSUME NEW c \in Slots, StartTask(c) PROVE SlotInv'
    <2>1. pc' = [pc EXCEPT ![c] = "ensure"] /\ expired' = [expired EXCEPT ![c] = FALSE]
          /\ inCooldown' = inCooldown /\ pc[c] = "idle"
      BY <1>1 DEF StartTask, Goto, blockVars
    <2>2. pc' \in [Slots -> Places] /\ expired' \in [Slots -> BOOLEAN]
      BY <2>1 DEF SlotInv
    <2>3. \A d \in Slots : pc'[d] = "probe" => expired'[d] = TRUE
      BY <2>1 DEF SlotInv
    <2>4. CooldownHasSleeper'
      BY <2>1 DEF SlotInv, CooldownHasSleeper
    <2> QED BY <2>2, <2>3, <2>4 DEF SlotInv
  <1>2. ASSUME NEW c \in Slots, Expire(c) PROVE SlotInv'
    <2>1. pc' = pc /\ expired' = [expired EXCEPT ![c] = TRUE] /\ inCooldown' = inCooldown
      BY <1>2 DEF Expire, blockVars
    <2>2. expired' \in [Slots -> BOOLEAN]
      BY <2>1 DEF SlotInv
    <2>3. \A d \in Slots : pc'[d] = "probe" => expired'[d] = TRUE
      BY <2>1 DEF SlotInv
    <2> QED BY <2>1, <2>2, <2>3 DEF SlotInv, CooldownHasSleeper
  <1>3. ASSUME NEW c \in Slots, WorkerStep(c) \/ LateResult(c) PROVE SlotInv'
    <2>1. CASE WorkerTimeout(c)
      BY <2>1, RestKeepsSlots DEF WorkerTimeout, blockVars
    <2>2. CASE WorkerResult(c) \/ LateResult(c)
      BY <2>2, MoveKeepsSlots, Zenon DEF WorkerResult, LateResult, Goto, blockVars
    <2> QED BY <1>3, <2>1, <2>2 DEF WorkerStep
  <1>4. ASSUME NEW c \in Slots, PageStep(c) PROVE SlotInv'
    <2>1. CASE PageFails(c) \/ PageEmpty(c) \/ PageLoaded(c)
      BY <2>1, MoveKeepsSlots, Zenon DEF PageFails, PageEmpty, PageLoaded, ClosePage, Goto, blockVars
    <2>2. CASE PageBlocked(c)
      <3>1. pc[c] = "open" /\ expired' = expired
        BY <2>2 DEF PageBlocked
      <3>2. \/ pc' = [pc EXCEPT ![c] = "sleep"]
            \/ pc' = [pc EXCEPT ![c] = "page"] /\ inCooldown' = inCooldown
        BY <2>2 DEF PageBlocked, ClosePage, Goto
      <3>3. CASE pc' = [pc EXCEPT ![c] = "sleep"]
        <4>1. pc' \in [Slots -> Places]
          BY <3>3 DEF SlotInv
        <4>2. \A d \in Slots : pc'[d] = "probe" => expired'[d] = TRUE
          BY <3>1, <3>3 DEF SlotInv
        <4>3. pc'[c] = "sleep"
          BY <3>3 DEF SlotInv
        <4> QED BY <3>1, <4>1, <4>2, <4>3 DEF SlotInv, CooldownHasSleeper
      <3> QED BY <3>1, <3>2, <3>3, MoveKeepsSlots, Zenon
    <2> QED BY <1>4, <2>1, <2>2 DEF PageStep
  <1>5. ASSUME NEW c \in Slots, EnsureBrowserState(c) \/ EnsureFails(c) PROVE SlotInv'
    <2>1. inCooldown' = inCooldown /\ expired' = expired /\ pc[c] = "ensure"
      BY <1>5 DEF EnsureBrowserState, EnsureFails, blockVars
    <2>2. \/ pc' = pc
          \/ pc' = [pc EXCEPT ![c] = "limit"] \/ pc' = [pc EXCEPT ![c] = "returned"]
      BY <1>5 DEF EnsureBrowserState, EnsureFails, Goto, Return
    <2> QED BY <2>1, <2>2, MoveKeepsSlots, RestKeepsSlots, Zenon
  <1>6. ASSUME NEW c \in Slots, Allow(c) \/ AllowFails(c) \/ AskAgain(c) \/ MaxWaitOver(c) \/ LimitExpires(c)
        PROVE  SlotInv'
    <2>1. inCooldown' = inCooldown /\ expired' = expired /\ pc[c] \in {"limit", "denied"}
      BY <1>6 DEF Allow, AllowFails, AskAgain, MaxWaitOver, LimitExpires, blockVars
    <2>2. \E to \in {"limit", "denied", "jitter", "returned"} : pc' = [pc EXCEPT ![c] = to]
      BY <1>6 DEF Allow, AllowFails, AskAgain, MaxWaitOver, LimitExpires, Goto, Return
    <2> QED BY <2>1, <2>2, MoveKeepsSlots, Zenon
  <1>7. ASSUME NEW c \in Slots, JitterExpires(c) \/ Capture(c) \/ CaptureFails(c) PROVE SlotInv'
    <2>1. inCooldown' = inCooldown /\ expired' = expired /\ pc[c] = "jitter"
      BY <1>7 DEF JitterExpires, Capture, CaptureFails, blockVars
    <2>2. \E to \in {"page", "returned"} : pc' = [pc EXCEPT ![c] = to]
      BY <1>7 DEF JitterExpires, Capture, CaptureFails, Goto, Return
    <2> QED BY <2>1, <2>2, MoveKeepsSlots, Zenon
  <1>8. ASSUME NEW c \in Slots, OpenPage(c) \/ WakeUp(c) \/ Succeed(c) PROVE SlotInv'
    <2>1. CASE OpenPage(c)
      BY <2>1, MoveKeepsSlots, Zenon DEF OpenPage, Goto, blockVars
    <2>2. CASE WakeUp(c)
      BY <2>2, MoveKeepsSlots, Zenon DEF WakeUp, ClosePage, Goto
    <2>3. CASE Succeed(c)
      BY <2>3, MoveKeepsSlots, Zenon DEF Succeed, Return, Goto, blockVars
    <2> QED BY <1>8, <2>1, <2>2, <2>3
  <1>9. ASSUME NEW c \in Slots, CrawlExpires(c) PROVE SlotInv'
    <2>1. inCooldown' = inCooldown /\ expired' = expired /\ pc[c] = "page" /\ expired[c] = TRUE
      BY <1>9 DEF CrawlExpires, blockVars, SlotInv
    <2>2. pc' = [pc EXCEPT ![c] = "probe"] \/ pc' = [pc EXCEPT ![c] = "returned"]
      BY <1>9 DEF CrawlExpires, Goto, Return
    <2> QED BY <2>1, <2>2, MoveKeepsSlots, Zenon
  <1>10. ASSUME NEW c \in Slots, ProxyHealthy(c) \/ ProxyUnhealthy(c) PROVE SlotInv'
    <2>1. inCooldown' = inCooldown /\ expired' = expired /\ pc[c] = "probe"
      BY <1>10 DEF ProxyHealthy, ProxyUnhealthy, blockVars
    <2>2. pc' = [pc EXCEPT ![c] = "ensure"] \/ pc' = [pc EXCEPT ![c] = "returned"]
      BY <1>10 DEF ProxyHealthy, ProxyUnhealthy, Goto, Return
    <2> QED BY <2>1, <2>2, MoveKeepsSlots, Zenon
  <1>11. CASE NodeRestart \/ Sigterm
    <2>1. pc' = [c \in Slots |-> "idle"] /\ expired' = [c \in Slots |-> FALSE] /\ inCooldown' = FALSE
      BY <1>11 DEF NodeRestart, Sigterm, Reboot
    <2>2. pc' \in [Slots -> Places] /\ expired' \in [Slots -> BOOLEAN]
      BY <2>1
    <2>3. \A c \in Slots : pc'[c] /= "probe"
      BY <2>1
    <2> QED BY <2>1, <2>2, <2>3 DEF SlotInv, CooldownHasSleeper
  <1>12. CASE CooldownOver \/ FailuresExpire \/ BlocksExpire \/ Tick \/ UNCHANGED vars
    <2>1. pc' = pc /\ expired' = expired /\ inCooldown' = inCooldown
      BY <1>12 DEF CooldownOver, FailuresExpire, BlocksExpire, Tick, slotVars, blockVars, vars
    <2> QED BY <2>1, RestKeepsSlots
  <1> QED BY <1>1, <1>2, <1>3, <1>4, <1>5, <1>6, <1>7, <1>8, <1>9, <1>10, <1>11, <1>12
          DEF Next, CrawlStep

\* AdaptiveThrottler: inCooldown never keeps the tasks from sleeping without
\* a sleeper whose ExitCooldown is still to come.
THEOREM ThrottleNeverStuck == Spec => []CooldownHasSleeper
  <1>1. SlotInv => CooldownHasSleeper
    BY DEF SlotInv
  <1> QED BY <1>1, InitSlots, NextSlots, PTL DEF Spec

\* The cooldown: set for FORCE_PROXY_ONCE or by a task whose time was up.
ProxyStep ==
  (~cooldown /\ cooldown') =>
     (forceOnce /\ ~forceOnce') \/ \E c \in Slots : pc[c] = "probe" /\ expired[c]

\* No step sets the cooldown in any other way.
LEMMA NextProxy == SlotInv /\ [Next]_vars => [ProxyStep]_vars
  <1> SUFFICES ASSUME SlotInv, [Next]_vars, ~cooldown, cooldown'
               PROVE  (forceOnce /\ ~forceOnce') \/ \E c \in Slots : pc[c] = "probe" /\ expired[c]
    BY DEF ProxyStep
  <1>1. ASSUME NEW c \in Slots, EnsureBrowserState(c) PROVE forceOnce /\ ~forceOnce'
    BY <1>1, Zenon DEF EnsureBrowserState
  <1>2. ASSUME NEW c \in Slots, ProxyHealthy(c) PROVE pc[c] = "probe" /\ expired[c]
    BY <1>2 DEF ProxyHealthy, SlotInv
  <1>3. ASSUME NEW c \in Slots,
               StartTask(c) \/ Expire(c) \/ WorkerStep(c) \/ PageStep(c) \/ LateResult(c) \/ EnsureFails(c)
        PROVE  FALSE
    BY <1>3, Zenon DEF StartTask, Expire, WorkerStep, WorkerResult, WorkerTimeout, PageStep, PageFails,
                PageEmpty, PageLoaded, PageBlocked, LateResult, EnsureFails, proxyVars
  <1>4. ASSUME NEW c \in Slots,
               \/ Allow(c) \/ AllowFails(c) \/ AskAgain(c) \/ MaxWaitOver(c) \/ LimitExpires(c)
               \/ JitterExpires(c) \/ Capture(c) \/ CaptureFails(c)
        PROVE  FALSE
    BY <1>4, Zenon DEF Allow, AllowFails, AskAgain, MaxWaitOver, LimitExpires, JitterExpires, Capture,
                CaptureFails, proxyVars
  <1>5. ASSUME NEW c \in Slots,
               OpenPage(c) \/ WakeUp(c) \/ Succeed(c) \/ CrawlExpires(c) \/ ProxyUnhealthy(c)
        PROVE  FALSE
    BY <1>5, Zenon DEF OpenPage, WakeUp, Succeed, CrawlExpires, ProxyUnhealthy, proxyVars
  <1>6. CASE NodeRestart \/ Sigterm \/ CooldownOver \/ FailuresExpire \/ BlocksExpire \/ Tick \/ UNCHANGED vars
    BY <1>6, Zenon DEF NodeRestart, Sigterm, Reboot, CooldownOver, FailuresExpire, BlocksExpire, Tick,
                proxyVars, vars
  <1> QED BY <1>1, <1>2, <1>3, <1>4, <1>5, <1>6 DEF Next, CrawlStep

\* doCrawl and shouldActivateProxy: whatever the tasks do between them, the
\* cooldown is only set for FORCE_PROXY_ONCE or by a task that timed out.
THEOREM ProxyNeedsTimeout == Spec => ProxyOnlyAfterTimeout
  <1>1. [ProxyStep]_vars <=>
        [(~cooldown /\ cooldown') =>
           (forceOnce /\ ~forceOnce') \/ \E c \in Slots : pc[c] = "probe" /\ expired[c]]_vars
    BY DEF ProxyStep
  <1> QED BY <1>1, InitSlots, NextSlots, NextProxy, PTL DEF Spec, ProxyOnlyAfterTimeout
-----------------------------------------------------------------------------
\* What is counted, and that no task is counted twice.
CountInv ==
  /\ SlotInv
  /\ stats \in [processed : Nat, succeeded : Nat, failed : Nat]
  /\ CountedOnce

\* The tasks at work are finitely many.
LEMMA RunningFinite == IsFiniteSet(Running) /\ Cardinality(Running) \in Nat
  <1>1. IsFiniteSet(Running)
    BY CrawlAssumption, FS_Subset DEF CrawlAssumption, Running
  <1> QED BY <1>1, FS_CardinalityType

\* Nothing is counted before the first task.
LEMMA InitCount == Init => CountInv
  <1> SUFFICES ASSUME Init PROVE CountInv
    OBVIOUS
  <1>1. Running = {}
    BY DEF Init, Running
  <1>2. Cardinality(Running) = 0
    BY <1>1, FS_EmptySet
  <1>3. stats = [processed |-> 0, succeeded |-> 0, failed |-> 0]
    BY DEF Init, NoStats
  <1> QED BY <1>2, <1>3, InitSlots DEF CountInv, CountedOnce

\* A task moves on without ending.
LEMMA MoveKeepsCount ==
  ASSUME CountInv, SlotInv', Running' = Running, stats' = stats
  PROVE  CountInv'
  BY DEF CountInv, CountedOnce

\* A task ends, and is counted at most once.
LEMMA EndKeepsCount ==
  ASSUME CountInv, SlotInv', NEW c \in Running, Running' = Running \ {c},
         \/ stats' = stats
         \/ stats' = [stats EXCEPT !.succeeded = @ + 1]
         \/ stats' = [stats EXCEPT !.failed = @ + 1]
  PROVE  CountInv'
  <1> DEFINE n == Cardinality(Running)
             m == Cardinality(Running \ {c})
  <1>1. m = n - 1 /\ n \in Nat
    BY RunningFinite, FS_RemoveElement
  <1>2. m \in Int /\ Cardinality(Running') = m
    BY <1>1
  <1>3. stats.succeeded + stats.failed + n =< stats.processed
        /\ stats \in [processed : Nat, succeeded : Nat, failed : Nat]
    BY DEF CountInv, CountedOnce
  <1>4. /\ stats' \in [processed : Nat, succeeded : Nat, failed : Nat]
        /\ stats'.processed = stats.processed
        /\ stats'.succeeded + stats'.failed =< stats.succeeded + stats.failed + 1
    BY <1>3
  <1> HIDE DEF n, m
  <1>5. stats'.succeeded + stats'.failed + m =< stats'.processed
    BY <1>1, <1>2, <1>3, <1>4
  <1> QED BY <1>2, <1>4, <1>5 DEF CountInv, CountedOnce

\* doCrawl starts.
LEMMA StartKeepsCount ==
  ASSUME CountInv, SlotInv', NEW c \in Slots, StartTask(c)
  PROVE  CountInv'
  <1> DEFINE n == Cardinality(Running)
             m == Cardinality(Running \cup {c})
  <1>1. c \notin Running
    BY DEF StartTask, Running
  <1>2. Running' = Running \cup {c}
    BY DEF StartTask, Running, Goto, CountInv, SlotInv
  <1>3. m = n + 1 /\ n \in Nat
    BY <1>1, RunningFinite, FS_AddElement
  <1>4. Cardinality(Running') = m
    BY <1>2
  <1>5. stats.succeeded + stats.failed + n =< stats.processed
        /\ stats \in [processed : Nat, succeeded : Nat, failed : Nat]
    BY DEF CountInv, CountedOnce
  <1>6. /\ stats' \in [processed : Nat, succeeded : Nat, failed : Nat]
        /\ stats'.processed = stats.processed + 1
        /\ stats'.succeeded = stats.succeeded /\ stats'.failed = stats.failed
    BY <1>5 DEF StartTask
  <1> HIDE DEF n, m
  <1>7. stats'.succeeded + stats'.failed + m =< stats'.processed
    BY <1>3, <1>5, <1>6
  <1> QED BY <1>4, <1>6, <1>7 DEF CountInv, CountedOnce

\* Who is at work after a step of one task.
LEMMA StillRunning ==
  ASSUME SlotInv, NEW c \in Slots, NEW to, pc' = [pc EXCEPT ![c] = to],
         pc[c] \in {"idle", "returned"} <=> to \in {"idle", "returned"}
  PROVE  Running' = Running
  BY DEF SlotInv, Running

\* A doCrawl that returns is no longer at work, and no other is disturbed.
LEMMA Returned ==
  ASSUME SlotInv, NEW c \in Slots, pc' = [pc EXCEPT ![c] = "returned"], pc[c] \notin {"idle", "returned"}
  PROVE  c \in Running /\ Running' = Running \ {c}
  BY DEF SlotInv, Running

\* Each step counts at most the one task that it ends.
LEMMA NextCount == CountInv /\ [Next]_vars => CountInv'
  <1> SUFFICES ASSUME CountInv, [Next]_vars PROVE CountInv'
    OBVIOUS
  <1>0. SlotInv /\ SlotInv'
    BY NextSlots DEF CountInv
  <1>1. ASSUME NEW c \in Slots, StartTask(c) PROVE CountInv'
    BY <1>0, <1>1, StartKeepsCount
  <1>2. ASSUME NEW c \in Slots, Expire(c) \/ WorkerStep(c) \/ LateResult(c) PROVE CountInv'
    <2>1. stats' = stats
      BY <1>2 DEF Expire, WorkerStep, WorkerResult, WorkerTimeout, LateResult, nodeVars
    <2>2. pc' = pc \/ (pc[c] = "returned" /\ pc' = [pc EXCEPT ![c] = "idle"])
      BY <1>2 DEF Expire, WorkerStep, WorkerResult, WorkerTimeout, LateResult, Goto
    <2>3. Running' = Running
      BY <1>0, <2>2, StillRunning DEF Running
    <2> QED BY <1>0, <2>1, <2>3, MoveKeepsCount
  <1>3. ASSUME NEW c \in Slots, PageStep(c) \/ OpenPage(c) \/ WakeUp(c) PROVE CountInv'
    <2>1. stats' = stats /\ pc[c] \in {"page", "open", "sleep"}
      BY <1>3 DEF PageStep, PageFails, PageEmpty, PageLoaded, PageBlocked, OpenPage, WakeUp, nodeVars
    <2>2. \E to \in {"page", "open", "sleep"} : pc' = [pc EXCEPT ![c] = to]
      <3>1. CASE PageFails(c) \/ PageEmpty(c) \/ PageLoaded(c) \/ WakeUp(c)
        BY <3>1 DEF PageFails, PageEmpty, PageLoaded, WakeUp, ClosePage, Goto
      <3>2. CASE PageBlocked(c) \/ OpenPage(c)
        BY <3>2, Zenon DEF PageBlocked, OpenPage, ClosePage, Goto
      <3> QED BY <1>3, <3>1, <3>2 DEF PageStep
    <2>3. Running' = Running
      BY <1>0, <2>1, <2>2, StillRunning, Zenon
    <2> QED BY <1>0, <2>1, <2>3, MoveKeepsCount
  <1>4. ASSUME NEW c \in Slots,
               EnsureBrowserState(c) \/ Allow(c) \/ AllowFails(c) \/ AskAgain(c) \/ MaxWaitOver(c) \/ Capture(c)
        PROVE  CountInv'
    <2>1. stats' = stats /\ pc[c] \in {"ensure", "limit", "denied", "jitter"}
      BY <1>4 DEF EnsureBrowserState, Allow, AllowFails, AskAgain, MaxWaitOver, Capture, nodeVars
    <2>2. pc' = pc \/ \E to \in {"limit", "denied", "jitter", "page"} : pc' = [pc EXCEPT ![c] = to]
      BY <1>4 DEF EnsureBrowserState, Allow, AllowFails, AskAgain, MaxWaitOver, Capture, Goto
    <2>3. Running' = Running
      BY <1>0, <2>1, <2>2, StillRunning DEF Running
    <2> QED BY <1>0, <2>1, <2>3, MoveKeepsCount
  <1>5. ASSUME NEW c \in Slots, LimitExpires(c) \/ JitterExpires(c) PROVE CountInv'
    <2>1. stats' = stats /\ pc[c] \in {"denied", "jitter"} /\ pc' = [pc EXCEPT ![c] = "returned"]
      BY <1>5 DEF LimitExpires, JitterExpires, Return, Goto, nodeVars
    <2> QED BY <1>0, <2>1, Returned, EndKeepsCount, Zenon
  <1>6. ASSUME NEW c \in Slots, EnsureFails(c) \/ CaptureFails(c) \/ ProxyUnhealthy(c) PROVE CountInv'
    <2>1. pc[c] \in {"ensure", "jitter", "probe"} /\ pc' = [pc EXCEPT ![c] = "returned"] /\ Count(c, "failed")
      BY <1>6 DEF EnsureFails, CaptureFails, ProxyUnhealthy, Return, Goto
    <2>2. stats' = stats \/ stats' = [stats EXCEPT !.failed = @ + 1]
      BY <2>1 DEF Count
    <2> QED BY <1>0, <2>1, <2>2, Returned, EndKeepsCount, Zenon
  <1>7. ASSUME NEW c \in Slots, Succeed(c) PROVE CountInv'
    <2>1. pc[c] = "page" /\ pc' = [pc EXCEPT ![c] = "returned"] /\ Count(c, "succeeded")
      BY <1>7 DEF Succeed, Return, Goto
    <2>2. stats' = stats \/ stats' = [stats EXCEPT !.succeeded = @ + 1]
      BY <2>1 DEF Count
    <2> QED BY <1>0, <2>1, <2>2, Returned, EndKeepsCount, Zenon
  <1>8. ASSUME NEW c \in Slots, CrawlExpires(c) \/ ProxyHealthy(c) PROVE CountInv'
    <2>1. /\ pc[c] \in {"page", "probe"}
          /\ \/ pc' = [pc EXCEPT ![c] = "returned"] /\ Count(c, "failed")
             \/ (\E to \in {"probe", "ensure"} : pc' = [pc EXCEPT ![c] = to]) /\ stats' = stats
      BY <1>8 DEF CrawlExpires, ProxyHealthy, Return, Goto
    <2>2. CASE pc' = [pc EXCEPT ![c] = "returned"] /\ Count(c, "failed")
      <3>1. stats' = stats \/ stats' = [stats EXCEPT !.failed = @ + 1]
        BY <2>2 DEF Count
      <3> QED BY <1>0, <2>1, <2>2, <3>1, Returned, EndKeepsCount, Zenon
    <2>3. CASE (\E to \in {"probe", "ensure"} : pc' = [pc EXCEPT ![c] = to]) /\ stats' = stats
      <3>1. Running' = Running
        BY <1>0, <2>1, <2>3, StillRunning, Zenon
      <3> QED BY <1>0, <2>3, <3>1, MoveKeepsCount
    <2> QED BY <2>1, <2>2, <2>3
  <1>9. CASE NodeRestart \/ Sigterm
    <2>1. pc' = [c \in Slots |-> "idle"] /\ stats' = [processed |-> 0, succeeded |-> 0, failed |-> 0]
      BY <1>9 DEF NodeRestart, Sigterm, Reboot, NoStats
    <2>2. Running' = {}
      BY <2>1 DEF Running
    <2>3. Cardinality(Running') = 0
      BY <2>2, FS_EmptySet
    <2> QED BY <1>0, <2>1, <2>3 DEF CountInv, CountedOnce
  <1>10. CASE CooldownOver \/ FailuresExpire \/ BlocksExpire \/ Tick \/ UNCHANGED vars
    <2>1. pc' = pc /\ stats' = stats
      BY <1>10 DEF CooldownOver, FailuresExpire, BlocksExpire, Tick, slotVars, nodeVars, vars
    <2>2. Running' = Running
      BY <2>1 DEF Running
    <2> QED BY <1>0, <2>1, <2>2, MoveKeepsCount
  <1> QED BY <1>1, <1>2, <1>3, <1>4, <1>5, <1>6, <1>7, <1>8, <1>9, <1>10 DEF Next, CrawlStep

\* CrawlStats: a retry, or a doCrawl that outlives its worker, never has a
\* task counted a second time, for any number of slots and any MaxTasks.
THEOREM NoDoubleCount == Spec => []CountedOnce
  <1>1. CountInv => CountedOnce
    BY DEF CountInv
  <1> QED BY <1>1, InitCount, NextCount, PTL DEF Spec
-----------------------------------------------------------------------------
\* How far the tasks are: a page that is open, or kept open by a sleeping
\* task, is one of the LastPage there are.
PageInv ==
  /\ pc \in [Slots -> Places]
  /\ worker \in [Slots -> {"free", "waiting"}]
  /\ attempt \in [Slots -> 0 .. 1] /\ page \in [Slots -> 0 .. LastPage]
  /\ \A c \in Slots : pc[c] \in {"open", "sleep"} => page[c] < LastPage

\* There are pages of both phases.
LEMMA PageNumbers == LastPage \in Nat /\ PagesOnSale \in Nat /\ PagesOnSale < LastPage
  BY CrawlAssumption DEF LastPage

\* No task has opened a page yet.
LEMMA InitPages == Init => PageInv
  BY PageNumbers DEF Init, PageInv, Places

\* A task goes on, its page and its attempt as they were.
LEMMA GotoKeepsPages ==
  ASSUME PageInv, NEW c \in Slots, NEW to \in Places,
         to \in {"open", "sleep"} => page[c] < LastPage,
         pc' = [pc EXCEPT ![c] = to], page' = page, attempt' = attempt,
         worker' \in [Slots -> {"free", "waiting"}]
  PROVE  PageInv'
  <1>1. \A d \in Slots : pc'[d] \in {"open", "sleep"} => page'[d] < LastPage'
    BY DEF PageInv, LastPage
  <1> QED BY <1>1, Zenon DEF PageInv, LastPage

\* A task is told to go on with another page, or from the first one again.
LEMMA TurnKeepsPages ==
  ASSUME PageInv, NEW c \in Slots, NEW to \in Places \ {"open", "sleep"}, NEW p \in 0 .. LastPage,
         pc' = [pc EXCEPT ![c] = to], page' = [page EXCEPT ![c] = p],
         attempt' \in [Slots -> 0 .. 1], worker' = worker
  PROVE  PageInv'
  <1>1. \A d \in Slots : pc'[d] \in {"open", "sleep"} => page'[d] < LastPage'
    BY DEF PageInv, LastPage
  <1> QED BY <1>1, Zenon DEF PageInv, LastPage

\* doCrawl returns.
LEMMA ReturnKeepsPages ==
  ASSUME PageInv, NEW c \in Slots, Return(c), worker' = worker
  PROVE  PageInv'
  <1>1. attempt' \in [Slots -> 0 .. 1]
    BY DEF PageInv, Return
  <1>2. "returned" \in Places \ {"open", "sleep"} /\ 0 \in 0 .. LastPage
    BY PageNumbers DEF Places
  <1>3. pc' = [pc EXCEPT ![c] = "returned"] /\ page' = [page EXCEPT ![c] = 0]
    BY DEF Return, Goto
  <1> QED BY <1>1, <1>2, <1>3, TurnKeepsPages, Zenon

\* A page is closed, and the loop goes on with the next one or the next phase.
LEMMA CloseKeepsPages ==
  ASSUME PageInv, NEW c \in Slots, pc[c] \in {"open", "sleep"},
         NEW to \in {page[c] + 1, EndOfPhase(c)}, ClosePage(c, to),
         attempt' = attempt, worker' = worker
  PROVE  PageInv'
  <1>1. page[c] \in Nat /\ page[c] < LastPage
    BY PageNumbers DEF PageInv
  <1>2. to \in 0 .. LastPage
    BY <1>1, PageNumbers DEF EndOfPhase
  <1>3. attempt' \in [Slots -> 0 .. 1]
    BY DEF PageInv
  <1> QED BY <1>2, <1>3, TurnKeepsPages, Zenon DEF ClosePage, Goto, Places

\* Whatever becomes of the pages, the loop never runs past the last one.
LEMMA NextPages == PageInv /\ [Next]_vars => PageInv'
  <1> SUFFICES ASSUME PageInv, [Next]_vars PROVE PageInv'
    OBVIOUS
  <1>1. ASSUME NEW c \in Slots, StartTask(c) \/ WorkerResult(c) \/ LateResult(c) PROVE PageInv'
    <2>1. /\ page' = page /\ attempt' = attempt
          /\ worker' \in [Slots -> {"free", "waiting"}]
      BY <1>1 DEF StartTask, WorkerResult, LateResult, PageInv
    <2>2. \E to \in {"idle", "ensure"} : pc' = [pc EXCEPT ![c] = to]
      BY <1>1 DEF StartTask, WorkerResult, LateResult, Goto
    <2> QED BY <2>1, <2>2, GotoKeepsPages, Zenon DEF Places
  <1>2. ASSUME NEW c \in Slots, Expire(c) \/ WorkerTimeout(c) PROVE PageInv'
    <2>1. /\ page' = page /\ attempt' = attempt /\ pc' = pc
          /\ worker' \in [Slots -> {"free", "waiting"}]
      BY <1>2 DEF Expire, WorkerTimeout, PageInv
    <2> QED BY <2>1 DEF PageInv, LastPage
  <1>3. ASSUME NEW c \in Slots, PageFails(c) \/ PageEmpty(c) \/ PageLoaded(c) \/ WakeUp(c) PROVE PageInv'
    <2>1. pc[c] \in {"open", "sleep"} /\ attempt' = attempt /\ worker' = worker
      BY <1>3 DEF PageFails, PageEmpty, PageLoaded, WakeUp
    <2>2. \E to \in {page[c] + 1, EndOfPhase(c)} : ClosePage(c, to)
      BY <1>3 DEF PageFails, PageEmpty, PageLoaded, WakeUp
    <2> QED BY <2>1, <2>2, CloseKeepsPages
  <1>4. ASSUME NEW c \in Slots, PageBlocked(c) PROVE PageInv'
    <2>1. pc[c] = "open" /\ attempt' = attempt /\ worker' = worker
      BY <1>4 DEF PageBlocked
    <2>2. \/ pc' = [pc EXCEPT ![c] = "sleep"] /\ page' = page
          \/ ClosePage(c, page[c] + 1)
      BY <1>4 DEF PageBlocked, Goto
    <2>3. page[c] < LastPage /\ worker' \in [Slots -> {"free", "waiting"}]
      BY <2>1 DEF PageInv
    <2>4. CASE pc' = [pc EXCEPT ![c] = "sleep"] /\ page' = page
      BY <2>1, <2>3, <2>4, GotoKeepsPages, Zenon DEF Places
    <2>5. CASE ClosePage(c, page[c] + 1)
      BY <2>1, <2>5, CloseKeepsPages
    <2> QED BY <2>2, <2>4, <2>5
  <1>5. ASSUME NEW c \in Slots, EnsureBrowserState(c) PROVE PageInv'
    <2>1. /\ page' = page /\ worker' = worker /\ pc[c] = "ensure"
          /\ \/ pc' = pc /\ attempt' = [attempt EXCEPT ![c] = 1]
             \/ pc' = [pc EXCEPT ![c] = "limit"] /\ attempt' = attempt
      BY <1>5 DEF EnsureBrowserState, Goto
    <2>2. worker' \in [Slots -> {"free", "waiting"}]
      BY <2>1 DEF PageInv
    <2>3. CASE pc' = pc /\ attempt' = [attempt EXCEPT ![c] = 1]
      <3>1. attempt' \in [Slots -> 0 .. 1]
        BY <2>3 DEF PageInv
      <3> QED BY <2>1, <2>3, <3>1 DEF PageInv, LastPage
    <2>4. CASE pc' = [pc EXCEPT ![c] = "limit"] /\ attempt' = attempt
      BY <2>1, <2>2, <2>4, GotoKeepsPages, Zenon DEF Places
    <2> QED BY <2>1, <2>3, <2>4
  <1>6. ASSUME NEW c \in Slots, Allow(c) \/ AllowFails(c) \/ AskAgain(c) \/ MaxWaitOver(c) \/ Capture(c)
        PROVE  PageInv'
    <2>1. page' = page /\ attempt' = attempt /\ worker' \in [Slots -> {"free", "waiting"}]
      BY <1>6 DEF Allow, AllowFails, AskAgain, MaxWaitOver, Capture, PageInv
    <2>2. \E to \in {"limit", "denied", "jitter", "page"} : pc' = [pc EXCEPT ![c] = to]
      BY <1>6 DEF Allow, AllowFails, AskAgain, MaxWaitOver, Capture, Goto
    <2> QED BY <2>1, <2>2, GotoKeepsPages, Zenon DEF Places
  <1>7. ASSUME NEW c \in Slots,
               \/ EnsureFails(c) \/ LimitExpires(c) \/ JitterExpires(c) \/ CaptureFails(c)
               \/ Succeed(c) \/ ProxyUnhealthy(c)
        PROVE  PageInv'
    <2>1. Return(c) /\ worker' = worker
      BY <1>7, Zenon DEF EnsureFails, LimitExpires, JitterExpires, CaptureFails, Succeed, ProxyUnhealthy
    <2> QED BY <2>1, ReturnKeepsPages
  <1>8. ASSUME NEW c \in Slots, OpenPage(c) PROVE PageInv'
    <2>1. /\ page' = page /\ attempt' = attempt /\ worker' \in [Slots -> {"free", "waiting"}]
          /\ page[c] < LastPage /\ pc' = [pc EXCEPT ![c] = "open"]
      BY <1>8 DEF OpenPage, Goto, PageInv
    <2> QED BY <2>1, GotoKeepsPages, Zenon DEF Places
  <1>9. ASSUME NEW c \in Slots, CrawlExpires(c) PROVE PageInv'
    <2>1. /\ worker' = worker
          /\ \/ Return(c)
             \/ pc' = [pc EXCEPT ![c] = "probe"] /\ page' = page /\ attempt' = attempt
      BY <1>9 DEF CrawlExpires, Goto
    <2>2. worker' \in [Slots -> {"free", "waiting"}]
      BY <2>1 DEF PageInv
    <2> QED BY <2>1, <2>2, ReturnKeepsPages, GotoKeepsPages DEF Places
  <1>10. ASSUME NEW c \in Slots, ProxyHealthy(c) PROVE PageInv'
    <2>1. /\ worker' = worker
          /\ \/ Return(c)
             \/ /\ pc' = [pc EXCEPT ![c] = "ensure"] /\ page' = [page EXCEPT ![c] = 0]
                /\ attempt' = [attempt EXCEPT ![c] = 1]
      BY <1>10 DEF ProxyHealthy, Goto
    <2>2. CASE Return(c)
      BY <2>1, <2>2, ReturnKeepsPages
    <2>3. CASE ~Return(c)
      <3>1. attempt' \in [Slots -> 0 .. 1]
        BY <2>1, <2>3 DEF PageInv
      <3>2. 0 \in 0 .. LastPage
        BY PageNumbers
      <3> QED BY <2>1, <2>3, <3>1, <3>2, TurnKeepsPages DEF Places
    <2> QED BY <2>2, <2>3
  <1>11. CASE NodeRestart \/ Sigterm
    <2>1. /\ worker' = [c \in Slots |-> "free"] /\ pc' = [c \in Slots |-> "idle"]
          /\ attempt' = [c \in Slots |-> 0] /\ page' = [c \in Slots |-> 0]
      BY <1>11 DEF NodeRestart, Sigterm, Reboot
    <2> QED BY <2>1, PageNumbers DEF PageInv, Places, LastPage
  <1>12. CASE CooldownOver \/ FailuresExpire \/ BlocksExpire \/ Tick \/ UNCHANGED vars
    <2>1. pc' = pc /\ page' = page /\ attempt' = attempt /\ worker' = worker
      BY <1>12 DEF CooldownOver, FailuresExpire, BlocksExpire, Tick, slotVars, vars
    <2> QED BY <2>1 DEF PageInv, LastPage
  <1> QED BY <1>1, <1>2, <1>3, <1>4, <1>5, <1>6, <1>7, <1>8, <1>9, <1>10, <1>11, <1>12
          DEF Next, CrawlStep, WorkerStep, PageStep

\* What the tasks share: the counters stop at their thresholds, in the node
\* and in Redis.
ShareInv ==
  /\ counter \in 0 .. MaxTasks /\ restart \in BOOLEAN
  /\ forceOnce \in BOOLEAN /\ proxy \in BOOLEAN /\ cooldown \in BOOLEAN
  /\ failures \in 0 .. FailureThreshold
  /\ blocks \in 0 .. BlockThreshold /\ redisBlocks \in 0 .. BlockThreshold

\* The thresholds are numbers.
LEMMA Thresholds ==
  /\ MaxTasks \in Nat /\ FailureThreshold \in Nat /\ BlockThreshold \in Nat
  /\ ForceOnce \in BOOLEAN /\ MaxProcessed \in Nat
  BY CrawlAssumption DEF CrawlAssumption

\* A counter may start again.
LEMMA ZeroInRange == 0 \in 0 .. MaxTasks /\ 0 \in 0 .. FailureThreshold /\ 0 \in 0 .. BlockThreshold
  BY Thresholds

\* A counter that stops at its threshold.
LEMMA LeastInRange ==
  ASSUME NEW n \in Nat, NEW m \in 0 .. n
  PROVE  Least(m + 1, n) \in 0 .. n
  BY DEF Least

\* Every count is at zero.
LEMMA InitShare == Init => ShareInv
  BY Thresholds, ZeroInRange, Zenon DEF Init, ShareInv

\* The end of a crawl: taskCounter, the signal, the consecutive failures.
LEMMA EndKeepsShare ==
  ASSUME ShareInv, NEW c \in Slots, CountTask(c), UNCHANGED <<forceOnce, proxy, cooldown, blocks, redisBlocks>>,
         ResetFailures \/ \E n \in 0 .. FailureThreshold : OneMore(n)
  PROVE  ShareInv'
  <1>1. counter' \in 0 .. MaxTasks
    BY Thresholds, LeastInRange DEF CountTask, ShareInv
  <1>2. restart' \in BOOLEAN
    BY DEF CountTask, ShareInv
  <1>3. failures' \in 0 .. FailureThreshold
    <2>1. Least(failures + 1, FailureThreshold) \in 0 .. FailureThreshold /\ 0 \in 0 .. FailureThreshold
      BY Thresholds, LeastInRange DEF ShareInv
    <2> QED BY <2>1 DEF ResetFailures, OneMore, ShareInv
  <1> QED BY <1>1, <1>2, <1>3 DEF ShareInv

\* No step takes a count past its threshold.
LEMMA NextShare == ShareInv /\ [Next]_vars => ShareInv'
  <1> SUFFICES ASSUME ShareInv, [Next]_vars PROVE ShareInv'
    OBVIOUS
  <1>1. ASSUME NEW c \in Slots,
               \/ StartTask(c) \/ Expire(c) \/ WorkerStep(c) \/ LateResult(c) \/ PageFails(c) \/ PageEmpty(c)
               \/ WakeUp(c) \/ OpenPage(c) \/ EnsureFails(c) \/ ProxyUnhealthy(c)
        PROVE  ShareInv'
    <2>1. UNCHANGED <<counter, restart, proxyVars, blocks, redisBlocks>>
      BY <1>1 DEF StartTask, Expire, WorkerStep, WorkerResult, WorkerTimeout, LateResult, PageFails, PageEmpty,
                  WakeUp, OpenPage, EnsureFails, ProxyUnhealthy, nodeVars, blockVars
    <2> QED BY <2>1 DEF ShareInv, proxyVars
  <1>2. ASSUME NEW c \in Slots,
               \/ Allow(c) \/ AllowFails(c) \/ AskAgain(c) \/ MaxWaitOver(c) \/ LimitExpires(c)
               \/ JitterExpires(c) \/ Capture(c)
        PROVE  ShareInv'
    <2>1. UNCHANGED <<counter, restart, proxyVars, blocks, redisBlocks>>
      BY <1>2 DEF Allow, AllowFails, AskAgain, MaxWaitOver, LimitExpires, JitterExpires, Capture, nodeVars, blockVars
    <2> QED BY <2>1 DEF ShareInv, proxyVars
  <1>3. ASSUME NEW c \in Slots, PageLoaded(c) PROVE ShareInv'
    <2>1. blocks' = 0 /\ redisBlocks' \in {redisBlocks, 0} /\ UNCHANGED <<counter, restart, proxyVars>>
      BY <1>3 DEF PageLoaded, nodeVars
    <2> QED BY <2>1, Thresholds DEF ShareInv, proxyVars
  <1>4. ASSUME NEW c \in Slots, PageBlocked(c) PROVE ShareInv'
    <2>1. /\ blocks' = Least(blocks + 1, BlockThreshold)
          /\ redisBlocks' \in {redisBlocks, Least(redisBlocks + 1, BlockThreshold)}
          /\ UNCHANGED <<counter, restart, proxyVars>>
      BY <1>4 DEF PageBlocked, nodeVars
    <2>2. /\ Least(blocks + 1, BlockThreshold) \in 0 .. BlockThreshold
          /\ Least(redisBlocks + 1, BlockThreshold) \in 0 .. BlockThreshold
      BY Thresholds, LeastInRange DEF ShareInv
    <2> QED BY <2>1, <2>2 DEF ShareInv, proxyVars
  <1>5. ASSUME NEW c \in Slots, EnsureBrowserState(c) PROVE ShareInv'
    <2>1. /\ proxy' \in BOOLEAN /\ forceOnce' \in {forceOnce, FALSE} /\ cooldown' \in {cooldown, TRUE}
          /\ UNCHANGED <<counter, restart, failures, blocks, redisBlocks>>
      BY <1>5, Zenon DEF EnsureBrowserState, SetCooldown, nodeVars, blockVars
    <2> QED BY <2>1, Zenon DEF ShareInv
  <1>6. ASSUME NEW c \in Slots, CaptureFails(c) \/ Succeed(c) \/ CrawlExpires(c) PROVE ShareInv'
    <2>1. CountTask(c) /\ UNCHANGED <<forceOnce, proxy, cooldown, blocks, redisBlocks>>
      BY <1>6 DEF CaptureFails, Succeed, CrawlExpires, blockVars
    <2>2. ResetFailures \/ \E n \in 0 .. FailureThreshold : OneMore(n)
      BY <1>6 DEF CaptureFails, Succeed, CrawlExpires
    <2> QED BY <2>1, <2>2, EndKeepsShare
  <1>7. ASSUME NEW c \in Slots, ProxyHealthy(c) PROVE ShareInv'
    <2>1. /\ cooldown' \in {cooldown, TRUE} /\ failures' \in {0, failures}
          /\ UNCHANGED <<counter, restart, forceOnce, proxy, blocks, redisBlocks>>
      BY <1>7, Zenon DEF ProxyHealthy, SetCooldown, ResetFailures, blockVars
    <2> QED BY <2>1, Thresholds, ZeroInRange, Zenon DEF ShareInv
  <1>8. CASE NodeRestart \/ Sigterm
    <2>1. /\ counter' = 0 /\ restart' = FALSE /\ forceOnce' = ForceOnce /\ proxy' = FALSE /\ blocks' = 0
          /\ UNCHANGED <<cooldown, failures, redisBlocks>>
      BY <1>8 DEF NodeRestart, Sigterm, Reboot
    <2> QED BY <2>1, Thresholds, ZeroInRange, Zenon DEF ShareInv
  <1>9. CASE CooldownOver \/ FailuresExpire \/ BlocksExpire \/ Tick \/ UNCHANGED vars
    <2>1. /\ cooldown' \in {cooldown, FALSE} /\ failures' \in {failures, 0} /\ redisBlocks' \in {redisBlocks, 0}
          /\ UNCHANGED <<counter, restart, forceOnce, proxy, blocks>>
      BY <1>9, Zenon DEF CooldownOver, FailuresExpire, BlocksExpire, Tick, nodeVars, proxyVars, blockVars, vars
    <2> QED BY <2>1, Thresholds, ZeroInRange, Zenon DEF ShareInv
  <1> QED BY <1>1, <1>2, <1>3, <1>4, <1>5, <1>6, <1>7, <1>8, <1>9 DEF Next, CrawlStep, PageStep

\* The bucket holds at most Burst tokens, and no more time is credited than
\* fills it; StartTask stops at MaxProcessed.
BoundInv ==
  /\ level =< Capacity /\ age =< Capacity
  /\ stats.processed =< MaxProcessed

\* Only the script and the clock move the bucket, only StartTask adds to the
\* tasks processed.
LEMMA NextBound == RateInv /\ CountInv /\ BoundInv /\ [Next]_vars => BoundInv'
  <1> SUFFICES ASSUME RateInv, CountInv, BoundInv, [Next]_vars PROVE BoundInv'
    OBVIOUS
  <1>0. Capacity' = Capacity
    BY DEF Capacity
  <1>1. level' =< Capacity /\ age' =< Capacity
    <2>1. CASE \E c \in Slots : Allow(c)
      <3>1. Cost \in Nat /\ Refilled \in Nat /\ Refilled =< Capacity
        BY CrawlAssumption, CapacityIsNat DEF RateInv, Refilled, Least
      <3>2. (level' = Refilled \/ level' = Refilled - Cost) /\ age' = 0
        BY <2>1, Zenon DEF Allow
      <3> QED BY <3>1, <3>2, CapacityIsNat
    <2>2. CASE Tick
      BY <2>2, CapacityIsNat DEF Tick, RateInv, BoundInv, Least
    <2>3. CASE UNCHANGED <<level, age>>
      BY <2>3 DEF BoundInv
    <2>4. (\E c \in Slots : Allow(c)) \/ Tick \/ UNCHANGED <<level, age>>
      <3>1. ASSUME NEW c \in Slots, StartTask(c) \/ Expire(c) \/ WorkerStep(c) \/ PageStep(c)
            PROVE  UNCHANGED <<level, age>>
        BY <3>1 DEF StartTask, Expire, WorkerStep, WorkerResult, WorkerTimeout, PageStep, PageFails, PageEmpty,
                    PageLoaded, PageBlocked, limitVars
      <3>2. ASSUME NEW c \in Slots, CrawlStep(c) PROVE Allow(c) \/ UNCHANGED <<level, age>>
        BY <3>2, Zenon DEF CrawlStep, LateResult, EnsureBrowserState, EnsureFails, AllowFails, AskAgain, MaxWaitOver,
                    LimitExpires, JitterExpires, Capture, CaptureFails, OpenPage, WakeUp, Succeed, CrawlExpires,
                    ProxyHealthy, ProxyUnhealthy, limitVars
      <3>3. CASE NodeRestart \/ Sigterm \/ CooldownOver \/ FailuresExpire \/ BlocksExpire \/ UNCHANGED vars
        BY <3>3 DEF NodeRestart, Sigterm, Reboot, CooldownOver, FailuresExpire, BlocksExpire, limitVars, vars
      <3> QED BY <3>1, <3>2, <3>3 DEF Next
    <2> QED BY <2>1, <2>2, <2>3, <2>4
  <1>2. stats'.processed =< MaxProcessed
    <2>1. stats \in [processed : Nat, succeeded : Nat, failed : Nat] /\ stats.processed =< MaxProcessed
      BY DEF CountInv, BoundInv
    <2>2. CASE \E c \in Slots : StartTask(c)
      <3>1. stats.processed < MaxProcessed /\ stats' = [stats EXCEPT !.processed = @ + 1]
        BY <2>2 DEF StartTask
      <3> QED BY <2>1, <3>1, Thresholds
    <2>3. CASE stats' = NoStats
      BY <2>3, Thresholds DEF NoStats
    <2>4. CASE \/ stats' = stats
               \/ stats' = [stats EXCEPT !.succeeded = @ + 1]
               \/ stats' = [stats EXCEPT !.failed = @ + 1]
      BY <2>1, <2>4
    <2>5. \/ \E c \in Slots : StartTask(c)
          \/ stats' = NoStats
          \/ stats' = stats
          \/ stats' = [stats EXCEPT !.succeeded = @ + 1]
          \/ stats' = [stats EXCEPT !.failed = @ + 1]
      <3>1. ASSUME NEW c \in Slots, Expire(c) \/ WorkerStep(c) \/ PageStep(c) PROVE stats' = stats
        BY <3>1 DEF Expire, WorkerStep, WorkerResult, WorkerTimeout, PageStep, PageFails, PageEmpty,
                    PageLoaded, PageBlocked, nodeVars
      <3>2. ASSUME NEW c \in Slots, CrawlStep(c)
            PROVE  stats' = stats \/ Count(c, "failed") \/ Count(c, "succeeded")
        BY <3>2, Zenon DEF CrawlStep, LateResult, EnsureBrowserState, EnsureFails, Allow, AllowFails, AskAgain, MaxWaitOver,
                    LimitExpires, JitterExpires, Capture, CaptureFails, OpenPage, WakeUp, Succeed, CrawlExpires,
                    ProxyHealthy, ProxyUnhealthy, nodeVars
      <3>3. CASE NodeRestart \/ Sigterm
        BY <3>3 DEF NodeRestart, Sigterm, Reboot
      <3>4. CASE CooldownOver \/ FailuresExpire \/ BlocksExpire \/ Tick \/ UNCHANGED vars
        BY <3>4 DEF CooldownOver, FailuresExpire, BlocksExpire, Tick, nodeVars, vars
      <3> QED BY <3>1, <3>2, <3>3, <3>4 DEF Next, Count
    <2> QED BY <2>2, <2>3, <2>4, <2>5
  <1> QED BY <1>0, <1>1, <1>2 DEF BoundInv

\* crawlWithFixedPages, the throttle, the failure count and the bucket: the
\* page loop never runs past its last page and no counter past its threshold,
\* whatever the site shows and whichever goroutine is late.
THEOREM CrawlCountersInRange == Spec => []TypeOK
  <1>1. Init => BoundInv
    BY CapacityIsNat, Thresholds DEF Init, BoundInv, NoStats
  <1>2. RateInv /\ CountInv /\ PageInv /\ ShareInv /\ BoundInv => TypeOK
    <2> SUFFICES ASSUME RateInv, CountInv, PageInv, ShareInv, BoundInv PROVE TypeOK
      OBVIOUS
    <2>1. level \in 0 .. Capacity /\ age \in 0 .. Capacity
      BY CapacityIsNat DEF RateInv, BoundInv
    <2>2. stats \in [processed : 0 .. MaxProcessed, succeeded : Nat, failed : Nat]
      BY Thresholds DEF CountInv, BoundInv
    <2>3. expired \in [Slots -> BOOLEAN]
      BY DEF CountInv, SlotInv
    <2> QED BY <2>1, <2>2, <2>3 DEF PageInv, ShareInv, TypeOK, Places
  <1> QED BY <1>1, <1>2, InitRate, NextRate, InitCount, NextCount, InitPages, NextPages, InitShare, NextShare,
             NextBound, PTL DEF Spec
=============================================================================
