---------------------------- MODULE BrowserProofs ----------------------------
(***************************************************************************)
(* Proofs about Browser for any number of tasks: the lock and the draining *)
(* flag go together, the rotation is never left waiting for a signal that  *)
(* has been given, and draining protects the tasks it can know of.         *)
(***************************************************************************)
EXTENDS Browser, FiniteSetTheorems, TLAPS

Rotating == {"drain", "wait", "swap"}
Spots == {"idle", "exists", "store", "compare", "lock", "check", "capture", "count",
          "crawl", "signal", "judge", "cooled"} \cup Rotating

\* A task that rotates the browser has Service.mu, and the node drains then
\* and only then; so there is one rotation at a time, with a channel.
LockInv ==
  /\ pc \in [Tasks -> Spots] /\ mu \in Tasks \cup {Health, None}
  /\ \A t \in Tasks : pc[t] \in Rotating <=> mu = t
  /\ hpc = "launch" => mu = Health
  /\ draining \in BOOLEAN /\ (draining = TRUE <=> mu \in Tasks)
  /\ channel \in {"nil", "open", "closed"} /\ (channel = "nil" <=> draining = FALSE)

\* Nobody has the lock at the start.
LEMMA InitLock == Init => LockInv
  BY BrowserAssumption, Zenon DEF BrowserAssumption, Init, LockInv, Spots, Rotating

\* A step that neither begins nor ends a rotation.
LEMMA MoveKeepsLock ==
  ASSUME LockInv, NEW t \in Tasks, NEW to \in Spots, pc' = [pc EXCEPT ![t] = to],
         pc[t] \in Rotating <=> to \in Rotating,
         mu' = mu, hpc' = hpc, draining' = draining,
         channel' = channel \/ (channel = "open" /\ channel' = "closed")
  PROVE  LockInv'
  BY DEF LockInv

\* A rotation begins.
LEMMA TakeLock ==
  ASSUME LockInv, NEW t \in Tasks, mu = None, pc' = [pc EXCEPT ![t] = "drain"],
         mu' = t, hpc' = hpc, draining' = TRUE, channel' = "open"
  PROVE  LockInv'
  BY BrowserAssumption DEF BrowserAssumption, LockInv, Spots, Rotating

\* A rotation ends.
LEMMA GiveLock ==
  ASSUME LockInv, NEW t \in Tasks, pc[t] = "swap", NEW to \in Spots \ Rotating, pc' = [pc EXCEPT ![t] = to],
         mu' = None, hpc' = hpc, draining' = FALSE, channel' = "nil"
  PROVE  LockInv'
  <1>1. mu = t /\ \A u \in Tasks \ {t} : pc[u] \notin Rotating
    BY DEF LockInv, Rotating
  <1>2. hpc /= "launch"
    BY <1>1, BrowserAssumption DEF BrowserAssumption, LockInv
  <1>3. pc' \in [Tasks -> Spots] /\ \A u \in Tasks : pc'[u] \notin Rotating
    BY <1>1 DEF LockInv
  <1> QED BY <1>2, <1>3, BrowserAssumption, Zenon DEF BrowserAssumption, LockInv

\* The lock is right whatever tasks, health check and Chrome do.
LEMMA NextLock == LockInv /\ [Next]_vars => LockInv'
  <1> SUFFICES ASSUME LockInv, [Next]_vars PROVE LockInv'
    OBVIOUS
  <1>1. ASSUME NEW t \in Tasks,
               ReadCache(t) \/ AskRedis(t) \/ RedisDown(t) \/ StoreCache(t) \/ Compare(t)
        PROVE  LockInv'
    <2>1. mu' = mu /\ hpc' = hpc /\ draining' = draining /\ channel' = channel
          /\ pc[t] \in {"idle", "exists", "store", "compare"}
      BY <1>1 DEF ReadCache, AskRedis, RedisDown, StoreCache, Compare, drainVars, healthVars
    <2>2. \E to \in {"exists", "store", "compare", "check", "lock"} : pc' = [pc EXCEPT ![t] = to]
      BY <1>1 DEF ReadCache, AskRedis, RedisDown, StoreCache, Compare, Ensured, Goto
    <2> QED BY <2>1, <2>2, MoveKeepsLock, Zenon DEF Spots, Rotating
  <1>2. ASSUME NEW t \in Tasks, LockAndDrain(t) PROVE LockInv'
    <2>1. CASE want[t] = isProxy
      BY <1>2, <2>1, MoveKeepsLock DEF LockAndDrain, Ensured, Goto, healthVars, Spots, Rotating
    <2>2. CASE want[t] /= isProxy
      BY <1>2, <2>2, TakeLock DEF LockAndDrain, Goto, healthVars
    <2> QED BY <2>1, <2>2
  <1>3. ASSUME NEW t \in Tasks, WaitForDrain(t) \/ Drained(t) \/ DrainTimeout(t) PROVE LockInv'
    <2>1. mu' = mu /\ hpc' = hpc /\ draining' = draining /\ channel' = channel /\ pc[t] \in {"drain", "wait"}
      BY <1>3 DEF WaitForDrain, Drained, DrainTimeout, drainVars, healthVars
    <2>2. \E to \in {"wait", "swap"} : pc' = [pc EXCEPT ![t] = to]
      BY <1>3 DEF WaitForDrain, Drained, DrainTimeout, Goto
    <2> QED BY <2>1, <2>2, MoveKeepsLock, Zenon DEF Spots, Rotating
  <1>4. ASSUME NEW t \in Tasks, Rotate(t) \/ RotateFails(t) PROVE LockInv'
    <2>1. mu' = None /\ hpc' = hpc /\ draining' = FALSE /\ channel' = "nil" /\ pc[t] = "swap"
      BY <1>4 DEF Rotate, RotateFails, healthVars
    <2>2. \E to \in {"check", "idle"} : pc' = [pc EXCEPT ![t] = to]
      BY <1>4 DEF Rotate, RotateFails, Return, Ensured, Goto
    <2> QED BY <2>1, <2>2, GiveLock, Zenon DEF Spots, Rotating
  <1>5. ASSUME NEW t \in Tasks,
               CheckDraining(t) \/ Capture(t) \/ CountPage(t) \/ Finish(t) \/ SetCooldown(t) \/ CacheCooldown(t)
        PROVE  LockInv'
    <2>1. mu' = mu /\ hpc' = hpc /\ draining' = draining /\ channel' = channel
          /\ pc[t] \in {"check", "capture", "count", "judge", "cooled"}
      BY <1>5 DEF CheckDraining, Capture, CountPage, Finish, SetCooldown, CacheCooldown, drainVars, healthVars
    <2>2. \E to \in {"idle", "capture", "count", "crawl", "cooled"} : pc' = [pc EXCEPT ![t] = to]
      BY <1>5 DEF CheckDraining, Capture, CountPage, Finish, SetCooldown, CacheCooldown, Return, Goto
    <2> QED BY <2>1, <2>2, MoveKeepsLock, Zenon DEF Spots, Rotating
  <1>6. ASSUME NEW t \in Tasks, TrackPageEnd(t) \/ CloseChannel(t) PROVE LockInv'
    <2>1. mu' = mu /\ hpc' = hpc /\ draining' = draining /\ pc[t] \in {"crawl", "signal"}
          /\ (channel' = channel \/ (channel = "open" /\ channel' = "closed"))
      BY <1>6 DEF TrackPageEnd, CloseChannel, healthVars
    <2>2. \E to \in {"signal", "judge"} : pc' = [pc EXCEPT ![t] = to]
      BY <1>6 DEF TrackPageEnd, CloseChannel, Goto
    <2> QED BY <2>1, <2>2, MoveKeepsLock, Zenon DEF Spots, Rotating
  <1>7. CASE HealthCapture \/ HealthTest
    BY <1>7 DEF HealthCapture, HealthTest, taskVars, drainVars, LockInv
  <1>8. CASE RestartClose
    <2>1. pc' = pc /\ mu = None /\ mu' = Health /\ draining' = draining /\ channel' = channel
      BY <1>8 DEF RestartClose, drainVars
    <2> QED BY <2>1, BrowserAssumption DEF BrowserAssumption, LockInv
  <1>9. CASE RestartLaunch \/ RestartFails
    <2>1. pc' = pc /\ hpc = "launch" /\ hpc' = "idle" /\ mu' = None /\ draining' = draining /\ channel' = channel
      BY <1>9 DEF RestartLaunch, RestartFails, taskVars, drainVars
    <2> QED BY <2>1, BrowserAssumption DEF BrowserAssumption, LockInv
  <1>10. CASE CloseOld \/ Crash \/ CooldownChanges \/ CacheExpires \/ UNCHANGED vars
    <2>1. pc' = pc /\ mu' = mu /\ hpc' = hpc /\ draining' = draining /\ channel' = channel
      BY <1>10 DEF CloseOld, Crash, CooldownChanges, CacheExpires, taskVars, drainVars, healthVars, vars
    <2> QED BY <2>1 DEF LockInv
  <1> QED BY <1>1, <1>2, <1>3, <1>4, <1>5, <1>6, <1>7, <1>8, <1>9, <1>10
          DEF Next, TaskStep, HealthStep

\* ensureBrowserState and rotateBrowser: the node drains exactly while some
\* task, with Service.mu, replaces the instance; no error path, restart or
\* crash leaves it draining.
THEOREM DrainsOnlyToRotate == Spec => []DrainingIsRotation
  <1>1. LockInv => DrainingIsRotation
    BY DEF LockInv, DrainingIsRotation, Rotating
  <1> QED BY <1>1, InitLock, NextLock, PTL DEF Spec
-----------------------------------------------------------------------------
Crawling == {t \in Tasks : pc[t] = "crawl"}

\* activePages is the number of tasks that crawl, and the wake-up of the
\* rotation is not lost.
PageInv ==
  /\ LockInv
  /\ activePages = Cardinality(Crawling)
  /\ DrainIsSignalled

\* The tasks that crawl are finitely many.
LEMMA CrawlingFinite == IsFiniteSet(Crawling) /\ Cardinality(Crawling) \in Nat
  <1>1. IsFiniteSet(Crawling)
    BY BrowserAssumption, FS_Subset DEF BrowserAssumption, Crawling
  <1> QED BY <1>1, FS_CardinalityType

\* No page is open at the start.
LEMMA InitPages == Init => PageInv
  <1> SUFFICES ASSUME Init PROVE PageInv
    OBVIOUS
  <1>1. Crawling = {} /\ DrainIsSignalled
    BY DEF Init, Crawling, DrainIsSignalled
  <1>2. activePages = Cardinality(Crawling)
    BY <1>1, FS_EmptySet DEF Init
  <1> QED BY <1>1, <1>2, InitLock DEF PageInv

\* A step that opens and ends no page, and leaves no rotation waiting
\* without the channel it waits for.
LEMMA MoveKeepsPages ==
  ASSUME PageInv, LockInv', NEW t \in Tasks, NEW to, pc' = [pc EXCEPT ![t] = to],
         pc[t] \notin {"crawl", "signal"}, to \notin {"crawl", "wait"},
         activePages' = activePages,
         channel' = channel \/ \A u \in Tasks : pc[u] /= "wait"
  PROVE  PageInv'
  <1>1. Crawling' = Crawling
    BY DEF Crawling, PageInv, LockInv
  <1>2. ASSUME NEW u \in Tasks, pc'[u] = "wait", activePages' = 0
        PROVE  channel' = "closed" \/ \E v \in Tasks : pc'[v] = "signal"
    <2>1. pc[u] = "wait" /\ channel' = channel
      BY <1>2 DEF PageInv, LockInv
    <2>2. channel = "closed" \/ \E v \in Tasks : pc[v] = "signal"
      BY <1>2, <2>1 DEF PageInv, DrainIsSignalled
    <2> QED BY <2>1, <2>2 DEF PageInv, LockInv
  <1> QED BY <1>1, <1>2 DEF PageInv, DrainIsSignalled

\* Nobody moves.
LEMMA RestKeepsPages ==
  ASSUME PageInv, LockInv', pc' = pc, activePages' = activePages, channel' = channel
  PROVE  PageInv'
  BY DEF PageInv, DrainIsSignalled, Crawling

\* waitForDrain: the rotation waits only if there is a page to wait for.
LEMMA WaitKeepsPages ==
  ASSUME PageInv, LockInv', NEW t \in Tasks, WaitForDrain(t)
  PROVE  PageInv'
  <1>1. pc[t] = "drain" /\ activePages' = activePages /\ channel' = channel
    BY DEF WaitForDrain, drainVars
  <1>2. CASE activePages =< 0
    <2>1. pc' = [pc EXCEPT ![t] = "swap"]
      BY <1>2 DEF WaitForDrain, Goto
    <2> QED BY <1>1, <2>1, MoveKeepsPages, Zenon
  <1>3. CASE ~(activePages =< 0)
    <2>1. pc' = [pc EXCEPT ![t] = "wait"]
      BY <1>3 DEF WaitForDrain, Goto
    <2>2. Crawling' = Crawling
      BY <1>1, <2>1 DEF Crawling, PageInv, LockInv
    <2>3. activePages /= 0
      BY <1>3
    <2> QED BY <1>1, <2>2, <2>3 DEF PageInv, DrainIsSignalled
  <1> QED BY <1>2, <1>3

\* trackPageStart counts a page.
LEMMA CountKeepsPages ==
  ASSUME PageInv, LockInv', NEW t \in Tasks, CountPage(t)
  PROVE  PageInv'
  <1>1. t \notin Crawling /\ Crawling' = Crawling \cup {t}
    BY DEF CountPage, Goto, Crawling, PageInv, LockInv
  <1>2. Cardinality(Crawling \cup {t}) = Cardinality(Crawling) + 1
    BY <1>1, CrawlingFinite, FS_AddElement
  <1>3. activePages' = activePages + 1 /\ activePages = Cardinality(Crawling)
    BY DEF CountPage, PageInv
  <1>4. activePages' = Cardinality(Crawling')
    BY <1>1, <1>2, <1>3
  <1>5. activePages' /= 0
    BY <1>3, CrawlingFinite
  <1> QED BY <1>4, <1>5 DEF PageInv, DrainIsSignalled

\* trackPageEnd: the last page of a drain goes on to close the channel.
LEMMA EndKeepsPages ==
  ASSUME PageInv, LockInv', NEW t \in Tasks, TrackPageEnd(t)
  PROVE  PageInv'
  <1>1. \E to \in {"signal", "judge"} : pc' = [pc EXCEPT ![t] = to]
    BY Zenon DEF TrackPageEnd, Goto
  <1>2. t \in Crawling /\ Crawling' = Crawling \ {t}
    BY <1>1 DEF TrackPageEnd, Crawling, PageInv, LockInv
  <1>3. Cardinality(Crawling \ {t}) = Cardinality(Crawling) - 1
    BY <1>2, CrawlingFinite, FS_RemoveElement
  <1>4. activePages' = activePages - 1 /\ activePages = Cardinality(Crawling)
    BY DEF TrackPageEnd, PageInv
  <1>5. activePages' = Cardinality(Crawling')
    BY <1>2, <1>3, <1>4
  <1>6. ASSUME NEW u \in Tasks, pc'[u] = "wait", activePages' = 0 PROVE pc'[t] = "signal"
    <2>1. pc[u] = "wait"
      BY <1>1, <1>6 DEF PageInv, LockInv
    <2>2. draining = TRUE
      BY <2>1 DEF PageInv, LockInv, Rotating
    <2>3. activePages - 1 =< 0
      BY <1>4, <1>6
    <2> QED BY <2>2, <2>3 DEF TrackPageEnd, Goto, PageInv, LockInv
  <1> QED BY <1>5, <1>6 DEF PageInv, DrainIsSignalled

\* The channel is closed, if there still is one.
LEMMA CloseKeepsPages ==
  ASSUME PageInv, LockInv', NEW t \in Tasks, CloseChannel(t)
  PROVE  PageInv'
  <1>1. pc[t] = "signal" /\ pc' = [pc EXCEPT ![t] = "judge"] /\ activePages' = activePages
    BY DEF CloseChannel, Goto
  <1>2. Crawling' = Crawling
    BY <1>1 DEF Crawling, PageInv, LockInv
  <1>3. ASSUME NEW u \in Tasks, pc'[u] = "wait" PROVE channel' = "closed"
    <2>1. pc[u] = "wait"
      BY <1>1, <1>3 DEF PageInv, LockInv
    <2>2. channel \in {"open", "closed"}
      BY <2>1 DEF PageInv, LockInv, Rotating
    <2> QED BY <2>2 DEF CloseChannel
  <1> QED BY <1>1, <1>2, <1>3 DEF PageInv, DrainIsSignalled

\* No step loses the count or the wake-up.
LEMMA NextPages == PageInv /\ [Next]_vars => PageInv'
  <1> SUFFICES ASSUME PageInv, [Next]_vars PROVE PageInv'
    OBVIOUS
  <1>0. LockInv /\ LockInv'
    BY NextLock DEF PageInv
  <1>1. ASSUME NEW t \in Tasks,
               ReadCache(t) \/ AskRedis(t) \/ RedisDown(t) \/ StoreCache(t) \/ Compare(t)
        PROVE  PageInv'
    <2>1. activePages' = activePages /\ channel' = channel /\ pc[t] \in {"idle", "exists", "store", "compare"}
      BY <1>1 DEF ReadCache, AskRedis, RedisDown, StoreCache, Compare, drainVars
    <2>2. \E to \in {"exists", "store", "compare", "check", "lock"} : pc' = [pc EXCEPT ![t] = to]
      BY <1>1 DEF ReadCache, AskRedis, RedisDown, StoreCache, Compare, Ensured, Goto
    <2> QED BY <1>0, <2>1, <2>2, MoveKeepsPages, Zenon
  <1>2. ASSUME NEW t \in Tasks, LockAndDrain(t) PROVE PageInv'
    <2>1. activePages' = activePages /\ pc[t] = "lock" /\ \A u \in Tasks : pc[u] /= "wait"
      BY <1>0, <1>2, BrowserAssumption DEF BrowserAssumption, LockAndDrain, LockInv, Rotating
    <2>2. \E to \in {"check", "drain"} : pc' = [pc EXCEPT ![t] = to]
      BY <1>2 DEF LockAndDrain, Ensured, Goto
    <2> QED BY <1>0, <2>1, <2>2, MoveKeepsPages, Zenon
  <1>3. ASSUME NEW t \in Tasks, Drained(t) \/ DrainTimeout(t) PROVE PageInv'
    <2>1. activePages' = activePages /\ channel' = channel /\ pc[t] = "wait"
      BY <1>3 DEF Drained, DrainTimeout, drainVars
    <2>2. \E to \in {"swap"} : pc' = [pc EXCEPT ![t] = to]
      BY <1>3 DEF Drained, DrainTimeout, Goto
    <2> QED BY <1>0, <2>1, <2>2, MoveKeepsPages, Zenon
  <1>4. ASSUME NEW t \in Tasks, Rotate(t) \/ RotateFails(t) PROVE PageInv'
    <2>1. activePages' = activePages /\ pc[t] = "swap"
      BY <1>4 DEF Rotate, RotateFails
    <2>2. \A u \in Tasks : pc[u] /= "wait"
      BY <1>0, <2>1 DEF LockInv, Rotating
    <2>3. \E to \in {"check", "idle"} : pc' = [pc EXCEPT ![t] = to]
      BY <1>4 DEF Rotate, RotateFails, Return, Ensured, Goto
    <2> QED BY <1>0, <2>1, <2>2, <2>3, MoveKeepsPages, Zenon
  <1>5. ASSUME NEW t \in Tasks, CheckDraining(t) \/ Capture(t) \/ Finish(t) \/ SetCooldown(t) \/ CacheCooldown(t)
        PROVE  PageInv'
    <2>1. activePages' = activePages /\ channel' = channel /\ pc[t] \in {"check", "capture", "judge", "cooled"}
      BY <1>5 DEF CheckDraining, Capture, Finish, SetCooldown, CacheCooldown, drainVars
    <2>2. \E to \in {"idle", "capture", "count", "cooled"} : pc' = [pc EXCEPT ![t] = to]
      BY <1>5 DEF CheckDraining, Capture, Finish, SetCooldown, CacheCooldown, Return, Goto
    <2> QED BY <1>0, <2>1, <2>2, MoveKeepsPages, Zenon
  <1>6. ASSUME NEW t \in Tasks, WaitForDrain(t) \/ CountPage(t) \/ TrackPageEnd(t) \/ CloseChannel(t)
        PROVE  PageInv'
    BY <1>0, <1>6, WaitKeepsPages, CountKeepsPages, EndKeepsPages, CloseKeepsPages
  <1>7. CASE HealthStep \/ RestartFails \/ CloseOld \/ Crash
    <2>1. pc' = pc /\ activePages' = activePages /\ channel' = channel
      BY <1>7 DEF HealthStep, HealthCapture, HealthTest, RestartClose, RestartLaunch, RestartFails,
                  CloseOld, Crash, taskVars, drainVars
    <2> QED BY <1>0, <2>1, RestKeepsPages
  <1>8. CASE CooldownChanges \/ CacheExpires \/ UNCHANGED vars
    <2>1. pc' = pc /\ activePages' = activePages /\ channel' = channel
      BY <1>8 DEF CooldownChanges, CacheExpires, taskVars, drainVars, vars
    <2> QED BY <1>0, <2>1, RestKeepsPages
  <1> QED BY <1>1, <1>2, <1>3, <1>4, <1>5, <1>6, <1>7, <1>8 DEF Next, TaskStep

\* trackPageEnd and waitForDrain: no interleaving of pages that start and
\* end with a rotation that begins to wait loses the close of drainComplete.
THEOREM NoLostWakeUp == Spec => []DrainIsSignalled
  <1>1. PageInv => DrainIsSignalled
    BY DEF PageInv
  <1> QED BY <1>1, InitPages, NextPages, PTL DEF Spec
-----------------------------------------------------------------------------
Holdings == {"none", "current", "replaced", "closed"}

\* The tasks that crawl with an instance that was taken out of use are
\* excused; and once a rotation may take the instance in use, because the
\* channel is closed or the wait is over, so are those that crawl with it.
ExcuseInv ==
  /\ PageInv
  /\ held \in [Tasks -> Holdings]
  /\ \A u \in Tasks : (pc[u] = "crawl" /\ held[u] \in {"replaced", "closed"}) => u \in excused
  /\ (channel = "closed" \/ \E t \in Tasks : pc[t] = "swap") =>
       \A u \in Tasks : (pc[u] = "crawl" /\ held[u] = "current") => u \in excused

\* Nobody has captured an instance at the start.
LEMMA InitExcuse == Init => ExcuseInv
  BY InitPages DEF Init, ExcuseInv, Holdings

\* A step of one task that neither counts its page nor takes the instance.
LEMMA MoveKeepsExcuse ==
  ASSUME ExcuseInv, PageInv', NEW t \in Tasks, NEW to \in Spots \ {"crawl", "swap"},
         pc' = [pc EXCEPT ![t] = to],
         held' = held \/ \E h \in Holdings : held' = [held EXCEPT ![t] = h],
         \A u \in excused : u = t \/ u \in excused',
         channel' = "closed" => channel = "closed"
  PROVE  ExcuseInv'
  <1>1. held' \in [Tasks -> Holdings]
    BY DEF ExcuseInv
  <1>2. \A u \in Tasks : pc'[u] = "crawl" => pc[u] = "crawl" /\ u /= t /\ held'[u] = held[u]
    BY DEF ExcuseInv, PageInv, LockInv
  <1>3. \A u \in Tasks : pc'[u] = "swap" => pc[u] = "swap"
    BY DEF ExcuseInv, PageInv, LockInv
  <1>4. \A u \in Tasks : (pc'[u] = "crawl" /\ held'[u] \in {"replaced", "closed"}) => u \in excused'
    BY <1>2 DEF ExcuseInv
  <1>5. (channel' = "closed" \/ \E v \in Tasks : pc'[v] = "swap") =>
          \A u \in Tasks : (pc'[u] = "crawl" /\ held'[u] = "current") => u \in excused'
    BY <1>2, <1>3 DEF ExcuseInv
  <1> QED BY <1>1, <1>4, <1>5 DEF ExcuseInv

\* Nobody moves; more tasks may be excused.
LEMMA RestKeepsExcuse ==
  ASSUME ExcuseInv, PageInv', pc' = pc, held' = held, channel' = channel, excused \subseteq excused'
  PROVE  ExcuseInv'
  BY DEF ExcuseInv

\* The rotation goes on to take the instance.
LEMMA SwapKeepsExcuse ==
  ASSUME ExcuseInv, PageInv', NEW t \in Tasks, WaitForDrain(t) \/ Drained(t) \/ DrainTimeout(t),
         pc' = [pc EXCEPT ![t] = "swap"]
  PROVE  ExcuseInv'
  <1>1. held' = held /\ excused \subseteq excused' /\ pc[t] \in {"drain", "wait"}
    BY DEF WaitForDrain, Drained, DrainTimeout
  <1>2. \A u \in Tasks : pc'[u] = "crawl" => pc[u] = "crawl"
    BY DEF ExcuseInv, PageInv, LockInv
  <1>3. \A u \in Tasks : (pc[u] = "crawl" /\ held[u] = "current") => u \in excused'
    <2>1. CASE WaitForDrain(t)
      <3>1. activePages =< 0
        <4>1. pc'[t] = "swap" /\ pc'[t] = IF activePages =< 0 THEN "swap" ELSE "wait"
          BY <2>1 DEF WaitForDrain, Goto, ExcuseInv, PageInv, LockInv
        <4> QED BY <4>1
      <3>2. Cardinality(Crawling) = 0
        BY <3>1, CrawlingFinite DEF ExcuseInv, PageInv
      <3>3. Crawling = {}
        BY <3>2, CrawlingFinite, FS_EmptySet
      <3> QED BY <3>3 DEF Crawling
    <2>2. CASE Drained(t)
      BY <1>1, <2>2 DEF Drained, ExcuseInv
    <2>3. CASE DrainTimeout(t)
      BY <2>3 DEF DrainTimeout, Holders
    <2> QED BY <2>1, <2>2, <2>3
  <1> QED BY <1>1, <1>2, <1>3 DEF ExcuseInv

\* rotateBrowser: what the crawls hold is not in use any more.
LEMMA RotateKeepsExcuse ==
  ASSUME ExcuseInv, PageInv', NEW t \in Tasks, Rotate(t)
  PROVE  ExcuseInv'
  <1>1. pc[t] = "swap" /\ pc' = [pc EXCEPT ![t] = "check"] /\ excused' = excused
    BY DEF Rotate, Ensured, Goto
  <1>2. \A u \in Tasks : pc'[u] = "crawl" => pc[u] = "crawl"
    BY <1>1 DEF ExcuseInv, PageInv, LockInv
  <1>3. \E to \in {"closed", "replaced"} : held' = [u \in Tasks |-> IF held[u] = "current" THEN to ELSE held[u]]
    BY DEF Rotate, Moved
  <1>4. held' \in [Tasks -> Holdings] /\ \A u \in Tasks : held'[u] /= "current"
    BY <1>3 DEF ExcuseInv, Holdings
  <1>5. \A u \in Tasks : pc[u] = "crawl" /\ held[u] = "current" => u \in excused
    BY <1>1 DEF ExcuseInv
  <1>6. \A u \in Tasks : held'[u] /= "none" => held[u] /= "none"
    BY <1>3
  <1>7. \A u \in Tasks : (pc[u] = "crawl" /\ held[u] /= "none") => u \in excused
    BY <1>5 DEF ExcuseInv, Holdings
  <1> QED BY <1>1, <1>2, <1>4, <1>6, <1>7 DEF ExcuseInv

\* trackPageStart: a page that is counted too late is excused.
LEMMA CountKeepsExcuse ==
  ASSUME ExcuseInv, PageInv', NEW t \in Tasks, CountPage(t)
  PROVE  ExcuseInv'
  <1>1. pc' = [pc EXCEPT ![t] = "crawl"] /\ held' = held /\ channel' = channel /\ excused \subseteq excused'
        /\ (draining = TRUE \/ held[t] /= "current" => t \in excused')
    BY DEF CountPage, Goto
  <1>2. \A u \in Tasks : pc'[u] = "crawl" => pc[u] = "crawl" \/ u = t
    BY <1>1 DEF ExcuseInv, PageInv, LockInv
  <1>3. \A u \in Tasks : pc'[u] = "swap" => pc[u] = "swap"
    BY <1>1 DEF ExcuseInv, PageInv, LockInv
  <1>4. (channel = "closed" \/ \E v \in Tasks : pc[v] = "swap") => draining = TRUE
    BY DEF ExcuseInv, PageInv, LockInv, Rotating
  <1>5. \A u \in Tasks : (pc'[u] = "crawl" /\ held'[u] \in {"replaced", "closed"}) => u \in excused'
    BY <1>1, <1>2 DEF ExcuseInv
  <1>6. (channel' = "closed" \/ \E v \in Tasks : pc'[v] = "swap") =>
          \A u \in Tasks : (pc'[u] = "crawl" /\ held'[u] = "current") => u \in excused'
    BY <1>1, <1>2, <1>3, <1>4 DEF ExcuseInv
  <1> QED BY <1>1, <1>5, <1>6 DEF ExcuseInv

\* The channel is closed with pages counted since: they are excused.
LEMMA CloseKeepsExcuse ==
  ASSUME ExcuseInv, PageInv', NEW t \in Tasks, CloseChannel(t)
  PROVE  ExcuseInv'
  <1>1. pc[t] = "signal" /\ pc' = [pc EXCEPT ![t] = "judge"] /\ held' = held /\ excused \subseteq excused'
    BY DEF CloseChannel, Goto
  <1>2. \A u \in Tasks : /\ pc'[u] = "crawl" => pc[u] = "crawl"
                         /\ pc'[u] = "swap" => pc[u] = "swap"
    BY <1>1 DEF ExcuseInv, PageInv, LockInv
  <1>3. CASE channel = "open"
    <2>1. CASE activePages > 0
      <3>1. \A u \in Tasks : held[u] = "current" => u \in excused'
        BY <1>3, <2>1 DEF CloseChannel, Holders
      <3> QED BY <1>1, <1>2, <3>1 DEF ExcuseInv
    <2>2. CASE ~(activePages > 0)
      <3>1. Cardinality(Crawling) = 0
        BY <2>2, CrawlingFinite DEF ExcuseInv, PageInv
      <3>2. \A u \in Tasks : pc[u] /= "crawl"
        BY <3>1, CrawlingFinite, FS_EmptySet DEF Crawling
      <3> QED BY <1>1, <1>2, <3>2 DEF ExcuseInv
    <2> QED BY <2>1, <2>2
  <1>4. CASE channel /= "open"
    <2>1. channel' = channel
      BY <1>4 DEF CloseChannel
    <2> QED BY <1>1, <1>2, <2>1 DEF ExcuseInv
  <1> QED BY <1>3, <1>4

\* restartBrowserInstance closes the instance in use, the goroutine of
\* rotateBrowser the one that was replaced.
LEMMA CloseInstanceKeepsExcuse ==
  ASSUME ExcuseInv, PageInv', RestartClose \/ CloseOld
  PROVE  ExcuseInv'
  <1>1. pc' = pc /\ channel' = channel /\ excused \subseteq excused'
    BY DEF RestartClose, CloseOld, drainVars
  <1>2. CASE RestartClose
    <2>1. held' = [u \in Tasks |-> IF held[u] = "current" THEN "closed" ELSE held[u]]
      BY <1>2 DEF RestartClose, Moved
    <2>2. \A u \in Tasks : held[u] = "current" => u \in excused'
      BY <1>2 DEF RestartClose, Holders
    <2>3. held' \in [Tasks -> Holdings] /\ \A u \in Tasks : held'[u] /= "current"
      BY <2>1 DEF ExcuseInv, Holdings
    <2>4. \A u \in Tasks : held'[u] \in {"replaced", "closed"} =>
                             held[u] = "current" \/ held[u] \in {"replaced", "closed"}
      BY <2>1
    <2> QED BY <1>1, <2>2, <2>3, <2>4 DEF ExcuseInv
  <1>3. CASE CloseOld
    <2>1. held' = [u \in Tasks |-> IF held[u] = "replaced" THEN "closed" ELSE held[u]]
      BY <1>3 DEF CloseOld, Moved
    <2>2. held' \in [Tasks -> Holdings]
      BY <2>1 DEF ExcuseInv, Holdings
    <2>3. \A u \in Tasks : /\ held'[u] \in {"replaced", "closed"} => held[u] \in {"replaced", "closed"}
                           /\ held'[u] = "current" => held[u] = "current"
      BY <2>1
    <2> QED BY <1>1, <2>2, <2>3 DEF ExcuseInv
  <1> QED BY <1>2, <1>3

\* Every step keeps to it.
LEMMA NextExcuse == ExcuseInv /\ [Next]_vars => ExcuseInv'
  <1> SUFFICES ASSUME ExcuseInv, [Next]_vars PROVE ExcuseInv'
    OBVIOUS
  <1>0. PageInv'
    BY NextPages DEF ExcuseInv
  <1>1. ASSUME NEW t \in Tasks,
               ReadCache(t) \/ AskRedis(t) \/ RedisDown(t) \/ StoreCache(t) \/ Compare(t)
        PROVE  ExcuseInv'
    <2>1. held' = held /\ excused' = excused /\ channel' = channel
      BY <1>1 DEF ReadCache, AskRedis, RedisDown, StoreCache, Compare, drainVars
    <2>2. \E to \in {"exists", "store", "compare", "check", "lock"} : pc' = [pc EXCEPT ![t] = to]
      BY <1>1 DEF ReadCache, AskRedis, RedisDown, StoreCache, Compare, Ensured, Goto
    <2> QED BY <1>0, <2>1, <2>2, MoveKeepsExcuse, Zenon DEF Spots
  <1>2. ASSUME NEW t \in Tasks, LockAndDrain(t) PROVE ExcuseInv'
    <2>1. held' = held /\ excused' = excused /\ (channel' = channel \/ channel' = "open")
      BY <1>2 DEF LockAndDrain
    <2>2. \E to \in {"check", "drain"} : pc' = [pc EXCEPT ![t] = to]
      BY <1>2 DEF LockAndDrain, Ensured, Goto
    <2> QED BY <1>0, <2>1, <2>2, MoveKeepsExcuse, Zenon DEF Spots, Rotating
  <1>3. ASSUME NEW t \in Tasks, WaitForDrain(t) \/ Drained(t) \/ DrainTimeout(t) PROVE ExcuseInv'
    <2>1. CASE pc' = [pc EXCEPT ![t] = "swap"]
      BY <1>0, <1>3, <2>1, SwapKeepsExcuse, Zenon
    <2>2. CASE pc' /= [pc EXCEPT ![t] = "swap"]
      <3>1. WaitForDrain(t) /\ pc' = [pc EXCEPT ![t] = "wait"]
        BY <1>3, <2>2 DEF WaitForDrain, Drained, DrainTimeout, Goto
      <3>2. held' = held /\ excused' = excused /\ channel' = channel
        BY <3>1 DEF WaitForDrain, drainVars
      <3>3. "wait" \in Spots \ {"crawl", "swap"}
        BY DEF Spots, Rotating
      <3> QED BY <1>0, <3>1, <3>2, <3>3, MoveKeepsExcuse, Zenon
    <2> QED BY <2>1, <2>2
  <1>4. ASSUME NEW t \in Tasks, RotateFails(t) \/ CheckDraining(t) \/ Finish(t) PROVE ExcuseInv'
    <2>1. /\ held' = held \/ held' = [held EXCEPT ![t] = "none"]
          /\ excused' = excused \/ excused' = excused \ {t}
          /\ channel' = channel \/ channel' = "nil"
      BY <1>4 DEF RotateFails, CheckDraining, Finish, Return, drainVars
    <2>2. \E to \in {"idle", "capture"} : pc' = [pc EXCEPT ![t] = to]
      BY <1>4 DEF RotateFails, CheckDraining, Finish, Return, Goto
    <2>3. held' = held \/ \E h \in Holdings : held' = [held EXCEPT ![t] = h]
      BY <2>1 DEF Holdings
    <2>4. \A u \in excused : u = t \/ u \in excused'
      BY <2>1
    <2> QED BY <1>0, <2>1, <2>2, <2>3, <2>4, MoveKeepsExcuse, Zenon DEF Spots
  <1>5. ASSUME NEW t \in Tasks, Capture(t) \/ TrackPageEnd(t) PROVE ExcuseInv'
    <2>1. \E h \in {"none", "current"} : held' = [held EXCEPT ![t] = h]
      BY <1>5 DEF Capture, TrackPageEnd, Return
    <2>2. \A u \in excused : u = t \/ u \in excused'
      BY <1>5 DEF Capture, TrackPageEnd, Return
    <2>3. channel' = channel /\ \E to \in {"idle", "count", "signal", "judge"} : pc' = [pc EXCEPT ![t] = to]
      BY <1>5 DEF Capture, TrackPageEnd, Return, Goto, drainVars
    <2>4. \E h \in Holdings : held' = [held EXCEPT ![t] = h]
      BY <2>1, Zenon DEF Holdings
    <2> QED BY <1>0, <2>2, <2>3, <2>4, MoveKeepsExcuse, Zenon DEF Spots
  <1>6. ASSUME NEW t \in Tasks, SetCooldown(t) \/ CacheCooldown(t) PROVE ExcuseInv'
    <2>1. held' = held /\ excused' = excused /\ channel' = channel
      BY <1>6 DEF SetCooldown, CacheCooldown, drainVars
    <2>2. \E to \in {"cooled", "idle"} : pc' = [pc EXCEPT ![t] = to]
      BY <1>6 DEF SetCooldown, CacheCooldown, Goto
    <2> QED BY <1>0, <2>1, <2>2, MoveKeepsExcuse, Zenon DEF Spots
  <1>7. ASSUME NEW t \in Tasks, Rotate(t) \/ CountPage(t) \/ CloseChannel(t) PROVE ExcuseInv'
    BY <1>0, <1>7, RotateKeepsExcuse, CountKeepsExcuse, CloseKeepsExcuse
  <1>8. CASE RestartClose \/ CloseOld
    BY <1>0, <1>8, CloseInstanceKeepsExcuse
  <1>9. CASE HealthCapture \/ HealthTest \/ RestartLaunch \/ RestartFails \/ Crash
    <2>1. pc' = pc /\ held' = held /\ channel' = channel /\ excused \subseteq excused'
      BY <1>9 DEF HealthCapture, HealthTest, RestartLaunch, RestartFails, Crash, taskVars, drainVars
    <2> QED BY <1>0, <2>1, RestKeepsExcuse
  <1>10. CASE CooldownChanges \/ CacheExpires \/ UNCHANGED vars
    <2>1. pc' = pc /\ held' = held /\ channel' = channel /\ excused \subseteq excused'
      BY <1>10 DEF CooldownChanges, CacheExpires, taskVars, drainVars, vars
    <2> QED BY <1>0, <2>1, RestKeepsExcuse
  <1> QED BY <1>1, <1>2, <1>3, <1>4, <1>5, <1>6, <1>7, <1>8, <1>9, <1>10
          DEF Next, TaskStep, HealthStep

\* Draining protects every task it can know of: for any number of tasks, a
\* crawl loses its instance only by force or because it was counted late.
THEOREM DrainProtects == Spec => []NoUseAfterClose
  <1>1. ExcuseInv => NoUseAfterClose
    BY DEF ExcuseInv, NoUseAfterClose
  <1> QED BY <1>1, InitExcuse, NextExcuse, PTL DEF Spec
-----------------------------------------------------------------------------
\* Where the instance and the health check may be.
PlaceInv ==
  /\ browser \in {"up", "dead", "nil"} /\ closing \in BOOLEAN
  /\ hpc \in {"idle", "test", "restart", "launch"}

\* Tasks replace the instance, the health check and Chrome move it, and
\* nothing else touches its place.
LEMMA NextPlace == PlaceInv /\ [Next]_vars => PlaceInv'
  <1> SUFFICES ASSUME PlaceInv, [Next]_vars PROVE PlaceInv'
    OBVIOUS
  <1>1. ASSUME NEW t \in Tasks,
               TaskStep(t) \/ RedisDown(t) \/ DrainTimeout(t) \/ RotateFails(t) \/ SetCooldown(t)
        PROVE  PlaceInv'
    <2>1. CASE Rotate(t)
      BY <2>1 DEF Rotate, PlaceInv
    <2>2. CASE ~Rotate(t)
      <3>1. browser' = browser /\ closing' = closing /\ hpc' = hpc
        BY <1>1, <2>2, Zenon DEF TaskStep, ReadCache, AskRedis, StoreCache, Compare, LockAndDrain, WaitForDrain,
                          Drained, CheckDraining, Capture, CountPage, TrackPageEnd, CloseChannel, Finish,
                          CacheCooldown, RedisDown, DrainTimeout, RotateFails, SetCooldown, instVars, healthVars
      <3> QED BY <3>1 DEF PlaceInv
    <2> QED BY <2>1, <2>2
  <1>2. CASE HealthStep \/ RestartFails \/ Crash \/ CloseOld
    BY <1>2, Zenon DEF HealthStep, HealthCapture, HealthTest, RestartClose, RestartLaunch, RestartFails, Crash,
                CloseOld, PlaceInv, instVars, healthVars
  <1>3. CASE CooldownChanges \/ CacheExpires \/ UNCHANGED vars
    BY <1>3 DEF CooldownChanges, CacheExpires, PlaceInv, instVars, healthVars, vars
  <1> QED BY <1>1, <1>2, <1>3 DEF Next

\* activePages never goes below zero nor above the number of tasks, whatever
\* error path a task leaves by, and the rest of the state keeps its type.
THEOREM PagesInRange == Spec => []TypeOK
  <1>1. Init => PlaceInv
    BY Zenon DEF Init, PlaceInv
  <1>2. ExcuseInv /\ PlaceInv => TypeOK
    <2> SUFFICES ASSUME ExcuseInv, PlaceInv PROVE TypeOK
      OBVIOUS
    <2>1. Crawling \in SUBSET Tasks
      BY DEF Crawling
    <2>2. Cardinality(Crawling) =< Cardinality(Tasks) /\ Cardinality(Tasks) \in Nat
      BY <2>1, BrowserAssumption, FS_Subset, FS_CardinalityType DEF BrowserAssumption
    <2>3. activePages \in 0 .. Cardinality(Tasks)
      BY <2>2, CrawlingFinite DEF ExcuseInv, PageInv
    <2> QED BY <2>3 DEF ExcuseInv, PageInv, LockInv, PlaceInv, TypeOK, Spots, Rotating, Holdings
  <1> QED BY <1>1, <1>2, InitExcuse, NextExcuse, NextPlace, PTL DEF Spec
=============================================================================
