------------------------------- MODULE CrawlTask -------------------------------
(***************************************************************************)
(* One task inside a crawler node (internal/crawler/crawl.go,              *)
(* fixed_pages.go, page_fetch.go, adaptive.go, internal/pkg/ratelimit).    *)
(* StartWorker gives a task a token and two goroutines: the worker, which  *)
(* waits for the result or for the end of the task's context, and doCrawl, *)
(* which may still be at work when the worker has given up.  A slot stands *)
(* for such a pair.                                                        *)
(*                                                                         *)
(* The tasks of a node share its statistics, its count of finished tasks,  *)
(* the throttle that sends one of them to sleep after too many blocked     *)
(* pages, and, through Redis, the token bucket, the count of consecutive   *)
(* failures and the proxy cooldown.  A command Redis does not answer is    *)
(* logged and forgotten.  How the browser follows the cooldown, through a  *)
(* cache that may lag behind it, is module Browser; here                   *)
(* ensureBrowserState ends in either mode, or fails.  What a page shows is *)
(* up to the site: every outcome is possible.                              *)
(*                                                                         *)
(* The counters blocks, redisBlocks and failures are only compared with    *)
(* their thresholds and stop there.  The bucket holds Cost units per       *)
(* request, one unit flows in per Tick, and age is the time since ts; a    *)
(* bucket whose key has expired is a full one.                             *)
(***************************************************************************)
EXTENDS Integers, FiniteSets

CONSTANTS
  Slots,             \* pairs of goroutines at a time, late ones included
  MaxConcurrency,    \* tokens
  PagesOnSale, PagesSold,
  BlockThreshold,    \* blockThresholdForSleep
  FailureThreshold,  \* proxyFailureThreshold
  AutoSwitch,        \* proxyAutoSwitch
  ForceOnce,         \* FORCE_PROXY_ONCE
  Burst, Cost,
  MaxTasks,          \* tasks after which a node restarts
  MaxProcessed       \* bound: tasks started between two restarts

ASSUME CrawlAssumption ==
  /\ PagesOnSale \in Nat \ {0} /\ PagesSold \in Nat \ {0}
  /\ BlockThreshold \in Nat \ {0} /\ FailureThreshold \in Nat \ {0}
  /\ IsFiniteSet(Slots) /\ MaxConcurrency \in Nat \ {0}
  /\ Burst \in Nat \ {0} /\ Cost \in Nat \ {0} /\ MaxTasks \in Nat \ {0}
  /\ AutoSwitch \in BOOLEAN /\ ForceOnce \in BOOLEAN /\ MaxProcessed \in Nat

VARIABLES
  worker,                    \* per slot: "free", or "waiting" with a token
  pc, attempt, page,         \* per slot: doCrawl
  expired,                   \* per slot: the task's context is over
  stats,                     \* TotalProcessed, TotalSucceeded, TotalFailed
  counter, restart,          \* taskCounter, restartCh
  forceOnce,                 \* forceProxyOnce
  proxy,                     \* isUsingProxy
  cooldown, failures,        \* Redis
  blocks, inCooldown,        \* AdaptiveThrottler
  redisBlocks,               \* and its count in Redis
  level, age,                \* the bucket
  lead                       \* units granted ahead of the inflow (history)

slotVars == <<worker, pc, attempt, page, expired>>
nodeVars == <<stats, counter, restart>>
proxyVars == <<forceOnce, proxy, cooldown, failures>>
blockVars == <<blocks, inCooldown, redisBlocks>>
limitVars == <<level, age, lead>>
vars == <<slotVars, nodeVars, proxyVars, blockVars, limitVars>>

Capacity == Burst * Cost
LastPage == PagesOnSale + PagesSold
Least(m, n) == IF m < n THEN m ELSE n
NoStats == [processed |-> 0, succeeded |-> 0, failed |-> 0]

Init ==
  /\ worker = [c \in Slots |-> "free"] /\ pc = [c \in Slots |-> "idle"]
  /\ attempt = [c \in Slots |-> 0] /\ page = [c \in Slots |-> 0]
  /\ expired = [c \in Slots |-> FALSE]
  /\ stats = NoStats /\ counter = 0 /\ restart = FALSE
  /\ forceOnce = ForceOnce /\ proxy = FALSE /\ cooldown = FALSE /\ failures = 0
  /\ blocks = 0 /\ inCooldown = FALSE /\ redisBlocks = 0
  /\ level = Capacity /\ age = 0 /\ lead = 0

Goto(c, to) == pc' = [pc EXCEPT ![c] = to]
Return(c) ==
  /\ Goto(c, "returned")
  /\ page' = [page EXCEPT ![c] = 0] /\ attempt' = [attempt EXCEPT ![c] = 0]

\* Retried attempts leave the statistics alone.
Count(c, field) == stats' = IF attempt[c] = 0 THEN [stats EXCEPT ![field] = @ + 1] ELSE stats
-----------------------------------------------------------------------------
\* StartWorker: a token, PopTask, the two goroutines; doCrawl counts the task.
StartTask(c) ==
  /\ Cardinality({d \in Slots : worker[d] = "waiting"}) < MaxConcurrency
  /\ worker[c] = "free" /\ pc[c] = "idle" /\ stats.processed < MaxProcessed
  /\ worker' = [worker EXCEPT ![c] = "waiting"]
  /\ Goto(c, "ensure")
  /\ expired' = [expired EXCEPT ![c] = FALSE]
  /\ stats' = [stats EXCEPT !.processed = @ + 1]
  /\ UNCHANGED <<attempt, page, counter, restart, proxyVars, blockVars, limitVars>>

\* taskTimeout.
Expire(c) ==
  /\ worker[c] = "waiting" /\ ~expired[c]
  /\ expired' = [expired EXCEPT ![c] = TRUE]
  /\ UNCHANGED <<worker, pc, attempt, page, nodeVars, proxyVars, blockVars, limitVars>>

\* The worker takes the result, pushes it, acks the task and frees its token.
WorkerResult(c) ==
  /\ worker[c] = "waiting" /\ pc[c] = "returned"
  /\ worker' = [worker EXCEPT ![c] = "free"]
  /\ Goto(c, "idle")
  /\ UNCHANGED <<attempt, page, expired, nodeVars, proxyVars, blockVars, limitVars>>

\* Mutant: the worker counts the failure as well.
WorkerTimeout_Counts(c) ==
  /\ worker[c] = "waiting" /\ expired[c]
  /\ worker' = [worker EXCEPT ![c] = "free"]
  /\ stats' = [stats EXCEPT !.failed = @ + 1]
  /\ UNCHANGED <<pc, attempt, page, expired, counter, restart, proxyVars, blockVars, limitVars>>

\* Or it sees the context end, pushes an error and frees the token without an
\* ack; the result of doCrawl, when it comes, stays in the channel.
WorkerTimeout(c) ==
  /\ worker[c] = "waiting" /\ expired[c]
  /\ worker' = [worker EXCEPT ![c] = "free"]
  /\ UNCHANGED <<pc, attempt, page, expired, nodeVars, proxyVars, blockVars, limitVars>>

LateResult(c) ==
  /\ worker[c] = "free" /\ pc[c] = "returned"
  /\ Goto(c, "idle")
  /\ UNCHANGED <<worker, attempt, page, expired, nodeVars, proxyVars, blockVars, limitVars>>
-----------------------------------------------------------------------------
\* SET of the cooldown, DEL of the failures and INCR, where Redis answers.
SetCooldown == cooldown' \in {TRUE, cooldown}
ResetFailures == failures' \in {0, failures}

\* ensureBrowserState.  FORCE_PROXY_ONCE then sets the cooldown and starts a
\* second attempt.
EnsureBrowserState(c) ==
  /\ pc[c] = "ensure"
  /\ proxy' \in BOOLEAN
  /\ IF attempt[c] = 0 /\ ~proxy' /\ forceOnce
     THEN /\ forceOnce' = FALSE /\ SetCooldown
          /\ attempt' = [attempt EXCEPT ![c] = 1]
          /\ UNCHANGED pc
     ELSE Goto(c, "limit") /\ UNCHANGED <<forceOnce, cooldown, attempt>>
  /\ UNCHANGED <<worker, page, expired, nodeVars, failures, blockVars, limitVars>>

\* The switch fails: no new instance, or the lock is not to be had.
EnsureFails(c) ==
  /\ pc[c] = "ensure"
  /\ Count(c, "failed")
  /\ Return(c)
  /\ UNCHANGED <<worker, expired, counter, restart, proxyVars, blockVars, limitVars>>
-----------------------------------------------------------------------------
\* What the script finds in the bucket.
Refilled == Least(Capacity, level + age)

\* Mutant: ts stays where it is when the bucket is refilled.
Allow_KeepsTs(c) ==
  /\ pc[c] = "limit" /\ ~expired[c]
  /\ IF Refilled < Cost
     THEN Goto(c, "denied") /\ level' = Refilled /\ UNCHANGED lead
     ELSE Goto(c, "jitter") /\ level' = Refilled - Cost /\ lead' = lead + Cost
  /\ UNCHANGED <<age, worker, attempt, page, expired, nodeVars, proxyVars, blockVars>>

\* RateLimiter.Allow: the token bucket script.
Allow(c) ==
  /\ pc[c] = "limit" /\ ~expired[c]
  /\ IF Refilled < Cost
     THEN Goto(c, "denied") /\ level' = Refilled /\ UNCHANGED lead
     ELSE Goto(c, "jitter") /\ level' = Refilled - Cost /\ lead' = lead + Cost
  /\ age' = 0
  /\ UNCHANGED <<worker, attempt, page, expired, nodeVars, proxyVars, blockVars>>

\* Redis does not answer, or the context is over: the request is allowed.
AllowFails(c) ==
  /\ pc[c] = "limit"
  /\ Goto(c, "jitter")
  /\ UNCHANGED <<worker, attempt, page, expired, nodeVars, proxyVars, blockVars, limitVars>>

\* Denied: 50 ms later the bucket is asked again, ...
AskAgain(c) ==
  /\ pc[c] = "denied"
  /\ Goto(c, "limit")
  /\ UNCHANGED <<worker, attempt, page, expired, nodeVars, proxyVars, blockVars, limitVars>>

\* ... after rateLimitMaxWait the request is allowed all the same, ...
MaxWaitOver(c) ==
  /\ pc[c] = "denied"
  /\ Goto(c, "jitter")
  /\ UNCHANGED <<worker, attempt, page, expired, nodeVars, proxyVars, blockVars, limitVars>>

\* ... and when the context is over doCrawl returns, and counts nothing.
LimitExpires(c) ==
  /\ pc[c] = "denied" /\ expired[c]
  /\ Return(c)
  /\ UNCHANGED <<worker, expired, nodeVars, proxyVars, blockVars, limitVars>>

\* The context is over during the jitter, which direct mode adds.
JitterExpires(c) ==
  /\ pc[c] = "jitter" /\ ~proxy /\ expired[c]
  /\ Return(c)
  /\ UNCHANGED <<worker, expired, nodeVars, proxyVars, blockVars, limitVars>>
-----------------------------------------------------------------------------
\* taskCounter, and the signal to restart (a channel of capacity one).
CountTask(c) ==
  /\ counter' = IF attempt[c] = 0 THEN Least(counter + 1, MaxTasks) ELSE counter
  /\ restart' = (restart \/ (attempt[c] = 0 /\ counter + 1 >= MaxTasks))

\* incrConsecutiveFailures: the new count, or 0 if Redis does not answer.
OneMore(n) ==
  \/ failures' = Least(failures + 1, FailureThreshold) /\ n = failures'
  \/ n = 0 /\ UNCHANGED failures

\* The jitter is over: trackPageStart.
Capture(c) ==
  /\ pc[c] = "jitter"
  /\ Goto(c, "page")
  /\ UNCHANGED <<worker, attempt, page, expired, nodeVars, proxyVars, blockVars, limitVars>>

\* Mutant: every error calls for the proxy.
CaptureFails_Activates(c) ==
  /\ pc[c] = "jitter"
  /\ CountTask(c)
  /\ \E n \in 0 .. FailureThreshold :
       /\ OneMore(n)
       /\ IF AutoSwitch /\ attempt[c] = 0 /\ ~proxy /\ n = FailureThreshold
          THEN Goto(c, "probe") /\ UNCHANGED <<stats, page, attempt>>
          ELSE Count(c, "failed") /\ Return(c)
  /\ UNCHANGED <<worker, expired, forceOnce, proxy, cooldown, blockVars, limitVars>>

\* The browser is draining or nil: an error shouldActivateProxy does not know.
CaptureFails(c) ==
  /\ pc[c] = "jitter"
  /\ CountTask(c)
  /\ \E n \in 0 .. FailureThreshold : OneMore(n)
  /\ Count(c, "failed")
  /\ Return(c)
  /\ UNCHANGED <<worker, expired, forceOnce, proxy, cooldown, blockVars, limitVars>>
-----------------------------------------------------------------------------
\* crawlWithFixedPages: the next page, of either phase.
OpenPage(c) ==
  /\ pc[c] = "page" /\ page[c] < LastPage /\ ~expired[c]
  /\ Goto(c, "open")
  /\ UNCHANGED <<worker, attempt, page, expired, nodeVars, proxyVars, blockVars, limitVars>>

\* Mutant: the page number of the log is taken for the loop's.
EndOfPhase_Renumbered(c) == IF page[c] < PagesOnSale THEN PagesOnSale ELSE PagesOnSale + page[c] + 1
\* The page is closed; an empty one ends its phase.
EndOfPhase(c) == IF page[c] < PagesOnSale THEN PagesOnSale ELSE LastPage
ClosePage(c, to) ==
  /\ Goto(c, "page")
  /\ page' = [page EXCEPT ![c] = to]

\* fetchPageContent fails (no page, no stealth script, navigation, challenge,
\* no items in time): the error is logged and the crawl goes on.
PageFails(c) ==
  /\ pc[c] = "open"
  /\ ClosePage(c, page[c] + 1)
  /\ UNCHANGED <<worker, attempt, expired, nodeVars, proxyVars, blockVars, limitVars>>

\* The site says there are no items.
PageEmpty(c) ==
  /\ pc[c] = "open"
  /\ ClosePage(c, EndOfPhase(c))
  /\ UNCHANGED <<worker, attempt, expired, nodeVars, proxyVars, blockVars, limitVars>>

\* Scrolling and extracting; RecordSuccess, whose DEL of the count in Redis
\* needs a context that is not over.
PageLoaded(c) ==
  /\ pc[c] = "open"
  /\ \E to \in {page[c] + 1, EndOfPhase(c)} : ClosePage(c, to)
  /\ blocks' = 0 /\ inCooldown' = FALSE
  /\ redisBlocks' \in {redisBlocks} \cup IF blocks > 0 /\ ~expired[c] THEN {0} ELSE {}
  /\ UNCHANGED <<worker, attempt, expired, nodeVars, proxyVars, limitVars>>

\* A blocked page: handleBlockEvent and RecordBlock.  The larger of the two
\* counts decides, and one task at a time goes to sleep, its page still open.
PageBlocked(c) ==
  /\ pc[c] = "open"
  /\ blocks' = Least(blocks + 1, BlockThreshold)
  /\ \E answered \in {FALSE, ~expired[c]} :
       /\ redisBlocks' = IF answered THEN Least(redisBlocks + 1, BlockThreshold) ELSE redisBlocks
       /\ IF BlockThreshold \in {blocks'} \cup (IF answered THEN {redisBlocks'} ELSE {}) /\ ~inCooldown
          THEN Goto(c, "sleep") /\ inCooldown' = TRUE /\ UNCHANGED page
          ELSE ClosePage(c, page[c] + 1) /\ UNCHANGED inCooldown
  /\ UNCHANGED <<worker, attempt, expired, nodeVars, proxyVars, limitVars>>

\* Mutant: no ExitCooldown when the context cuts the sleep short.
WakeUp_KeepsFlag(c) ==
  /\ pc[c] = "sleep"
  /\ inCooldown' = expired[c]
  /\ ClosePage(c, page[c] + 1)
  /\ UNCHANGED <<worker, attempt, expired, nodeVars, proxyVars, blocks, redisBlocks, limitVars>>

\* The sleep is over, or the context is: ExitCooldown.
WakeUp(c) ==
  /\ pc[c] = "sleep"
  /\ inCooldown' = FALSE
  /\ ClosePage(c, page[c] + 1)
  /\ UNCHANGED <<worker, attempt, expired, nodeVars, proxyVars, blocks, redisBlocks, limitVars>>
-----------------------------------------------------------------------------
\* All pages tried: a success, whatever became of them.
Succeed(c) ==
  /\ pc[c] = "page" /\ page[c] = LastPage
  /\ CountTask(c)
  /\ ResetFailures
  /\ Count(c, "succeeded")
  /\ Return(c)
  /\ UNCHANGED <<worker, expired, forceOnce, proxy, cooldown, blockVars, limitVars>>

\* The context is over before a page: a timeout, which may call for the proxy.
CrawlExpires(c) ==
  /\ pc[c] = "page" /\ page[c] < LastPage /\ expired[c]
  /\ CountTask(c)
  /\ \E n \in 0 .. FailureThreshold :
       /\ OneMore(n)
       /\ IF AutoSwitch /\ attempt[c] = 0 /\ ~proxy /\ n = FailureThreshold
          THEN Goto(c, "probe") /\ UNCHANGED <<stats, page, attempt>>
          ELSE Count(c, "failed") /\ Return(c)
  /\ UNCHANGED <<worker, expired, forceOnce, proxy, cooldown, blockVars, limitVars>>

ProxyUnhealthy(c) ==
  /\ pc[c] = "probe"
  /\ Count(c, "failed")
  /\ Return(c)
  /\ UNCHANGED <<worker, expired, counter, restart, proxyVars, blockVars, limitVars>>

\* checkProxyHealthWithRetry says yes: the cooldown is set.
ProxyHealthy(c) ==
  /\ pc[c] = "probe"
  /\ ResetFailures /\ SetCooldown
  /\ IF expired[c]
     THEN Count(c, "failed") /\ Return(c)
     ELSE /\ Goto(c, "ensure") /\ attempt' = [attempt EXCEPT ![c] = 1]
          /\ page' = [page EXCEPT ![c] = 0]
          /\ UNCHANGED stats
  /\ UNCHANGED <<worker, expired, counter, restart, forceOnce, proxy, blockVars, limitVars>>
-----------------------------------------------------------------------------
\* The process exits with everything in it and is started again; Redis keeps
\* what it has.
Reboot ==
  /\ worker' = [c \in Slots |-> "free"] /\ pc' = [c \in Slots |-> "idle"]
  /\ attempt' = [c \in Slots |-> 0] /\ page' = [c \in Slots |-> 0]
  /\ expired' = [c \in Slots |-> FALSE]
  /\ stats' = NoStats /\ counter' = 0 /\ restart' = FALSE
  /\ forceOnce' = ForceOnce /\ proxy' = FALSE /\ blocks' = 0 /\ inCooldown' = FALSE
  /\ UNCHANGED <<cooldown, failures, redisBlocks, limitVars>>

\* main receives the signal, or a SIGTERM, or a panic in doCrawl ends it.
NodeRestart == restart /\ Reboot
Sigterm == stats.processed > 0 /\ Reboot

\* The keys in Redis expire.
CooldownOver == cooldown /\ cooldown' = FALSE /\ UNCHANGED <<slotVars, nodeVars, forceOnce, proxy, failures, blockVars, limitVars>>
FailuresExpire == failures > 0 /\ failures' = 0 /\ UNCHANGED <<slotVars, nodeVars, forceOnce, proxy, cooldown, blockVars, limitVars>>
BlocksExpire == redisBlocks > 0 /\ redisBlocks' = 0 /\ UNCHANGED <<slotVars, nodeVars, proxyVars, blocks, inCooldown, limitVars>>

Tick ==
  /\ age < Capacity \/ lead > 0
  /\ age' = Least(age + 1, Capacity)
  /\ lead' = IF lead = 0 THEN 0 ELSE lead - 1
  /\ UNCHANGED <<slotVars, nodeVars, proxyVars, blockVars, level>>

WorkerStep(c) == WorkerResult(c) \/ WorkerTimeout(c)
PageStep(c) == PageFails(c) \/ PageEmpty(c) \/ PageLoaded(c) \/ PageBlocked(c)
CrawlStep(c) ==
  \/ LateResult(c)
  \/ EnsureBrowserState(c) \/ EnsureFails(c)
  \/ Allow(c) \/ AllowFails(c) \/ AskAgain(c) \/ MaxWaitOver(c) \/ LimitExpires(c)
  \/ JitterExpires(c) \/ Capture(c) \/ CaptureFails(c)
  \/ OpenPage(c) \/ WakeUp(c) \/ Succeed(c) \/ CrawlExpires(c)
  \/ ProxyHealthy(c) \/ ProxyUnhealthy(c)

Next ==
  \/ \E c \in Slots : StartTask(c) \/ Expire(c) \/ WorkerStep(c) \/ PageStep(c) \/ CrawlStep(c)
  \/ NodeRestart \/ Sigterm \/ CooldownOver \/ FailuresExpire \/ BlocksExpire \/ Tick

Spec == Init /\ [][Next]_vars
-----------------------------------------------------------------------------
Running == {c \in Slots : pc[c] \notin {"idle", "returned"}}

\* Types of the tasks, the counters and the bucket; without a token a slot is
\* only at work for a task that has timed out.
TypeOK ==
  /\ worker \in [Slots -> {"free", "waiting"}]
  /\ pc \in [Slots -> {"idle", "ensure", "limit", "denied", "jitter", "page", "open", "sleep", "probe", "returned"}]
  /\ attempt \in [Slots -> 0 .. 1] /\ page \in [Slots -> 0 .. LastPage]
  /\ expired \in [Slots -> BOOLEAN]
  /\ stats \in [processed : 0 .. MaxProcessed, succeeded : Nat, failed : Nat]
  /\ counter \in 0 .. MaxTasks /\ restart \in BOOLEAN
  /\ forceOnce \in BOOLEAN /\ proxy \in BOOLEAN /\ cooldown \in BOOLEAN
  /\ failures \in 0 .. FailureThreshold
  /\ blocks \in 0 .. BlockThreshold /\ redisBlocks \in 0 .. BlockThreshold
  /\ level \in 0 .. Capacity /\ age \in 0 .. Capacity

\* No task is counted twice, neither by a retry nor by a doCrawl that ends
\* after its worker gave up: the tasks counted as succeeded or failed and the
\* ones still running are different tasks, all of them counted as processed.
CountedOnce ==
  stats.succeeded + stats.failed + Cardinality(Running) =< stats.processed

\* The throttle does not get stuck: while inCooldown keeps other tasks from
\* sleeping, a task sleeps whose ExitCooldown is still to come.
CooldownHasSleeper ==
  inCooldown => \E c \in Slots : pc[c] = "sleep"

\* In any stretch of time the bucket grants at most Burst requests more than
\* flow in, however the asking is interleaved with the passing of time.
\* (Requests let through after an error or rateLimitMaxWait are not granted.)
RateBounded == lead =< Capacity

\* The cooldown is set only for FORCE_PROXY_ONCE or by a task whose time was
\* up: a blocked page, or a page that failed, is no error of the crawl and
\* never brings the switch to the proxy nearer.
ProxyOnlyAfterTimeout ==
  [][(~cooldown /\ cooldown') =>
       (forceOnce /\ ~forceOnce') \/ \E c \in Slots : pc[c] = "probe" /\ expired[c]]_vars
=============================================================================
