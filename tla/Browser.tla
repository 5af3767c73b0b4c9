-------------------------------- MODULE Browser --------------------------------
(***************************************************************************)
(* The one Chrome instance a crawler node shares between its tasks         *)
(* (internal/crawler/browser.go, proxy.go): the switch between direct and  *)
(* proxy mode with its Redis key and five-second cache, the draining that  *)
(* lets running tasks finish before the instance is replaced, and the      *)
(* health check that restarts it.                                          *)
(*                                                                         *)
(* A task is a goroutine of StartWorker inside doCrawl.  mu is the writer  *)
(* lock of Service.mu; a section under RLock is one step that needs mu to  *)
(* be free.  The atomics draining and activePages and the channel          *)
(* drainComplete are read and written one step at a time.                  *)
(*                                                                         *)
(* Of an instance only its place matters.  browser says whether the one in *)
(* Service.browser answers ("up"), is dead, or is nil; who has captured an *)
(* instance holds the "current" one, one that was replaced and is about to *)
(* be closed ("replaced"), or one that is "closed".                        *)
(***************************************************************************)
EXTENDS Integers, FiniteSets

CONSTANTS
  Tasks,       \* tasks that run at the same time (MaxConcurrency)
  None,        \* nobody
  Health,      \* the health check, as an owner of the lock
  MaxEvents    \* bound: failed launches, Redis errors, crashes

ASSUME BrowserAssumption ==
  IsFiniteSet(Tasks) /\ None \notin Tasks /\ Health \notin Tasks /\ None /= Health

VARIABLES
  pc, want, held,                  \* per task
  mu,                              \* owner of Service.mu, or None
  browser, isProxy,                \* Service.browser, currentIsProxy
  closing,                         \* a replaced instance is closed 500 ms later
  draining, activePages, channel,  \* drainComplete: "nil", "open" or "closed"
  cooldown,                        \* the Redis key exists
  cache, fresh,                    \* proxyCache; now is before proxyCacheUntil
  hpc, probed,                     \* the health check
  excused,                         \* tasks draining does not protect (history)
  events

taskVars == <<pc, want, held>>
drainVars == <<draining, activePages, channel>>
instVars == <<browser, closing>>
proxyVars == <<cooldown, cache, fresh>>
healthVars == <<hpc, probed>>
vars == <<taskVars, mu, isProxy, instVars, drainVars, proxyVars, healthVars, excused, events>>

Init ==
  /\ pc = [t \in Tasks |-> "idle"]
  /\ want = [t \in Tasks |-> FALSE]
  /\ held = [t \in Tasks |-> "none"]
  /\ mu = None
  /\ browser = "up" /\ closing = FALSE
  /\ isProxy = FALSE
  /\ draining = FALSE /\ activePages = 0 /\ channel = "nil"
  /\ cooldown \in BOOLEAN /\ cache = FALSE /\ fresh = FALSE
  /\ hpc = "idle" /\ probed = "none"
  /\ excused = {} /\ events = 0

Event == events < MaxEvents /\ events' = events + 1
Goto(t, to) == pc' = [pc EXCEPT ![t] = to]

\* doCrawl returns; the worker goes on to its next task.
Return(t) ==
  /\ Goto(t, "idle")
  /\ want' = [want EXCEPT ![t] = FALSE]
  /\ held' = [held EXCEPT ![t] = "none"]
  /\ excused' = excused \ {t}

\* ensureBrowserState returns nil.
Ensured(t) == Goto(t, "check") /\ want' = [want EXCEPT ![t] = FALSE]

\* Where the instances captured so far go when Service.browser changes.
Moved(from, to) ==
  /\ held' = [t \in Tasks |-> IF held[t] = from THEN to ELSE held[t]]
  /\ probed' = IF probed = from THEN to ELSE probed
Holders == {t \in Tasks : held[t] = "current"}
-----------------------------------------------------------------------------
\* Mutant: a cached yes is believed for ever.
ReadCache_Sticky(t) ==
  /\ pc[t] = "idle" /\ mu = None
  /\ IF fresh \/ cache THEN Goto(t, "compare") /\ want' = [want EXCEPT ![t] = cache]
     ELSE Goto(t, "exists") /\ UNCHANGED want
  /\ UNCHANGED <<held, mu, isProxy, instVars, drainVars, proxyVars, healthVars, excused, events>>

\* doCrawl begins with getProxyState: the cached answer while it is fresh.
ReadCache(t) ==
  /\ pc[t] = "idle" /\ mu = None
  /\ IF fresh THEN Goto(t, "compare") /\ want' = [want EXCEPT ![t] = cache]
     ELSE Goto(t, "exists") /\ UNCHANGED want
  /\ UNCHANGED <<held, mu, isProxy, instVars, drainVars, proxyVars, healthVars, excused, events>>

\* Otherwise EXISTS of the cooldown key, outside the lock ...
AskRedis(t) ==
  /\ pc[t] = "exists"
  /\ Goto(t, "store") /\ want' = [want EXCEPT ![t] = cooldown]
  /\ UNCHANGED <<held, mu, isProxy, instVars, drainVars, proxyVars, healthVars, excused, events>>

\* ... (an error falls back on the stale cache) ...
RedisDown(t) ==
  /\ pc[t] = "exists" /\ mu = None
  /\ Event
  /\ Goto(t, "compare") /\ want' = [want EXCEPT ![t] = cache]
  /\ UNCHANGED <<held, mu, isProxy, instVars, drainVars, proxyVars, healthVars, excused>>

\* ... and the answer is cached, over whatever has been cached meanwhile.
StoreCache(t) ==
  /\ pc[t] = "store" /\ mu = None
  /\ cache' = want[t] /\ fresh' = TRUE
  /\ Goto(t, "compare")
  /\ UNCHANGED <<want, held, mu, isProxy, instVars, drainVars, cooldown, healthVars, excused, events>>

\* ensureBrowserState: nothing to switch?
Compare(t) ==
  /\ pc[t] = "compare" /\ mu = None
  /\ IF want[t] = isProxy THEN Ensured(t) ELSE Goto(t, "lock") /\ UNCHANGED want
  /\ UNCHANGED <<held, mu, isProxy, instVars, drainVars, proxyVars, healthVars, excused, events>>

\* The writer lock, the second look, and startDraining.
LockAndDrain(t) ==
  /\ pc[t] = "lock" /\ mu = None
  /\ IF want[t] = isProxy
     THEN Ensured(t) /\ UNCHANGED <<mu, draining, channel>>
     ELSE /\ Goto(t, "drain") /\ UNCHANGED want
          /\ mu' = t /\ draining' = TRUE /\ channel' = "open"
  /\ UNCHANGED <<held, isProxy, instVars, activePages, proxyVars, healthVars, excused, events>>

\* Mutant: one page may still be open.
WaitForDrain_Off(t) ==
  /\ pc[t] = "drain"
  /\ Goto(t, IF activePages =< 1 THEN "swap" ELSE "wait")
  /\ UNCHANGED <<want, held, mu, isProxy, instVars, drainVars, proxyVars, healthVars, excused, events>>

\* waitForDrain: nothing to wait for?
WaitForDrain(t) ==
  /\ pc[t] = "drain"
  /\ Goto(t, IF activePages =< 0 THEN "swap" ELSE "wait")
  /\ UNCHANGED <<want, held, mu, isProxy, instVars, drainVars, proxyVars, healthVars, excused, events>>

\* The channel was closed, ...
Drained(t) ==
  /\ pc[t] = "wait" /\ channel = "closed"
  /\ Goto(t, "swap")
  /\ UNCHANGED <<want, held, mu, isProxy, instVars, drainVars, proxyVars, healthVars, excused, events>>

\* ... or drainTimeout is over and the instance is taken away all the same.
DrainTimeout(t) ==
  /\ pc[t] = "wait"
  /\ Goto(t, "swap")
  /\ excused' = excused \cup Holders
  /\ UNCHANGED <<want, held, mu, isProxy, instVars, drainVars, proxyVars, healthVars, events>>

\* The new instance replaces the old one; completeDraining; unlock.  To start
\* Chrome takes longer than the 500 ms after which an old instance is closed.
Rotate(t) ==
  /\ pc[t] = "swap" /\ ~closing
  /\ Moved("current", IF browser = "dead" THEN "closed" ELSE "replaced")
  /\ browser' = "up" /\ closing' = (browser /= "nil")
  /\ isProxy' = want[t]
  /\ draining' = FALSE /\ channel' = "nil"
  /\ mu' = None
  /\ Ensured(t)
  /\ UNCHANGED <<activePages, proxyVars, hpc, excused, events>>

\* Mutant: completeDraining is left out on the error path.
RotateFails_KeepsDraining(t) ==
  /\ pc[t] = "swap"
  /\ Event
  /\ IF want[t] THEN cache' = FALSE /\ fresh' = TRUE ELSE UNCHANGED <<cache, fresh>>
  /\ mu' = None
  /\ Return(t)
  /\ UNCHANGED <<isProxy, instVars, drainVars, cooldown, healthVars>>

\* startBrowser fails: the old instance stays, and a switch to proxy mode is
\* not tried again while the cache is fresh.  The task fails.
RotateFails(t) ==
  /\ pc[t] = "swap"
  /\ Event
  /\ draining' = FALSE /\ channel' = "nil"
  /\ IF want[t] THEN cache' = FALSE /\ fresh' = TRUE ELSE UNCHANGED <<cache, fresh>>
  /\ mu' = None
  /\ Return(t)
  /\ UNCHANGED <<isProxy, instVars, activePages, cooldown, healthVars>>

\* trackPageStart: refused while draining (the task fails), ...
CheckDraining(t) ==
  /\ pc[t] = "check"
  /\ IF draining THEN Return(t)
     ELSE Goto(t, "capture") /\ UNCHANGED <<want, held, excused>>
  /\ UNCHANGED <<mu, isProxy, instVars, drainVars, proxyVars, healthVars, events>>

\* ... the instance is captured (nil: the task fails) ...
Capture(t) ==
  /\ pc[t] = "capture" /\ mu = None
  /\ IF browser = "nil" THEN Return(t)
     ELSE /\ Goto(t, "count") /\ held' = [held EXCEPT ![t] = "current"]
          /\ excused' = IF browser = "dead" THEN excused \cup {t} ELSE excused
          /\ UNCHANGED want
  /\ UNCHANGED <<mu, isProxy, instVars, drainVars, proxyVars, healthVars, events>>

\* Mutant: the page is not counted.
CountPage_Forgets(t) ==
  /\ pc[t] = "count"
  /\ activePages' = activePages
  /\ excused' = IF draining \/ held[t] /= "current" THEN excused \cup {t} ELSE excused
  /\ Goto(t, "crawl")
  /\ UNCHANGED <<want, held, mu, isProxy, instVars, draining, channel, proxyVars, healthVars, events>>

\* ... and the page is counted: too late, if a drain has begun since.
CountPage(t) ==
  /\ pc[t] = "count"
  /\ activePages' = activePages + 1
  /\ excused' = IF draining \/ held[t] /= "current" THEN excused \cup {t} ELSE excused
  /\ Goto(t, "crawl")
  /\ UNCHANGED <<want, held, mu, isProxy, instVars, draining, channel, proxyVars, healthVars, events>>

\* Mutant: an off-by-one in the last page's test.
TrackPageEnd_NeverLast(t) ==
  /\ pc[t] = "crawl"
  /\ activePages' = activePages - 1
  /\ held' = [held EXCEPT ![t] = "none"]
  /\ excused' = excused \ {t}
  /\ Goto(t, IF draining /\ activePages - 1 < 0 THEN "signal" ELSE "judge")
  /\ UNCHANGED <<want, mu, isProxy, instVars, draining, channel, proxyVars, healthVars, events>>

\* Mutant: trackPageEnd takes Service.mu.
TrackPageEnd_Locks(t) ==
  /\ pc[t] = "crawl" /\ mu = None
  /\ activePages' = activePages - 1
  /\ held' = [held EXCEPT ![t] = "none"]
  /\ excused' = excused \ {t}
  /\ Goto(t, IF draining /\ activePages - 1 =< 0 THEN "signal" ELSE "judge")
  /\ UNCHANGED <<want, mu, isProxy, instVars, draining, channel, proxyVars, healthVars, events>>

\* crawlWithFixedPages is over, one way or another: trackPageEnd.  (It loads
\* draining right after the count; a drain that begins between the two finds
\* the page gone and does not wait for it.)
TrackPageEnd(t) ==
  /\ pc[t] = "crawl"
  /\ activePages' = activePages - 1
  /\ held' = [held EXCEPT ![t] = "none"]
  /\ excused' = excused \ {t}
  /\ Goto(t, IF draining /\ activePages - 1 =< 0 THEN "signal" ELSE "judge")
  /\ UNCHANGED <<want, mu, isProxy, instVars, draining, channel, proxyVars, healthVars, events>>

\* The last page closes the channel it finds, under drainMu.  It is too early
\* if pages have been counted since.
CloseChannel(t) ==
  /\ pc[t] = "signal"
  /\ channel' = IF channel = "open" THEN "closed" ELSE channel
  /\ excused' = IF channel = "open" /\ activePages > 0 THEN excused \cup Holders ELSE excused
  /\ Goto(t, "judge")
  /\ UNCHANGED <<want, held, mu, isProxy, instVars, draining, activePages, proxyVars, healthVars, events>>

\* doCrawl: the crawl ended the task, ...
Finish(t) ==
  /\ pc[t] = "judge"
  /\ Return(t)
  /\ UNCHANGED <<mu, isProxy, instVars, drainVars, proxyVars, healthVars, events>>

\* ... or a direct first attempt timed out once too often and the proxy is
\* healthy (module CrawlTask says when), or FORCE_PROXY_ONCE asks for it before
\* the crawl: setProxyCooldown, first in Redis ...
SetCooldown(t) ==
  /\ pc[t] \in {"check", "judge"} /\ mu = None
  /\ ~isProxy
  /\ \/ cooldown' = TRUE /\ UNCHANGED events
     \/ Event /\ UNCHANGED cooldown
  /\ Goto(t, "cooled")
  /\ UNCHANGED <<want, held, mu, isProxy, instVars, drainVars, cache, fresh, healthVars, excused>>

\* ... then in the cache; the second attempt begins, or the next task.
CacheCooldown(t) ==
  /\ pc[t] = "cooled" /\ mu = None
  /\ cache' = TRUE /\ fresh' = TRUE
  /\ Goto(t, "idle")
  /\ UNCHANGED <<want, held, mu, isProxy, instVars, drainVars, cooldown, healthVars, excused, events>>
-----------------------------------------------------------------------------
\* Mutant: no instance counts as healthy.
HealthCapture_NilIsFine ==
  /\ hpc = "idle" /\ mu = None
  /\ IF browser = "nil" THEN UNCHANGED hpc /\ UNCHANGED probed
     ELSE hpc' = "test" /\ probed' = "current"
  /\ UNCHANGED <<taskVars, mu, isProxy, instVars, drainVars, proxyVars, excused, events>>

\* checkBrowserHealth: the instance of this moment ...
HealthCapture ==
  /\ hpc = "idle" /\ mu = None
  /\ IF browser = "nil" THEN hpc' = "restart" /\ UNCHANGED probed
     ELSE hpc' = "test" /\ probed' = "current"
  /\ UNCHANGED <<taskVars, mu, isProxy, instVars, drainVars, proxyVars, excused, events>>

\* ... is tested, whether or not it still is the one in use.
HealthTest ==
  /\ hpc = "test"
  /\ hpc' = IF probed = "closed" \/ (probed = "current" /\ browser = "dead") THEN "restart" ELSE "idle"
  /\ probed' = "none"
  /\ UNCHANGED <<taskVars, mu, isProxy, instVars, drainVars, proxyVars, excused, events>>

\* restartBrowserInstance: the instance in use is closed without a drain ...
RestartClose ==
  /\ hpc = "restart" /\ mu = None
  /\ mu' = Health
  /\ Moved("current", "closed") /\ excused' = excused \cup Holders
  /\ browser' = "nil"
  /\ hpc' = "launch"
  /\ UNCHANGED <<pc, want, isProxy, closing, drainVars, proxyVars, events>>

\* ... and a new one is started in the same mode, ...
RestartLaunch ==
  /\ hpc = "launch"
  /\ browser' = "up"
  /\ mu' = None
  /\ hpc' = "idle"
  /\ UNCHANGED <<taskVars, isProxy, closing, drainVars, proxyVars, probed, excused, events>>

\* ... or there is none until the next health check.
RestartFails ==
  /\ hpc = "launch"
  /\ Event
  /\ mu' = None
  /\ hpc' = "idle"
  /\ UNCHANGED <<taskVars, isProxy, instVars, drainVars, proxyVars, probed, excused>>
-----------------------------------------------------------------------------
\* The goroutine of rotateBrowser closes the old instance.
CloseOld ==
  /\ closing
  /\ closing' = FALSE
  /\ Moved("replaced", "closed")
  /\ UNCHANGED <<pc, want, mu, isProxy, browser, drainVars, proxyVars, hpc, excused, events>>

\* Chrome crashes or hangs.
Crash ==
  /\ browser = "up"
  /\ Event
  /\ browser' = "dead" /\ excused' = excused \cup Holders
  /\ UNCHANGED <<taskVars, mu, isProxy, closing, drainVars, proxyVars, healthVars>>

\* The cooldown key is set by another node, or expires.
CooldownChanges ==
  /\ cooldown' = ~cooldown
  /\ UNCHANGED <<taskVars, mu, isProxy, instVars, drainVars, cache, fresh, healthVars, excused, events>>

\* proxyCacheTTL is over.
CacheExpires ==
  /\ fresh
  /\ fresh' = FALSE
  /\ UNCHANGED <<taskVars, mu, isProxy, instVars, drainVars, cooldown, cache, healthVars, excused, events>>

\* The steps a task takes by itself, the end of its crawl included (bounded
\* by the task timeout); the drain timeout and the failures are not among them.
TaskStep(t) ==
  \/ ReadCache(t) \/ AskRedis(t) \/ StoreCache(t) \/ Compare(t)
  \/ LockAndDrain(t) \/ WaitForDrain(t) \/ Drained(t) \/ Rotate(t)
  \/ CheckDraining(t) \/ Capture(t) \/ CountPage(t)
  \/ TrackPageEnd(t) \/ CloseChannel(t)
  \/ Finish(t) \/ CacheCooldown(t)

HealthStep == HealthCapture \/ HealthTest \/ RestartClose \/ RestartLaunch

Next ==
  \/ \E t \in Tasks : TaskStep(t) \/ RedisDown(t) \/ DrainTimeout(t) \/ RotateFails(t) \/ SetCooldown(t)
  \/ HealthStep \/ RestartFails \/ Crash
  \/ CloseOld
  \/ CooldownChanges \/ CacheExpires

Spec == Init /\ [][Next]_vars

\* Goroutines are scheduled; the Go lock does not starve a waiter, hence
\* strong fairness of the steps that take it.
FairSpec ==
  /\ Spec
  /\ \A t \in Tasks : SF_vars(TaskStep(t))
  /\ SF_vars(HealthStep)
  /\ WF_vars(CacheExpires)
  /\ WF_vars(CloseOld)
-----------------------------------------------------------------------------
\* Types of the shared state, and a count that never goes below zero.
TypeOK ==
  /\ pc \in [Tasks -> {"idle", "exists", "store", "compare", "lock", "drain", "wait",
                       "swap", "check", "capture", "count", "crawl", "signal", "judge", "cooled"}]
  /\ held \in [Tasks -> {"none", "current", "replaced", "closed"}]
  /\ mu \in Tasks \cup {Health, None}
  /\ browser \in {"up", "dead", "nil"} /\ closing \in BOOLEAN
  /\ activePages \in 0 .. Cardinality(Tasks)
  /\ channel \in {"nil", "open", "closed"}
  /\ hpc \in {"idle", "test", "restart", "launch"}

\* A task crawls with a closed instance only if that instance was taken away
\* by force (a crash, a restart by the health check, a drain that timed out or
\* was signalled although pages had been counted again), or if the task was
\* counted after the drain had begun (trackPageStart reads draining and the
\* instance first and counts last).  Otherwise draining does protect it.
NoUseAfterClose ==
  \A t \in Tasks : (pc[t] = "crawl" /\ held[t] = "closed") => t \in excused

\* No lost wake-up: when the rotation waits and no page is left, the channel
\* is closed or a page is on its way to close it.
DrainIsSignalled ==
  \A t \in Tasks : (pc[t] = "wait" /\ activePages = 0) =>
    \/ channel = "closed"
    \/ \E u \in Tasks : pc[u] = "signal"

\* Tasks are refused for draining, and mu is held by a task, only during a
\* rotation: no error path of rotateBrowser leaves the node draining.
DrainingIsRotation ==
  draining <=> \E t \in Tasks : mu = t /\ pc[t] \in {"drain", "wait", "swap"}

\* A rotation ends although it holds the lock while it waits for other
\* tasks, and not only by its timeout: those tasks need no lock to finish.
RotationEnds ==
  \A t \in Tasks : []<>(pc[t] /= "wait")

\* The node ends up in the mode the cooldown key asks for, whatever stale
\* answers, failed switches and restarts came in between.
ModeFollowsCooldown ==
  /\ <>[]cooldown => <>[]isProxy
  /\ <>[](~cooldown) => <>[](~isProxy)

\* A node without an instance gets one.
InstanceComesBack ==
  []<>(browser /= "nil")
=============================================================================
