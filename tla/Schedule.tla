------------------------------- MODULE Schedule -------------------------------
(***************************************************************************)
(* The crawl schedule: the Redis ZSET of next crawl times                  *)
(* (internal/scheduler/schedule_store.go) and everybody who writes it: the *)
(* schedule loop and the refresh loop of internal/scheduler, phase 3.5 of  *)
(* the analyzer pipeline, and the API handlers that create, edit, delete,  *)
(* import and trigger IPs (internal/api/ip_handler.go).  All of them live  *)
(* in the analyzer process and none of them holds a lock: a MySQL          *)
(* statement or a Redis command is one step.                               *)
(*                                                                         *)
(* Times are kept relative to now.  zset[i] is how far ahead the score of  *)
(* i lies; Tick lets a unit of time pass; every score that is due is 0,    *)
(* because the code only asks score <= now, and so GetDue returns the due  *)
(* IPs in any order.  lag is the age of the `now` that checkAndSchedule    *)
(* reads once and uses for all its batches.                                *)
(*                                                                         *)
(* The task queue is the set of IPs with a task, queued or in processing:  *)
(* what module TaskQueue says of it, and all the scheduler sees of it.     *)
(***************************************************************************)
EXTENDS Intervals, FiniteSets

CONSTANTS
  IPs,
  Weights,      \* hundredths
  BatchSize,
  Threshold,    \* BackpressureThreshold
  MaxWait,      \* the 10 minutes of waitForQueueDrain, in units
  Clients,      \* requests the API serves at the same time
  MaxEvents     \* bound: API requests, MySQL and Redis errors, and restarts

ASSUME ScheduleAssumption ==
  /\ IsFiniteSet(IPs)
  /\ Weights \subseteq Int
  /\ BatchSize \in Nat \ {0}
  /\ MaxWait \in Nat /\ Threshold \in Nat

NotIn == -1         \* not a member of the ZSET
RetryDelay == Sub   \* the minute after a failed push

VARIABLES
  row,       \* ip_metadata: status and weight
  zset,      \* the ZSET
  queued,    \* IPs with a task in the queue or in processing
  result,    \* per IP: "none", "new" (to be processed), "adjusted" (phase 3.5 next)
  loop,      \* the schedule loop
  refresh,   \* RefreshActiveIPs
  api,       \* per client: the request being served
  gap,       \* time since the last accepted push; Enough once the API, a refresh, a
             \* removal, a restart or an error has interfered with the entry (history)
  events     \* of MaxEvents

vars == <<row, zset, queued, result, loop, refresh, api, gap, events>>

Down == [pc |-> "down", todo |-> {}, left |-> 0, lag |-> 0, wait |-> 0, cur |-> {}, weight |-> One]
IdleLoop == [Down EXCEPT !.pc = "idle"]
IdleRefresh == [pc |-> "idle", active |-> {}, todo |-> {}, put |-> {}]
IdleApi == [pc |-> "idle", ip |-> {}, weight |-> 0, status |-> "keep"]

Active == {i \in IPs : row[i].status = "active"}
Scheduled == {i \in IPs : zset[i] /= NotIn}
Due == {i \in IPs : zset[i] = 0}
Ahead(t) == IF t < 0 THEN 0 ELSE t
Enough == MinInterval * Sub

\* The furthest ahead that an entry is written: one interval and a slot, or the
\* last of the starts that initScheduleTimes spreads ten seconds apart.
Spread == (Cardinality(IPs) * Sub) \div 6
Furthest ==
  IF Spread > MaxInterval * Sub + ScheduleSlot THEN Spread ELSE MaxInterval * Sub + ScheduleSlot

Init ==
  /\ row \in [IPs -> [status : {"none", "active"}, weight : {One}]]
  /\ zset = [i \in IPs |-> NotIn]
  /\ queued = {}
  /\ result = [i \in IPs |-> "none"]
  /\ loop = Down
  /\ refresh = IdleRefresh
  /\ api = [c \in Clients |-> IdleApi]
  /\ gap = [i \in IPs |-> Enough]
  /\ events = 0

ZAdd(i, t) == zset' = [zset EXCEPT ![i] = Ahead(t)]
ZRem(i) == zset' = [zset EXCEPT ![i] = NotIn]
Event == events < MaxEvents /\ events' = events + 1
-----------------------------------------------------------------------------
\* Start of the scheduler: Count of the ZSET.
InitCount ==
  /\ loop.pc = "down"
  /\ loop' = [loop EXCEPT !.pc = IF Scheduled = {} THEN "fill" ELSE "idle"]
  /\ UNCHANGED <<row, zset, queued, result, refresh, api, gap, events>>

\* initScheduleTimes: an active IP is put one interval after its last crawl,
\* or now (plus ten seconds for every IP before it) if that is past or it was
\* never crawled.
InitFill ==
  /\ loop.pc = "fill"
  /\ loop' = [loop EXCEPT !.pc = "idle"]
  /\ \E next \in [Active -> 0 .. Furthest] :
       /\ \A i \in Active : next[i] =< CalculateInterval(row[i].weight) \/ next[i] =< Spread
       /\ zset' = [i \in IPs |-> IF i \in Active THEN next[i] ELSE zset[i]]
  /\ gap' = [i \in IPs |-> IF i \in Active THEN Enough ELSE gap[i]]
  /\ UNCHANGED <<row, queued, result, refresh, api, events>>
-----------------------------------------------------------------------------
\* Mutant: BatchSize 0 gets no default.
GetDue_ZeroBatch ==
  /\ loop.pc = "idle"
  /\ Due /= {}
  /\ loop' = [IdleLoop EXCEPT !.pc = "batch", !.todo = Due]
  /\ UNCHANGED <<row, zset, queued, result, refresh, api, gap, events>>

\* scheduleLoop wakes up (or Start calls checkAndSchedule): GetDue.
GetDue ==
  /\ loop.pc = "idle"
  /\ Due /= {}
  /\ loop' = [IdleLoop EXCEPT !.pc = "batch", !.todo = Due, !.left = BatchSize]
  /\ UNCHANGED <<row, zset, queued, result, refresh, api, gap, events>>

\* After an IP: the next of the batch, or the back pressure, or done.
NextIP(l) ==
  [l EXCEPT !.pc = IF l.todo = {} THEN "idle" ELSE IF l.left = 0 THEN "wait" ELSE "batch",
            !.lag = IF l.todo = {} THEN 0 ELSE l.lag,
            !.left = IF l.todo = {} \/ l.left = 0 THEN 0 ELSE l.left,
            !.wait = 0, !.cur = {}, !.weight = One]

Take(i) == [loop EXCEPT !.todo = loop.todo \ {i}, !.left = loop.left - 1]

\* getIPByID of the next due IP.  Any error removes it from the schedule.
LoopReadFails(i) ==
  /\ loop.pc = "batch" /\ i \in loop.todo
  /\ Event
  /\ loop' = [Take(i) EXCEPT !.cur = {i}, !.pc = "remove"]
  /\ UNCHANGED <<row, zset, queued, result, refresh, api, gap>>

\* Mutant: the status is not looked at.
LoopRead_AnyStatus(i) ==
  /\ loop.pc = "batch" /\ i \in loop.todo
  /\ loop' = [Take(i) EXCEPT !.cur = {i}, !.weight = row[i].weight, !.pc = "push"]
  /\ UNCHANGED <<row, zset, queued, result, refresh, api, gap, events>>

LoopRead(i) ==
  /\ loop.pc = "batch" /\ i \in loop.todo
  /\ loop' = [Take(i) EXCEPT !.cur = {i}, !.weight = row[i].weight,
                             !.pc = IF i \in Active THEN "push" ELSE "remove"]
  /\ UNCHANGED <<row, zset, queued, result, refresh, api, gap, events>>

LoopRemove(i) ==
  /\ loop.pc = "remove" /\ loop.cur = {i}
  /\ ZRem(i)
  /\ loop' = NextIP(loop)
  /\ gap' = [gap EXCEPT ![i] = Enough]
  /\ UNCHANGED <<row, queued, result, refresh, api, events>>

\* pushTasksForIP: a duplicate (ErrTaskExists) counts as pushed.
LoopPush(i) ==
  /\ loop.pc = "push" /\ loop.cur = {i}
  /\ queued' = queued \cup {i}
  /\ loop' = [loop EXCEPT !.pc = "next"]
  /\ gap' = IF i \in queued THEN gap ELSE [gap EXCEPT ![i] = 0]
  /\ UNCHANGED <<row, zset, result, refresh, api, events>>

\* pushTasksForIP fails: try again in a minute.
LoopPushFails(i) ==
  /\ loop.pc = "push" /\ loop.cur = {i}
  /\ Event
  /\ ZAdd(i, RetryDelay - loop.lag)
  /\ loop' = NextIP(loop)
  /\ gap' = [gap EXCEPT ![i] = Enough]
  /\ UNCHANGED <<row, queued, result, refresh, api>>

\* Mutant: the interval is forgotten.
LoopReschedule_Due(i) ==
  /\ loop.pc = "next" /\ loop.cur = {i}
  /\ ZAdd(i, 0 - loop.lag)
  /\ loop' = NextIP(loop)
  /\ UNCHANGED <<row, queued, result, refresh, api, gap, events>>

\* Schedule(now + interval), by the `now` of the first batch.
LoopReschedule(i) ==
  /\ loop.pc = "next" /\ loop.cur = {i}
  /\ ZAdd(i, CalculateInterval(loop.weight) - loop.lag)
  /\ loop' = NextIP(loop)
  /\ UNCHANGED <<row, queued, result, refresh, api, gap, events>>

\* Schedule or Remove fails, unnoticed: the entry stays due.
LoopWriteFails(i) ==
  /\ loop.pc \in {"next", "remove"} /\ loop.cur = {i}
  /\ Event
  /\ loop' = NextIP(loop)
  /\ gap' = [gap EXCEPT ![i] = Enough]
  /\ UNCHANGED <<row, zset, queued, result, refresh, api>>

\* Mutant: no deadline, and "less" for "at most".
DrainOver_Below ==
  /\ loop.pc = "wait"
  /\ Cardinality(queued) < Threshold
  /\ loop' = [loop EXCEPT !.pc = "batch", !.left = BatchSize, !.wait = 0]
  /\ UNCHANGED <<row, zset, queued, result, refresh, api, gap, events>>

\* waitForQueueDrain returns: the queue is short enough, or the wait too long.
DrainOver ==
  /\ loop.pc = "wait"
  /\ Cardinality(queued) =< Threshold \/ loop.wait >= MaxWait
  /\ loop' = [loop EXCEPT !.pc = "batch", !.left = BatchSize, !.wait = 0]
  /\ UNCHANGED <<row, zset, queued, result, refresh, api, gap, events>>
-----------------------------------------------------------------------------
\* RefreshActiveIPs: the active IPs are read once ...
RefreshRead ==
  /\ refresh.pc = "idle" /\ loop.pc \notin {"down", "fill"}
  /\ refresh' = [pc |-> "add", active |-> Active, todo |-> Active, put |-> {}]
  /\ UNCHANGED <<row, zset, queued, result, loop, api, gap, events>>

\* ... GetScheduleTime: those without an entry are scheduled now, and so is
\* one whose entry could not be read ...
RefreshPeek(i) ==
  /\ refresh.pc = "add" /\ i \in refresh.todo
  /\ refresh.put = {}
  /\ refresh' = [refresh EXCEPT !.todo = refresh.todo \ {i}, !.put = {i} \ Scheduled]
  /\ UNCHANGED <<row, zset, queued, result, loop, api, gap, events>>

RefreshPeekFails(i) ==
  /\ refresh.pc = "add" /\ i \in refresh.todo
  /\ refresh.put = {}
  /\ Event
  /\ refresh' = [refresh EXCEPT !.todo = refresh.todo \ {i}, !.put = {i}]
  /\ UNCHANGED <<row, zset, queued, result, loop, api, gap>>

\* Mutant: a missing entry is not put back.
RefreshAdd_Skips(i) ==
  /\ refresh.put = {i}
  /\ refresh' = [refresh EXCEPT !.put = {}]
  /\ UNCHANGED <<row, zset, queued, result, loop, api, gap, events>>

RefreshAdd(i) ==
  /\ refresh.put = {i}
  /\ refresh' = [refresh EXCEPT !.put = {}]
  /\ ZAdd(i, 0)
  /\ gap' = [gap EXCEPT ![i] = Enough]
  /\ UNCHANGED <<row, queued, result, loop, api, events>>

\* ... GetAll ...
RefreshGetAll ==
  /\ refresh.pc = "add" /\ refresh.todo = {} /\ refresh.put = {}
  /\ LET stale == Scheduled \ refresh.active
     IN  refresh' = IF stale = {} THEN IdleRefresh
                    ELSE [refresh EXCEPT !.pc = "remove", !.todo = stale]
  /\ UNCHANGED <<row, zset, queued, result, loop, api, gap, events>>

Removed(i) ==
  IF refresh.todo = {i} THEN IdleRefresh ELSE [refresh EXCEPT !.todo = refresh.todo \ {i}]

\* ... and the entries that were not in the first list are removed.
RefreshRemove(i) ==
  /\ refresh.pc = "remove" /\ i \in refresh.todo
  /\ ZRem(i)
  /\ refresh' = Removed(i)
  /\ gap' = [gap EXCEPT ![i] = Enough]
  /\ UNCHANGED <<row, queued, result, loop, api, events>>

\* Schedule or Remove fails, unnoticed, or GetAll fails, which ends the refresh.
RefreshFails ==
  /\ Event
  /\ \/ /\ refresh.put /= {}
        /\ refresh' = [refresh EXCEPT !.put = {}]
     \/ /\ refresh.pc = "add" /\ refresh.todo = {} /\ refresh.put = {}
        /\ refresh' = IdleRefresh
     \/ \E i \in refresh.todo :
          /\ refresh.pc = "remove"
          /\ refresh' = Removed(i)
  /\ UNCHANGED <<row, zset, queued, result, loop, api, gap>>
-----------------------------------------------------------------------------
\* A request reaches its handler (the API is served once the loop runs).
Request(c, r) ==
  /\ api[c].pc = "idle" /\ loop.pc \notin {"down", "fill"}
  /\ Event
  /\ api' = [api EXCEPT ![c] = r]
  /\ UNCHANGED <<queued, result, loop, refresh, zset, gap>>

\* createIP, or importIPs of a new name: the row is created, AddIP follows.
CreateIP(c, i) ==
  /\ row[i].status = "none"
  /\ row' = [row EXCEPT ![i].status = "active"]
  /\ Request(c, [IdleApi EXCEPT !.pc = "status", !.ip = {i}, !.status = "active"])

\* updateIP; deleteIP (status deleted, no weight); importIPs of a known name
\* (a weight, no status).  "off" is paused or deleted: nobody tells them apart.
UpdateIP(c, i, w, st) ==
  /\ row[i].status /= "none"
  /\ w /= 0 \/ st /= "keep"
  /\ row' = [row EXCEPT ![i].weight = IF w = 0 THEN @ ELSE w,
                        ![i].status = IF st = "keep" THEN @ ELSE st]
  /\ Request(c, [pc |-> IF w = 0 THEN "status" ELSE "weight", ip |-> {i}, weight |-> w, status |-> st])

\* triggerIP: the row must exist, its status is not looked at.
TriggerIP(c, i) ==
  /\ row[i].status /= "none"
  /\ UNCHANGED row
  /\ Request(c, [IdleApi EXCEPT !.pc = "trigger", !.ip = {i}])

\* updateIP goes on to the status after the weight, if there is one.
WeightDone(c) ==
  api' = [api EXCEPT ![c] = IF @.status = "keep" THEN IdleApi ELSE [@ EXCEPT !.pc = "status"]]

\* UpdateIPWeight: GetScheduleTime ...
PeekSchedule(c, i) ==
  /\ api[c].pc = "weight" /\ api[c].ip = {i}
  /\ IF i \in Scheduled THEN api' = [api EXCEPT ![c].pc = "reweigh"] ELSE WeightDone(c)
  /\ UNCHANGED <<row, zset, queued, result, loop, refresh, gap, events>>

\* ... and Schedule(now + interval), even if the entry has gone meanwhile.
Reweigh(c, i) ==
  /\ api[c].pc = "reweigh" /\ api[c].ip = {i}
  /\ ZAdd(i, CalculateInterval(api[c].weight))
  /\ gap' = [gap EXCEPT ![i] = Enough]
  /\ WeightDone(c)
  /\ UNCHANGED <<row, queued, result, loop, refresh, events>>

\* AddIP or RemoveIP, by the status of the request.
SyncStatus(c, i) ==
  /\ api[c].pc = "status" /\ api[c].ip = {i}
  /\ IF api[c].status = "active" THEN ZAdd(i, 0) ELSE ZRem(i)
  /\ gap' = [gap EXCEPT ![i] = Enough]
  /\ api' = [api EXCEPT ![c] = IdleApi]
  /\ UNCHANGED <<row, queued, result, loop, refresh, events>>

\* TriggerNow.
TriggerNow(c, i) ==
  /\ api[c].pc = "trigger" /\ api[c].ip = {i}
  /\ ZAdd(i, 0)
  /\ gap' = [gap EXCEPT ![i] = Enough]
  /\ api' = [api EXCEPT ![c] = IdleApi]
  /\ UNCHANGED <<row, queued, result, loop, refresh, events>>

\* Redis fails: the row is written, the schedule is not, the client sees success.
ApiWriteFails(c) ==
  /\ api[c].pc /= "idle"
  /\ Event
  /\ IF api[c].pc \in {"weight", "reweigh"} THEN WeightDone(c) ELSE api' = [api EXCEPT ![c] = IdleApi]
  /\ UNCHANGED <<row, zset, queued, result, loop, refresh, gap>>
-----------------------------------------------------------------------------
\* The task of i leaves the queue: with a result to process, or with none
\* (an error result, a result that was lost, the dead letter queue).
CrawlEnds(i) ==
  /\ i \in queued
  /\ queued' = queued \ {i}
  /\ \/ result' = [result EXCEPT ![i] = "new"]
     \/ UNCHANGED result
  /\ UNCHANGED <<row, zset, loop, refresh, api, gap, events>>

\* Phase 3: UpdateIPLastCrawled and Adjust.
AdjustWeight(i) ==
  /\ result[i] = "new"
  /\ \E w \in Weights : row' = [row EXCEPT ![i].weight = w]
  /\ result' = [result EXCEPT ![i] = "adjusted"]
  /\ UNCHANGED <<zset, queued, loop, refresh, api, gap, events>>

\* Phase 3.5: ScheduleIP, whatever has become of the IP.
ScheduleIP(i) ==
  /\ result[i] = "adjusted"
  /\ \E w \in Weights, now \in 0 .. ScheduleSlot :
       ZAdd(i, AlignToSlot(now + CalculateInterval(w)) - now)
  /\ result' = [result EXCEPT ![i] = "none"]
  /\ UNCHANGED <<row, queued, loop, refresh, api, gap, events>>

\* It fails: logged, the time set by checkAndSchedule stays.
ScheduleIPFails(i) ==
  /\ result[i] = "adjusted"
  /\ Event
  /\ result' = [result EXCEPT ![i] = "none"]
  /\ UNCHANGED <<row, zset, queued, loop, refresh, api, gap>>

\* The analyzer dies and starts again; MySQL and Redis keep their contents.
Restart ==
  /\ Event
  /\ loop' = Down /\ refresh' = IdleRefresh /\ api' = [c \in Clients |-> IdleApi]
  /\ result' = [i \in IPs |-> IF result[i] = "adjusted" THEN "new" ELSE result[i]]
  /\ gap' = [i \in IPs |-> IF i \in loop.cur THEN Enough ELSE gap[i]]
  /\ UNCHANGED <<row, zset, queued>>

\* A unit of time.  MySQL and Redis answer within one, so none passes while
\* the loop works on a batch; waitForQueueDrain gives up in time.
Tick ==
  /\ loop.pc \in {"down", "fill", "idle", "wait"}
  /\ loop.pc = "wait" => loop.wait < MaxWait
  /\ zset' = [i \in IPs |-> IF zset[i] > 0 THEN zset[i] - 1 ELSE zset[i]]
  /\ loop' = IF loop.pc = "wait" THEN [loop EXCEPT !.lag = @ + 1, !.wait = @ + 1] ELSE loop
  /\ gap' = [i \in IPs |-> IF gap[i] < Enough THEN gap[i] + 1 ELSE Enough]
  /\ UNCHANGED <<row, queued, result, refresh, api, events>>

LoopStep ==
  \/ InitCount \/ InitFill \/ GetDue \/ DrainOver
  \/ \E i \in IPs : LoopRead(i) \/ LoopRemove(i) \/ LoopPush(i) \/ LoopReschedule(i)

RefreshStep ==
  \/ RefreshRead \/ RefreshGetAll
  \/ \E i \in IPs : RefreshPeek(i) \/ RefreshAdd(i) \/ RefreshRemove(i)

ApiStep(c) ==
  \E i \in IPs : PeekSchedule(c, i) \/ Reweigh(c, i) \/ SyncStatus(c, i) \/ TriggerNow(c, i)
Requests(c) ==
  \E i \in IPs :
    \/ CreateIP(c, i) \/ TriggerIP(c, i)
    \/ \E w \in Weights \cup {0}, st \in {"keep", "active", "off"} : UpdateIP(c, i, w, st)

PipelineStep(i) == AdjustWeight(i) \/ ScheduleIP(i)

Next ==
  \/ LoopStep \/ RefreshStep \/ RefreshFails \/ Restart \/ Tick
  \/ \E i \in IPs :
       \/ LoopReadFails(i) \/ LoopPushFails(i) \/ LoopWriteFails(i) \/ ScheduleIPFails(i)
       \/ RefreshPeekFails(i)
       \/ PipelineStep(i) \/ CrawlEnds(i)
  \/ \E c \in Clients : Requests(c) \/ ApiStep(c) \/ ApiWriteFails(c)

Spec == Init /\ [][Next]_vars

\* The two loops run for ever (tickers and timers), a handler that has begun
\* returns, the pipeline processes every result, every task leaves the queue
\* (module TaskQueue), and time passes.
FairSpec ==
  /\ Spec
  /\ WF_vars(LoopStep) /\ WF_vars(RefreshStep) /\ WF_vars(Tick)
  /\ \A i \in IPs : WF_vars(PipelineStep(i)) /\ WF_vars(CrawlEnds(i))
  /\ \A c \in Clients : WF_vars(ApiStep(c))
-----------------------------------------------------------------------------
\* How often waitForQueueDrain is called between the batches of one check.
MaxWaits == IF IPs = {} THEN 0 ELSE (Cardinality(IPs) - 1) \div BatchSize
MaxLag == MaxWaits * MaxWait

\* Types of the schedule, the loops and the request.
TypeOK ==
  /\ row \in [IPs -> [status : {"none", "active", "off"}, weight : Int]]
  /\ zset \in [IPs -> {NotIn} \cup 0 .. Furthest]
  /\ queued \subseteq IPs
  /\ result \in [IPs -> {"none", "new", "adjusted"}]
  /\ loop \in [pc : {"down", "fill", "idle", "batch", "push", "next", "remove", "wait"},
               todo : SUBSET IPs, left : 0 .. BatchSize, lag : 0 .. MaxLag,
               wait : 0 .. MaxWait, cur : SUBSET IPs, weight : Int]
  /\ refresh \in [pc : {"idle", "add", "remove"}, active : SUBSET IPs,
                  todo : SUBSET IPs, put : SUBSET IPs]
  /\ api \in [Clients -> [pc : {"idle", "weight", "reweigh", "status", "trigger"}, ip : SUBSET IPs,
                          weight : Int, status : {"keep", "active", "off"}]]
  /\ gap \in [IPs -> 0 .. Enough]

\* Two tasks of one IP are never accepted closer together than MinInterval
\* less the time checkAndSchedule may have spent waiting between its batches
\* (it reads `now` once), unless the API, a refresh, a removal or a Redis error
\* touched the entry in between.
PushSpacing ==
  [][\A i \in IPs : (i \notin queued /\ i \in queued') => gap[i] >= Enough - MaxLag]_vars

\* An active IP is crawled again and again: whatever removed its entry (a
\* MySQL error in checkAndSchedule, a refresh with a list from before the IP
\* was activated, a handler cut off by a restart), the refresh brings it
\* back and the loop pushes its task.
ActiveIsCrawled ==
  \A i \in IPs : []<>(i \in queued \/ i \notin Active)

\* Once an IP is paused or deleted for good it leaves the schedule for good,
\* although a late result, trigger or weight edit may put it back for a while.
InactiveIsDropped ==
  \A i \in IPs : <>[](i \notin Active) => <>[](i \notin Scheduled /\ i \notin queued)
=============================================================================
