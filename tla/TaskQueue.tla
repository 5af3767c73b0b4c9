------------------------------ MODULE TaskQueue ------------------------------
(***************************************************************************)
(* The crawl-task queue of internal/pkg/redisqueue and everyone who        *)
(* touches it: the scheduler that pushes tasks, the crawler's task         *)
(* goroutines that pop, crawl and acknowledge them, the janitors (one in   *)
(* the analyzer, one in every crawler) that rescue stuck tasks, and the    *)
(* analyzer's start-up recovery.                                           *)
(*                                                                         *)
(* A Redis command or Lua script is one step; two commands of one Go       *)
(* function are two steps, so everything another process does in between   *)
(* is a behaviour of the model.                                            *)
(*                                                                         *)
(* Timestamps are kept as ages: started[t] and createdAt[t] hold what      *)
(* now - timestamp evaluates to, Tick makes every age one older, and an    *)
(* age stops at MaxAge, beyond every janitor's threshold.  All that the    *)
(* code does with a timestamp is to compare that difference.               *)
(***************************************************************************)
EXTENDS EntryLists

CONSTANTS
  Tasks,        \* task ids: a uuid identifies one CrawlRequest for good
  IPs,          \* the dedup keys "ip:<id>"
  IpOf,         \* the IpId of each CrawlRequest
  Workers,      \* semaphore slots, over all the crawler processes
  Janitors,     \* callers of RescueStuckTasks
  Analyzer,     \* the janitor that lives in the analyzer, beside the scheduler
  Timeout,      \* the threshold each janitor passes
  MaxAge,       \* ages saturate here
  MaxRetries,   \* DefaultMaxRetries
  Faults,       \* the points of a task goroutine where its process may die
  MaxRestarts   \* bound: how often the analyzer is restarted

WorkerSteps == {"popped", "crawling", "acking"}

ASSUME TaskAssumption == IpOf \in [Tasks -> IPs]
ASSUME JanitorAssumption ==
  /\ Analyzer \in Janitors
  /\ Timeout \in [Janitors -> Nat]
  /\ MaxAge \in Nat
  /\ \A j \in Janitors : Timeout[j] < MaxAge
ASSUME BoundAssumption ==
  /\ MaxRetries \in Nat
  /\ Faults \subseteq WorkerSteps
  /\ MaxRestarts \in Nat

VARIABLES
  \* Redis
  queue,        \* list animetop:queue:tasks, head first
  processing,   \* list animetop:queue:tasks:processing, head first
  dead,         \* list animetop:queue:tasks:dead
  pending,      \* set animetop:queue:tasks:pending
  started,      \* hash animetop:queue:tasks:started, as ages
  \* the requests themselves
  pushed,       \* ids of the tasks the push script accepted
  createdAt,    \* CrawlRequest.CreatedAt, as ages
  \* crawler task goroutines
  wpc,          \* where each semaphore slot's goroutine is
  wtask,        \* the id of the task it popped
  \* janitors
  jpc,          \* where each RescueStuckTasks call is
  jseen,        \* its HGETALL reply, as ages
  jraws,        \* the part of its LRANGE reply still to go through
  jstuck,       \* the entries of that reply that are over the threshold
  jorphans,     \* the started fields it still has to clean up
  \* the analyzer
  apc,          \* whether IPScheduler.Start is past its recovery
  rtask,        \* the task whose started field the recovery deletes next
  restarts,
  \* history, read by no action
  acked,        \* tasks whose entry an AckTask removed
  strayed       \* IPs whose pending mark an AckTask took without an entry

\* What a CrawlRequest's JSON is told apart by: its id and its retry count.
Entry == [id : Tasks, retry : Nat]

redis     == <<queue, processing, dead, pending, started>>
requests  == <<pushed, createdAt>>
workers   == <<wpc, wtask>>
janitors  == <<jpc, jseen, jraws, jstuck, jorphans>>
analyzer  == <<apc, rtask, restarts>>
history   == <<acked, strayed>>
vars      == <<redis, requests, workers, janitors, analyzer, history>>

NoTask     == "none"
NotStarted == -1
Ages       == 0..MaxAge

Live == ToSet(queue) \cup ToSet(processing)

TypeOK ==
  /\ queue \in Seq(Entry) /\ processing \in Seq(Entry) /\ dead \in Seq(Entry)
  /\ pending \subseteq IPs
  /\ started \in [Tasks -> Ages \cup {NotStarted}]
  /\ pushed \subseteq Tasks
  /\ createdAt \in [Tasks -> Ages]
  /\ wpc \in [Workers -> WorkerSteps \cup {"idle"}]
  /\ wtask \in [Workers -> Tasks \cup {NoTask}]
  /\ \A w \in Workers : wpc[w] # "idle" => wtask[w] \in Tasks
  /\ jpc \in [Janitors -> {"idle", "list", "rescue", "clean"}]
  /\ jseen \in [Janitors -> [Tasks -> Ages \cup {NotStarted}]]
  /\ jraws \in [Janitors -> Seq(Entry)]
  /\ \A j \in Janitors : jpc[j] = "rescue" => jraws[j] # << >>
  /\ jstuck \in [Janitors -> SUBSET Entry]
  /\ jorphans \in [Janitors -> SUBSET Tasks]
  /\ apc \in {"recover", "hdel", "up"}
  /\ rtask \in Tasks \cup {NoTask}
  /\ apc = "hdel" => rtask \in Tasks
  /\ restarts \in 0..MaxRestarts
  /\ acked \subseteq Tasks
  /\ strayed \subseteq IPs

Nothing == [t \in Tasks |-> NotStarted]

Init ==
  /\ queue = << >> /\ processing = << >> /\ dead = << >>
  /\ pending = {} /\ started = Nothing
  /\ pushed = {} /\ createdAt = [t \in Tasks |-> 0]
  /\ wpc = [w \in Workers |-> "idle"] /\ wtask = [w \in Workers |-> NoTask]
  /\ jpc = [j \in Janitors |-> "idle"]
  /\ jseen = [j \in Janitors |-> Nothing]
  /\ jraws = [j \in Janitors |-> << >>]
  /\ jstuck = [j \in Janitors |-> {}]
  /\ jorphans = [j \in Janitors |-> {}]
  /\ apc = "recover" /\ rtask = NoTask /\ restarts = 0
  /\ acked = {} /\ strayed = {}

-----------------------------------------------------------------------------
(* The scheduler.                                                          *)

\* PushTask runs pushTaskScript: SADD of the IP, and the LPUSH only if the IP
\* was new.  ErrTaskExists leaves everything as it was.
PushTask(t) ==
  /\ apc = "up"
  /\ t \notin pushed
  /\ IF IpOf[t] \in pending
       THEN UNCHANGED <<redis, requests>>
       ELSE /\ pending' = pending \cup {IpOf[t]}
            /\ queue' = Cons([id |-> t, retry |-> 0], queue)
            /\ pushed' = pushed \cup {t}
            /\ createdAt' = [createdAt EXCEPT ![t] = 0]
            /\ UNCHANGED <<processing, dead, started>>
  /\ UNCHANGED <<workers, janitors, analyzer, history>>

-----------------------------------------------------------------------------
(* The crawler: one goroutine per popped task.                             *)

\* PopTask's BRPOPLPUSH: tail of the queue to the head of processing.
PopTask(w) ==
  /\ wpc[w] = "idle"
  /\ queue # << >>
  /\ processing' = Cons(Last(queue), processing)
  /\ queue' = Front(queue)
  /\ wpc' = [wpc EXCEPT ![w] = "popped"]
  /\ wtask' = [wtask EXCEPT ![w] = Last(queue).id]
  /\ UNCHANGED <<dead, pending, started, requests, janitors, analyzer, history>>

\* PopTask's second command, the HSET of the start time.
RecordStart(w) ==
  /\ wpc[w] = "popped"
  /\ started' = [started EXCEPT ![wtask[w]] = 0]
  /\ wpc' = [wpc EXCEPT ![w] = "crawling"]
  /\ UNCHANGED <<queue, processing, dead, pending, requests, wtask, janitors,
                 analyzer, history>>

\* The HSET failed; PopTask ignores its error and returns the task all the same.
LoseStart(w) ==
  /\ wpc[w] = "popped"
  /\ wpc[w] \in Faults
  /\ wpc' = [wpc EXCEPT ![w] = "crawling"]
  /\ UNCHANGED <<redis, requests, wtask, janitors, analyzer, history>>

\* doCrawl returned, with items or with an error, before the task's context
\* expired; the goroutine has pushed the result and goes on to acknowledge.
FinishCrawl(w) ==
  /\ wpc[w] = "crawling"
  /\ wpc' = [wpc EXCEPT ![w] = "acking"]
  /\ UNCHANGED <<redis, requests, wtask, janitors, analyzer, history>>

\* The task's context expired first: an error result, no AckTask, the entry
\* stays in processing.  The panic handler and a failed AckTask call do the
\* same to the task queue.
TimeoutTask(w) ==
  /\ wpc[w] \in {"crawling", "acking"}
  /\ wpc' = [wpc EXCEPT ![w] = "idle"]
  /\ wtask' = [wtask EXCEPT ![w] = NoTask]
  /\ UNCHANGED <<redis, requests, janitors, analyzer, history>>

InProcessing(t) == \E e \in ToSet(processing) : e.id = t

\* ackTaskScript: the first entry with this id goes, if there is one; the
\* pending mark and the start time go in any case.
AckTask(w) ==
  LET t == wtask[w] IN
  /\ wpc[w] = "acking"
  /\ processing' = RemoveId(processing, t)
  /\ pending' = pending \ {IpOf[t]}
  /\ started' = [started EXCEPT ![t] = NotStarted]
  /\ acked' = IF InProcessing(t) THEN acked \cup {t} ELSE acked
  /\ strayed' = IF ~InProcessing(t) /\ IpOf[t] \in pending
                  THEN strayed \cup {IpOf[t]} ELSE strayed
  /\ wpc' = [wpc EXCEPT ![w] = "idle"]
  /\ wtask' = [wtask EXCEPT ![w] = NoTask]
  /\ UNCHANGED <<queue, dead, requests, janitors, analyzer>>

\* The crawler process dies (a Spot instance is reclaimed, a panic in the
\* crawl goroutine): what the goroutine held is gone, Redis is as it was.
CrashWorker(w) ==
  /\ wpc[w] \in Faults
  /\ wpc' = [wpc EXCEPT ![w] = "idle"]
  /\ wtask' = [wtask EXCEPT ![w] = NoTask]
  /\ UNCHANGED <<redis, requests, janitors, analyzer, history>>

-----------------------------------------------------------------------------
(* RescueStuckTasks, called by janitorLoop and startStuckTaskCleanup.      *)

Idle(j) ==
  /\ jpc' = [jpc EXCEPT ![j] = "idle"]
  /\ jseen' = [jseen EXCEPT ![j] = Nothing]
  /\ jraws' = [jraws EXCEPT ![j] = << >>]
  /\ jstuck' = [jstuck EXCEPT ![j] = {}]
  /\ jorphans' = [jorphans EXCEPT ![j] = {}]

\* HGETALL of the started hash; an empty hash ends the call.
JanitorHGetAll(j) ==
  /\ jpc[j] = "idle"
  /\ j = Analyzer => apc = "up"
  /\ \E t \in Tasks : started[t] # NotStarted
  /\ jpc' = [jpc EXCEPT ![j] = "list"]
  /\ jseen' = [jseen EXCEPT ![j] = started]
  /\ UNCHANGED <<redis, requests, workers, jraws, jstuck, jorphans, analyzer,
                 history>>

\* Mutant: only entries without a record are ever found stuck.
OverThreshold_UnrecordedOnly(j, e) ==
  jseen[j][e.id] = NotStarted /\ createdAt[e.id] > Timeout[j]

\* Over the threshold: by the start time the HGETALL returned, by CreatedAt if
\* it returned none.
OverThreshold(j, e) ==
  LET age == IF jseen[j][e.id] = NotStarted THEN createdAt[e.id]
                                            ELSE jseen[j][e.id]
  IN  age > Timeout[j]

\* LRANGE of the processing list, with the reading of the clock that follows.
JanitorLRange(j) ==
  LET stuck == {e \in ToSet(processing) : OverThreshold(j, e)} IN
  /\ jpc[j] = "list"
  /\ \/ /\ processing = << >>
        /\ jpc' = [jpc EXCEPT ![j] = "clean"]
        /\ jorphans' = [jorphans EXCEPT ![j] =
                          {t \in Tasks : jseen[j][t] # NotStarted}]
        /\ UNCHANGED <<jraws, jstuck>>
     \/ /\ stuck # {}
        /\ jpc' = [jpc EXCEPT ![j] = "rescue"]
        /\ jraws' = [jraws EXCEPT ![j] = processing]
        /\ jstuck' = [jstuck EXCEPT ![j] = stuck]
        /\ UNCHANGED jorphans
     \/ /\ processing # << >> /\ stuck = {}
        /\ jpc' = [jpc EXCEPT ![j] = "idle"]
        /\ UNCHANGED <<jraws, jstuck, jorphans>>
  /\ jseen' = [jseen EXCEPT ![j] = Nothing]
  /\ UNCHANGED <<redis, requests, workers, analyzer, history>>

\* What the mutants of the rescue script below share.
Requeue(raw, buried) ==
  /\ queue' = IF buried THEN queue ELSE Cons([raw EXCEPT !.retry = @ + 1], queue)
  /\ dead' = IF buried THEN Cons([raw EXCEPT !.retry = @ + 1], dead) ELSE dead
  /\ processing' = RemoveFirst(processing, raw)
  /\ started' = [started EXCEPT ![raw.id] = NotStarted]

\* Mutant: the script does not look at what LREM returned.
Rescue_Unchecked(raw) ==
  LET buried == raw.retry + 1 > MaxRetries IN
  /\ Requeue(raw, buried)
  /\ pending' = IF buried THEN pending \ {IpOf[raw.id]} ELSE pending

\* Mutant: no SREM for a task that is buried.
Rescue_KeepsPending(raw) ==
  /\ IF raw \in ToSet(processing) THEN Requeue(raw, raw.retry + 1 > MaxRetries)
       ELSE UNCHANGED <<queue, processing, dead, started>>
  /\ UNCHANGED pending

\* Mutant: the SREM comes before the retries are looked at.
Rescue_DropsPending(raw) ==
  IF raw \in ToSet(processing)
    THEN /\ Requeue(raw, raw.retry + 1 > MaxRetries)
         /\ pending' = pending \ {IpOf[raw.id]}
    ELSE UNCHANGED redis

\* Mutant: the retries are compared before they are counted.
Rescue_OneMore(raw) ==
  LET buried == raw.retry > MaxRetries IN
  IF raw \in ToSet(processing)
    THEN /\ Requeue(raw, buried)
         /\ pending' = IF buried THEN pending \ {IpOf[raw.id]} ELSE pending
    ELSE UNCHANGED redis

\* rescueScript: only what the LREM really removed is requeued with one more
\* retry, or buried once the retries are used up.
Rescue(raw) ==
  LET again == [raw EXCEPT !.retry = @ + 1] IN
  IF raw \in ToSet(processing)
    THEN /\ processing' = RemoveFirst(processing, raw)
         /\ IF again.retry > MaxRetries
              THEN /\ dead' = Cons(again, dead)
                   /\ pending' = pending \ {IpOf[raw.id]}
                   /\ UNCHANGED queue
              ELSE /\ queue' = Cons(again, queue)
                   /\ UNCHANGED <<dead, pending>>
         /\ started' = [started EXCEPT ![raw.id] = NotStarted]
    ELSE UNCHANGED redis

\* One turn of the loop over the LRANGE reply.
JanitorRescue(j) ==
  LET raw == Head(jraws[j]) IN
  /\ jpc[j] = "rescue"
  /\ IF raw \in jstuck[j] THEN Rescue(raw) ELSE UNCHANGED redis
  /\ IF Len(jraws[j]) = 1
       THEN Idle(j)
       ELSE /\ jraws' = [jraws EXCEPT ![j] = Tail(@)]
            /\ UNCHANGED <<jpc, jseen, jstuck, jorphans>>
  /\ UNCHANGED <<requests, workers, analyzer, history>>

\* processing was empty: one HDEL per field of the HGETALL reply, in the
\* random order of a Go map.
JanitorClean(j, t) ==
  /\ jpc[j] = "clean"
  /\ t \in jorphans[j]
  /\ started' = [started EXCEPT ![t] = NotStarted]
  /\ IF jorphans[j] = {t}
       THEN Idle(j)
       ELSE /\ jorphans' = [jorphans EXCEPT ![j] = @ \ {t}]
            /\ UNCHANGED <<jpc, jseen, jraws, jstuck>>
  /\ UNCHANGED <<queue, processing, dead, pending, requests, workers, analyzer,
                 history>>

-----------------------------------------------------------------------------
(* The analyzer's start: RecoverOrphanedTasks, then scheduler and janitor. *)

\* Mutant: the entry is copied, not moved.
RecoverMove_Copies ==
  /\ apc = "recover" /\ processing # << >>
  /\ queue' = Cons(Last(processing), queue)
  /\ processing' = processing
  /\ apc' = "hdel" /\ rtask' = Last(processing).id
  /\ UNCHANGED <<dead, pending, started, requests, workers, janitors, restarts,
                 history>>

\* RPOPLPUSH, tail of processing to the head of the queue.  The retry count
\* stays as it is.
RecoverMove ==
  /\ apc = "recover"
  /\ processing # << >>
  /\ queue' = Cons(Last(processing), queue)
  /\ processing' = Front(processing)
  /\ apc' = "hdel"
  /\ rtask' = Last(processing).id
  /\ UNCHANGED <<dead, pending, started, requests, workers, janitors, restarts,
                 history>>

\* The HDEL of the start time, a command of its own.
RecoverHDel ==
  /\ apc = "hdel"
  /\ started' = [started EXCEPT ![rtask] = NotStarted]
  /\ apc' = "recover"
  /\ rtask' = NoTask
  /\ UNCHANGED <<queue, processing, dead, pending, requests, workers, janitors,
                 restarts, history>>

\* processing is empty: Start goes on to its loops.
RecoverDone ==
  /\ apc = "recover"
  /\ processing = << >>
  /\ apc' = "up"
  /\ UNCHANGED <<redis, requests, workers, janitors, rtask, restarts, history>>

\* The analyzer process stops, at any point, and is started again while the
\* crawlers go on.
RestartAnalyzer ==
  /\ restarts < MaxRestarts
  /\ restarts' = restarts + 1
  /\ apc' = "recover"
  /\ rtask' = NoTask
  /\ Idle(Analyzer)
  /\ UNCHANGED <<redis, requests, workers, history>>

-----------------------------------------------------------------------------

Older(age) == IF age = NotStarted \/ age = MaxAge THEN age ELSE age + 1

\* Time passes, for every timestamp that some later step still compares.
Tick ==
  /\ started' = [t \in Tasks |-> Older(started[t])]
  /\ createdAt' = [t \in Tasks |-> IF t \in pushed THEN Older(createdAt[t]) ELSE 0]
  /\ jseen' = [j \in Janitors |-> [t \in Tasks |-> Older(jseen[j][t])]]
  /\ UNCHANGED <<queue, processing, dead, pending, pushed, workers, jpc, jraws,
                 jstuck, jorphans, analyzer, history>>

Crawler(w) == PopTask(w) \/ RecordStart(w) \/ FinishCrawl(w) \/ TimeoutTask(w)
                \/ AckTask(w)
Janitor(j) == JanitorHGetAll(j) \/ JanitorLRange(j) \/ JanitorRescue(j)
                \/ \E t \in Tasks : JanitorClean(j, t)
Recovery   == RecoverMove \/ RecoverHDel \/ RecoverDone

Next ==
  \/ \E t \in Tasks : PushTask(t)
  \/ \E w \in Workers : Crawler(w) \/ LoseStart(w) \/ CrashWorker(w)
  \/ \E j \in Janitors : Janitor(j)
  \/ Recovery
  \/ RestartAnalyzer
  \/ Tick

Spec == Init /\ [][Next]_vars

\* The goroutines, tickers and the clock keep going.  Nothing obliges a crawl
\* to succeed, a process to die or the scheduler to push.
Fairness ==
  /\ \A w \in Workers : WF_vars(Crawler(w))
  /\ \A j \in Janitors : WF_vars(Janitor(j))
  /\ WF_vars(Recovery)
  /\ WF_vars(Tick)

FairSpec == Spec /\ Fairness

-----------------------------------------------------------------------------
(* What the queue promises.                                                *)

\* Whatever the crawlers, the janitors and the recovery do to each other, a
\* task accepted by PushTask is in exactly one place, once: waiting, being
\* processed, dead-lettered, or acknowledged.  It is neither lost nor doubled
\* (the rescue script's "only if LREM removed it").
TaskConservation ==
  /\ pushed = Ids(queue) \cup Ids(processing) \cup Ids(dead) \cup acked
  /\ OneEntryPerId(queue) /\ OneEntryPerId(processing) /\ OneEntryPerId(dead)
  /\ Ids(queue) \cap (Ids(processing) \cup Ids(dead) \cup acked) = {}
  /\ Ids(processing) \cap (Ids(dead) \cup acked) = {}
  /\ Ids(dead) \cap acked = {}

\* An IP is marked pending only while one of its tasks waits or is processed.
\* A mark that outlived its task would keep PushTask returning ErrTaskExists,
\* which the scheduler takes for success: the IP would never be crawled again.
PendingBacked ==
  \A ip \in pending : \E e \in Live : IpOf[e.id] = ip

\* PushTask's deduplication is exact for every IP whose pending mark was never
\* taken by an AckTask that found no entry to remove: the IP is marked exactly
\* while it has a task, and it never has two.
DedupUnlessStrayed ==
  \A e \in Live : IpOf[e.id] \notin strayed =>
     /\ IpOf[e.id] \in pending
     /\ \A f \in Live : IpOf[f.id] = IpOf[e.id] => f = e

\* A task is requeued by the janitors at most MaxRetries times, and reaches the
\* dead-letter list only with that budget used up, however many janitors work
\* from the same stale listing.
RetryBudget ==
  /\ \A e \in Live : e.retry <= MaxRetries
  /\ \A e \in ToSet(dead) : e.retry = MaxRetries + 1

\* No step turns a task's retry count back, as a janitor writing an entry from
\* an old listing would.
RetryNeverReset ==
  [][\A e \in Live, f \in (Live \cup ToSet(dead))' :
        e.id = f.id => f.retry >= e.retry]_vars

LifeCycle ==
  INSTANCE TaskLifeCycle WITH waiting <- ToSet(queue), running <- ToSet(processing),
                              buried <- ToSet(dead), finished <- acked

\* Every Redis command of PushTask, PopTask, AckTask, RescueStuckTasks and
\* RecoverOrphanedTasks is, for the task it touches, one step of the life cycle
\* or none, however the processes interleave: a task starts only from waiting,
\* is retried, buried or finished only from running, and never comes back once
\* it is finished or buried.
KeepsLifeCycle == LifeCycle!Spec

\* A task that is being processed, with its start time recorded, does not stay
\* so for ever: it is acknowledged, rescued, buried or recovered, or the record
\* is gone.
RecordedTaskMovesOn ==
  \A t \in Tasks :
    LET held == InProcessing(t) /\ started[t] # NotStarted
    IN  held ~> ~held
=============================================================================
