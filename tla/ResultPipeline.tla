--------------------------- MODULE ResultPipeline ---------------------------
(***************************************************************************)
(* The result queue of internal/pkg/redisqueue and the analyzer's pipeline *)
(* that consumes it: PopResult, the idempotency check, the item state      *)
(* machine, the hourly statistics, MarkProcessed and AckResult, with the   *)
(* janitor's RescueStuckResults and the start-up recovery beside them.     *)
(*                                                                         *)
(* All results are of one IP: the item hashes and the statistics row are   *)
(* per IP, so results of different IPs only share the queue.  Ages stand   *)
(* for timestamps as in TaskQueue.                                         *)
(***************************************************************************)
EXTENDS EntryLists, FiniteSets, FiniteSetsExt

CONSTANTS
  Results,      \* the CrawlResponses the crawlers may push
  TaskOf,       \* TaskId of each; a task that is crawled again has several
  Failed,       \* those with an ErrorMessage other than "no_items"
  Sightings,    \* Items of each: a sequence of [item, status]
  Items,
  Workers,      \* pipeline worker goroutines
  Timeout,      \* JanitorTimeout
  MaxAge,       \* ages saturate here
  MaxRetries,   \* DefaultMaxRetries
  Faults,       \* the steps at which Redis or MySQL may return an error
  MaxRestarts   \* bound: how often the analyzer is restarted

Tasks    == {TaskOf[r] : r \in Results}
Statuses == {"available", "sold"}
Sighting == [item : Items, status : Statuses]

ASSUME ResultAssumption ==
  /\ DOMAIN TaskOf = Results
  /\ Failed \subseteq Results
  /\ Sightings \in [Results -> Seq(Sighting)]
ASSUME PipelineBounds ==
  /\ Timeout \in Nat /\ MaxAge \in Nat /\ Timeout < MaxAge
  /\ MaxRetries \in Nat /\ MaxRestarts \in Nat
  /\ Faults \subseteq {"start", "check", "count", "items", "stats", "mark", "ack"}

VARIABLES
  \* Redis
  results,      \* list animetop:queue:results, head first
  processing,   \* list animetop:queue:results:processing, head first
  dead,         \* list animetop:queue:results:dead
  started,      \* hash animetop:queue:results:started, by task, as ages
  processed,    \* set animetop:processed
  item,         \* status field of the hash animetop:item:<ip>:<item>
  \* MySQL: what each item has added to SUM(inflow) and SUM(outflow)
  inflow, outflow,
  \* the results themselves
  pushed,
  crawledAt,    \* CrawlResponse.CrawledAt, as ages
  \* pipeline workers
  wpc, wres,    \* where processOne is, and with which result
  wfirst,       \* isFirstCrawl
  wold,         \* the HGETALL replies
  wleft,        \* the sightings still to be written
  \* the analyzer process
  apc,          \* "recover", "hdel" or "up"
  rtask,        \* the task whose started field the recovery deletes next
  jpc, jseen, jraws, jstuck, jorphans,   \* RescueStuckResults, as in TaskQueue
  restarts,
  \* history, read by no action
  removed,      \* results an AckResult took out of processing
  finished,     \* tasks of which processResult returned nil for some result
  turned        \* items whose hash went from available to sold

lists     == <<results, processing, dead>>
store     == <<item, inflow, outflow>>
sent      == <<pushed, crawledAt>>
workers   == <<wpc, wres, wfirst, wold, wleft>>
janitor   == <<jpc, jseen, jraws, jstuck, jorphans>>
analyzer  == <<apc, rtask, restarts>>
history   == <<removed, finished, turned>>
vars      == <<lists, started, processed, store, sent, workers, janitor,
               analyzer, history>>

None       == "none"
NotStarted == -1
Ages       == 0..MaxAge
Entry      == [id : Results, retry : Nat]
Nothing    == [t \in Tasks |-> NotStarted]
Unread     == [i \in Items |-> None]

Steps == {"idle", "popped", "check", "count", "read", "write", "stats", "mark",
          "ack"}

TypeOK ==
  /\ results \in Seq(Entry) /\ processing \in Seq(Entry) /\ dead \in Seq(Entry)
  /\ started \in [Tasks -> Ages \cup {NotStarted}]
  /\ processed \subseteq Tasks
  /\ item \in [Items -> Statuses \cup {None}]
  /\ inflow \in [Items -> Nat] /\ outflow \in [Items -> Nat]
  /\ pushed \subseteq Results
  /\ crawledAt \in [Results -> Ages]
  /\ wpc \in [Workers -> Steps]
  /\ wres \in [Workers -> Results \cup {None}]
  /\ \A w \in Workers : wpc[w] # "idle" => wres[w] \in Results
  /\ wfirst \in [Workers -> BOOLEAN]
  /\ wold \in [Workers -> [Items -> Statuses \cup {None}]]
  /\ wleft \in [Workers -> Seq(Sighting)]
  /\ apc \in {"recover", "hdel", "up"}
  /\ rtask \in Tasks \cup {None}
  /\ apc = "hdel" => rtask \in Tasks
  /\ jpc \in {"idle", "list", "rescue", "clean"}
  /\ jseen \in [Tasks -> Ages \cup {NotStarted}]
  /\ jpc = "rescue" => jraws # << >>
  /\ jraws \in Seq(Entry) /\ jstuck \subseteq Entry /\ jorphans \subseteq Tasks
  /\ restarts \in 0..MaxRestarts
  /\ removed \subseteq Results /\ finished \subseteq Tasks
  /\ turned \subseteq Items

Rest ==
  /\ wpc' = [w \in Workers |-> "idle"]
  /\ wres' = [w \in Workers |-> None]
  /\ wfirst' = [w \in Workers |-> FALSE]
  /\ wold' = [w \in Workers |-> Unread]
  /\ wleft' = [w \in Workers |-> << >>]

Init ==
  /\ results = << >> /\ processing = << >> /\ dead = << >>
  /\ started = Nothing /\ processed = {}
  /\ item = Unread
  /\ inflow = [i \in Items |-> 0] /\ outflow = [i \in Items |-> 0]
  /\ pushed = {} /\ crawledAt = [r \in Results |-> 0]
  /\ wpc = [w \in Workers |-> "idle"] /\ wres = [w \in Workers |-> None]
  /\ wfirst = [w \in Workers |-> FALSE] /\ wold = [w \in Workers |-> Unread]
  /\ wleft = [w \in Workers |-> << >>]
  /\ apc = "recover" /\ rtask = None
  /\ jpc = "idle" /\ jseen = Nothing /\ jraws = << >> /\ jstuck = {}
  /\ jorphans = {} /\ restarts = 0
  /\ removed = {} /\ finished = {} /\ turned = {}

-----------------------------------------------------------------------------
(* The crawler's side.                                                     *)

PushResult(r) ==
  /\ r \notin pushed
  /\ results' = Cons([id |-> r, retry |-> 0], results)
  /\ pushed' = pushed \cup {r}
  /\ UNCHANGED <<processing, dead, started, processed, store, crawledAt, workers,
                 janitor, analyzer, history>>

-----------------------------------------------------------------------------
(* processOne, step by step.                                               *)

Go(w, from, to) == wpc[w] = from /\ wpc' = [wpc EXCEPT ![w] = to]

\* The worker is done with its result: what it had read is forgotten.
Release(w) ==
  /\ wpc' = [wpc EXCEPT ![w] = "idle"]
  /\ wres' = [wres EXCEPT ![w] = None]
  /\ wfirst' = [wfirst EXCEPT ![w] = FALSE]
  /\ wold' = [wold EXCEPT ![w] = Unread]
  /\ wleft' = [wleft EXCEPT ![w] = << >>]

\* PopResult's BRPOPLPUSH.
PopResult(w) ==
  /\ apc = "up"
  /\ Go(w, "idle", "popped")
  /\ results # << >>
  /\ processing' = Cons(Last(results), processing)
  /\ results' = Front(results)
  /\ wres' = [wres EXCEPT ![w] = Last(results).id]
  /\ UNCHANGED <<dead, started, processed, store, sent, wfirst, wold, wleft,
                 janitor, analyzer, history>>

\* PopResult's HSET of the start time; its error is ignored.
RecordStart(w) ==
  /\ Go(w, "popped", "check")
  /\ \/ started' = [started EXCEPT ![TaskOf[wres[w]]] = 0]
     \/ "start" \in Faults /\ UNCHANGED started
  /\ UNCHANGED <<lists, processed, store, sent, wres, wfirst, wold, wleft,
                 janitor, analyzer, history>>

\* Mutant: a task is marked when its result is taken up, not when it is done.
CheckProcessed_MarksFirst(w) ==
  LET r == wres[w] IN
  /\ wpc[w] = "check"
  /\ \/ TaskOf[r] \in processed /\ Go(w, "check", "ack") /\ UNCHANGED processed
     \/ /\ TaskOf[r] \notin processed /\ r \notin Failed
        /\ Go(w, "check", "count")
        /\ processed' = processed \cup {TaskOf[r]}
  /\ UNCHANGED <<lists, started, store, sent, wres, wfirst, wold, wleft, janitor,
                 analyzer, history>>

\* IsProcessed: a task already processed is acknowledged and skipped; if the
\* SISMEMBER fails the result is processed as if new.  A result with an error
\* message counts as processed, and nothing is done with it.
CheckProcessed(w) ==
  LET r == wres[w]
      fresh == TaskOf[r] \notin processed \/ "check" \in Faults
  IN
  /\ wpc[w] = "check"
  /\ \/ TaskOf[r] \in processed /\ Go(w, "check", "ack") /\ UNCHANGED finished
     \/ /\ fresh /\ r \in Failed
        /\ Go(w, "check", "mark")
        /\ finished' = finished \cup {TaskOf[r]}
     \/ /\ fresh /\ r \notin Failed
        /\ Go(w, "check", "count")
        /\ UNCHANGED finished
  /\ UNCHANGED <<lists, started, processed, store, sent, wres, wfirst, wold,
                 wleft, janitor, analyzer, removed, turned>>

\* GetItemCount: the first crawl of an IP is one that finds no item hash.  If
\* the SCAN fails the crawl is not taken for the first.
CountItems(w) ==
  /\ Go(w, "count", "read")
  /\ \/ wfirst' = [wfirst EXCEPT ![w] = \A i \in Items : item[i] = None]
     \/ "count" \in Faults /\ UNCHANGED wfirst
  /\ UNCHANGED <<lists, started, processed, store, sent, wres, wold, wleft,
                 janitor, analyzer, history>>

\* ProcessItemsBatch, HGETALL of every item sighted.
ReadStates(w) ==
  /\ Go(w, "read", "write")
  /\ wold' = [wold EXCEPT ![w] = item]
  /\ wleft' = [wleft EXCEPT ![w] = Sightings[wres[w]]]
  /\ UNCHANGED <<lists, started, processed, store, sent, wres, wfirst, janitor,
                 analyzer, history>>

\* ProcessItemsBatch, HSET of one item; the pipeline is no transaction.
WriteState(w) ==
  LET s == Head(wleft[w]) IN
  /\ wpc[w] = "write" /\ wleft[w] # << >>
  /\ item' = [item EXCEPT ![s.item] = s.status]
  /\ wleft' = [wleft EXCEPT ![w] = Tail(@)]
  /\ turned' = IF item[s.item] = "available" /\ s.status = "sold"
                 THEN turned \cup {s.item} ELSE turned
  /\ UNCHANGED <<lists, started, processed, inflow, outflow, sent, wpc, wres,
                 wfirst, wold, janitor, analyzer, removed, finished>>

WritesDone(w) ==
  /\ Go(w, "write", "stats") /\ wleft[w] = << >>
  /\ UNCHANGED <<lists, started, processed, store, sent, wres, wfirst, wold,
                 wleft, janitor, analyzer, history>>

\* Mutant: the old state is not looked at.
NewListing_AnyOld(old, s) == s.status = "available"

\* determineTransition and SummarizeTransitions: every sighting is compared with
\* the state read before any of them was written.
NewListing(old, s) == old = None /\ s.status = "available"
NewlySold(old, s)  == old # "sold" /\ s.status = "sold"

SightingsOf(w, i) ==
  {k \in DOMAIN Sightings[wres[w]] : Sightings[wres[w]][k].item = i}
Listings(w, i) ==
  Cardinality({k \in SightingsOf(w, i) : NewListing(wold[w][i], Sightings[wres[w]][k])})
Sales(w, i) ==
  Cardinality({k \in SightingsOf(w, i) : NewlySold(wold[w][i], Sightings[wres[w]][k])})

\* AggregateHourlyStats: inflow and outflow are added to the row, unless this
\* was the first crawl.  What follows in processResult (alerts, last crawl
\* time, interval, schedule, cache) never makes it fail.
UpsertStats(w) ==
  /\ Go(w, "stats", "mark")
  /\ IF wfirst[w]
       THEN UNCHANGED <<inflow, outflow>>
       ELSE /\ inflow' = [i \in Items |-> inflow[i] + Listings(w, i)]
            /\ outflow' = [i \in Items |-> outflow[i] + Sales(w, i)]
  /\ finished' = finished \cup {TaskOf[wres[w]]}
  /\ UNCHANGED <<lists, started, processed, item, sent, wres, wfirst, wold,
                 wleft, janitor, analyzer, removed, turned>>

\* ProcessItemsBatch or AggregateHourlyStats returned an error: processOne
\* leaves the result in processing, for the janitor.
ProcessFails(w) ==
  /\ \/ wpc[w] \in {"read", "write"} /\ "items" \in Faults
     \/ wpc[w] = "stats" /\ "stats" \in Faults
  /\ Release(w)
  /\ UNCHANGED <<lists, started, processed, store, sent, janitor, analyzer,
                 history>>

\* MarkProcessed; its error is ignored.
MarkProcessed(w) ==
  /\ Go(w, "mark", "ack")
  /\ \/ processed' = processed \cup {TaskOf[wres[w]]}
     \/ "mark" \in Faults /\ UNCHANGED processed
  /\ UNCHANGED <<lists, started, store, sent, wres, wfirst, wold, wleft, janitor,
                 analyzer, history>>

\* ackResultScript: the first result of that task goes, whichever it is, and
\* with it the task's start time.
AckResult(w) ==
  LET t == TaskOf[wres[w]]
      same == {k \in DOMAIN processing : TaskOf[processing[k].id] = t}
  IN
  /\ wpc[w] = "ack"
  /\ IF same = {}
       THEN UNCHANGED <<processing, removed>>
       ELSE /\ processing' = RemoveAt(processing, Min(same))
            /\ removed' = removed \cup {processing[Min(same)].id}
  /\ started' = [started EXCEPT ![t] = NotStarted]
  /\ Release(w)
  /\ UNCHANGED <<results, dead, processed, store, sent, janitor, analyzer,
                 finished, turned>>

\* The script could not be run; the result stays in processing.
AckFails(w) ==
  /\ wpc[w] = "ack" /\ "ack" \in Faults
  /\ Release(w)
  /\ UNCHANGED <<lists, started, processed, store, sent, janitor, analyzer,
                 history>>

-----------------------------------------------------------------------------
(* RescueStuckResults, called by the analyzer's janitorLoop alone.         *)

JanitorIdle ==
  /\ jpc' = "idle" /\ jseen' = Nothing /\ jraws' = << >> /\ jstuck' = {}
  /\ jorphans' = {}

JanitorHGetAll ==
  /\ apc = "up" /\ jpc = "idle"
  /\ started # Nothing
  /\ jpc' = "list"
  /\ jseen' = started
  /\ UNCHANGED <<lists, started, processed, store, sent, workers, jraws, jstuck,
                 jorphans, analyzer, history>>

\* Mutant: only entries without a record are ever found stuck.
OverThreshold_UnrecordedOnly(e) ==
  jseen[TaskOf[e.id]] = NotStarted /\ crawledAt[e.id] > Timeout

\* By the start time the HGETALL returned, by CrawledAt if it returned none.
OverThreshold(e) ==
  LET seen == jseen[TaskOf[e.id]]
  IN  (IF seen = NotStarted THEN crawledAt[e.id] ELSE seen) > Timeout

JanitorLRange ==
  LET stuck == {e \in ToSet(processing) : OverThreshold(e)} IN
  /\ jpc = "list"
  /\ \/ /\ processing = << >>
        /\ jpc' = "clean"
        /\ jorphans' = {t \in Tasks : jseen[t] # NotStarted}
        /\ UNCHANGED <<jraws, jstuck>>
     \/ /\ stuck # {}
        /\ jpc' = "rescue"
        /\ jraws' = processing
        /\ jstuck' = stuck
        /\ UNCHANGED jorphans
     \/ /\ processing # << >> /\ stuck = {}
        /\ jpc' = "idle"
        /\ UNCHANGED <<jraws, jstuck, jorphans>>
  /\ jseen' = Nothing
  /\ UNCHANGED <<lists, started, processed, store, sent, workers, analyzer,
                 history>>

\* rescueResultScript's effect once the LREM has removed raw.
Requeue(raw, buried) ==
  /\ results' = IF buried THEN results ELSE Cons([raw EXCEPT !.retry = @ + 1], results)
  /\ dead' = IF buried THEN Cons([raw EXCEPT !.retry = @ + 1], dead) ELSE dead
  /\ processing' = RemoveFirst(processing, raw)
  /\ started' = [started EXCEPT ![TaskOf[raw.id]] = NotStarted]

\* Mutants: LREM's reply is ignored; the retries are compared before they are
\* counted.
Rescue_Unchecked(raw) == Requeue(raw, raw.retry + 1 > MaxRetries)
Rescue_OneMore(raw) ==
  IF raw \in ToSet(processing) THEN Requeue(raw, raw.retry > MaxRetries)
                               ELSE UNCHANGED <<lists, started>>

\* rescueResultScript.
Rescue(raw) ==
  IF raw \in ToSet(processing) THEN Requeue(raw, raw.retry + 1 > MaxRetries)
                               ELSE UNCHANGED <<lists, started>>

\* Mutant: the loop goes one turn too far.
JanitorRescue_OffByOne ==
  /\ jpc = "rescue"
  /\ IF Head(jraws) \in jstuck THEN Rescue(Head(jraws))
                              ELSE UNCHANGED <<lists, started>>
  /\ IF Len(jraws) = 0
       THEN JanitorIdle
       ELSE jraws' = Tail(jraws) /\ UNCHANGED <<jpc, jseen, jstuck, jorphans>>
  /\ UNCHANGED <<processed, store, sent, workers, analyzer, history>>

\* One turn of the loop over the LRANGE reply.
JanitorRescue ==
  /\ jpc = "rescue"
  /\ IF Head(jraws) \in jstuck THEN Rescue(Head(jraws))
                              ELSE UNCHANGED <<lists, started>>
  /\ IF Len(jraws) = 1
       THEN JanitorIdle
       ELSE jraws' = Tail(jraws) /\ UNCHANGED <<jpc, jseen, jstuck, jorphans>>
  /\ UNCHANGED <<processed, store, sent, workers, analyzer, history>>

JanitorClean(t) ==
  /\ jpc = "clean"
  /\ t \in jorphans
  /\ started' = [started EXCEPT ![t] = NotStarted]
  /\ IF jorphans = {t}
       THEN JanitorIdle
       ELSE jorphans' = jorphans \ {t} /\ UNCHANGED <<jpc, jseen, jraws, jstuck>>
  /\ UNCHANGED <<lists, processed, store, sent, workers, analyzer, history>>

-----------------------------------------------------------------------------
(* Pipeline.Start: RecoverOrphanedResults, then the workers.               *)

RecoverMove ==
  /\ apc = "recover"
  /\ processing # << >>
  /\ results' = Cons(Last(processing), results)
  /\ processing' = Front(processing)
  /\ apc' = "hdel"
  /\ rtask' = TaskOf[Last(processing).id]
  /\ UNCHANGED <<dead, started, processed, store, sent, workers, janitor,
                 restarts, history>>

RecoverHDel ==
  /\ apc = "hdel"
  /\ started' = [started EXCEPT ![rtask] = NotStarted]
  /\ apc' = "recover"
  /\ rtask' = None
  /\ UNCHANGED <<lists, processed, store, sent, workers, janitor, restarts,
                 history>>

RecoverDone ==
  /\ apc = "recover"
  /\ processing = << >>
  /\ apc' = "up"
  /\ UNCHANGED <<lists, started, processed, store, sent, workers, janitor, rtask,
                 restarts, history>>

\* The analyzer, with all its workers and its janitor, dies and is restarted.
RestartAnalyzer ==
  /\ restarts < MaxRestarts
  /\ restarts' = restarts + 1
  /\ apc' = "recover"
  /\ rtask' = None
  /\ Rest
  /\ JanitorIdle
  /\ UNCHANGED <<lists, started, processed, store, sent, history>>

-----------------------------------------------------------------------------

Older(age) == IF age = NotStarted \/ age = MaxAge THEN age ELSE age + 1

Tick ==
  /\ started' = [t \in Tasks |-> Older(started[t])]
  /\ crawledAt' = [r \in Results |-> IF r \in pushed THEN Older(crawledAt[r]) ELSE 0]
  /\ jseen' = [t \in Tasks |-> Older(jseen[t])]
  /\ UNCHANGED <<lists, processed, store, pushed, workers, jpc, jraws, jstuck,
                 jorphans, analyzer, history>>

Worker(w) ==
  \/ PopResult(w) \/ RecordStart(w) \/ CheckProcessed(w) \/ CountItems(w)
  \/ ReadStates(w) \/ WriteState(w) \/ WritesDone(w) \/ UpsertStats(w)
  \/ MarkProcessed(w) \/ AckResult(w)
Janitor  == JanitorHGetAll \/ JanitorLRange \/ JanitorRescue
              \/ \E t \in Tasks : JanitorClean(t)
Recovery == RecoverMove \/ RecoverHDel \/ RecoverDone

Next ==
  \/ \E r \in Results : PushResult(r)
  \/ \E w \in Workers : Worker(w) \/ ProcessFails(w) \/ AckFails(w)
  \/ Janitor
  \/ Recovery
  \/ RestartAnalyzer
  \/ Tick

Spec == Init /\ [][Next]_vars

\* Workers, janitor and clock keep going; nothing has to fail.
Fairness ==
  /\ \A w \in Workers : WF_vars(Worker(w))
  /\ WF_vars(Janitor) /\ WF_vars(Recovery) /\ WF_vars(Tick)

FairSpec == Spec /\ Fairness

-----------------------------------------------------------------------------
(* What the pipeline promises.                                             *)

\* Every result pushed is in exactly one place: waiting, being processed,
\* dead-lettered, or taken out by an AckResult.  AckResult finds its entry by
\* task id only, and two results of one task may be there at once.
ResultConservation ==
  /\ pushed = Ids(results) \cup Ids(processing) \cup Ids(dead) \cup removed
  /\ OneEntryPerId(results) /\ OneEntryPerId(processing) /\ OneEntryPerId(dead)
  /\ Ids(results) \cap (Ids(processing) \cup Ids(dead) \cup removed) = {}
  /\ Ids(processing) \cap (Ids(dead) \cup removed) = {}
  /\ Ids(dead) \cap removed = {}

\* A result leaves Redis only after processResult returned nil for its task, and
\* a task is marked processed only then, so a result that is skipped as already
\* processed is one whose task really was (processOne's order: process, mark,
\* acknowledge).
RemovedOnlyIfFinished ==
  /\ processed \subseteq finished
  /\ \A r \in removed : TaskOf[r] \in finished

\* The janitor requeues a result at most MaxRetries times, and buries it only
\* when they are used up.
RetryBudget ==
  /\ \A e \in ToSet(results) \cup ToSet(processing) : e.retry <= MaxRetries
  /\ \A e \in ToSet(dead) : e.retry = MaxRetries + 1

\* A new listing is counted into inflow at most once, however often the result
\* that shows it is popped, abandoned half way, rescued, recovered or delivered
\* again under the same task: "inflow +1" is for an item seen for the first time.
InflowCountedOnce == \A i \in Items : inflow[i] <= 1

Quiet == /\ results = << >> /\ processing = << >>
         /\ \A w \in Workers : wpc[w] = "idle"

\* An item whose hash went from available to sold has been counted into outflow
\* once no result is left to process: the state machine's record and the
\* statistics agree about the sale.
SalesCounted == Quiet => \A i \in turned : outflow[i] >= 1

LifeCycle ==
  INSTANCE TaskLifeCycle WITH Tasks <- Results, waiting <- ToSet(results),
                              running <- ToSet(processing), buried <- ToSet(dead),
                              finished <- removed

\* Every Redis command of PushResult, PopResult, AckResult, RescueStuckResults and
\* RecoverOrphanedResults is, for the result it touches, one step of the life cycle
\* or none, however workers, janitor and recovery interleave: an acknowledgement
\* by task id takes one result that is being processed and no other, and a result
\* that was acknowledged or dead-lettered never comes back.
KeepsLifeCycle == LifeCycle!Spec

\* A result that is being processed, with its start time recorded, does not stay
\* so for ever: it is acknowledged, rescued or recovered.
RecordedResultMovesOn ==
  \A r \in Results :
    LET held == r \in Ids(processing) /\ started[TaskOf[r]] # NotStarted
    IN  held ~> ~held
=============================================================================
