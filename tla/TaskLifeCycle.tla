--------------------------- MODULE TaskLifeCycle ---------------------------
(***************************************************************************)
(* What the task queue and the result queue promise their users, with no   *)
(* lists, start times, janitors or processes: a copy of a task (or of a    *)
(* result), an id with the number of times it was tried again, is waiting or *)
(* running; it finishes once, and it is buried when, and only when,        *)
(* MaxRetries retries did not finish it.                                   *)
(***************************************************************************)
EXTENDS Integers

CONSTANTS Tasks, MaxRetries

VARIABLES
  waiting,    \* copies that a crawler (or a pipeline worker) may take
  running,    \* copies that were taken
  buried,     \* copies that were given up
  finished    \* ids that were acknowledged

vars == <<waiting, running, buried, finished>>

Known == {e.id : e \in waiting \cup running \cup buried} \cup finished

Init == waiting = {} /\ running = {} /\ buried = {} /\ finished = {}

\* A task is accepted once.
Submit(t) ==
  /\ t \notin Known
  /\ waiting' = waiting \cup {[id |-> t, retry |-> 0]}
  /\ UNCHANGED <<running, buried, finished>>

Start(e) ==
  /\ waiting' = waiting \ {e}
  /\ running' = running \cup {e}
  /\ UNCHANGED <<buried, finished>>

\* Whether the crawl went well or not, an acknowledged task is over.
Finish(e) ==
  /\ running' = running \ {e}
  /\ finished' = finished \cup {e.id}
  /\ UNCHANGED <<waiting, buried>>

\* The analyzer starts: not a retry.
Recover(e) ==
  /\ running' = running \ {e}
  /\ waiting' = waiting \cup {e}
  /\ UNCHANGED <<buried, finished>>

Retry(e) ==
  /\ e.retry < MaxRetries
  /\ running' = running \ {e}
  /\ waiting' = waiting \cup {[e EXCEPT !.retry = @ + 1]}
  /\ UNCHANGED <<buried, finished>>

Bury(e) ==
  /\ e.retry = MaxRetries
  /\ running' = running \ {e}
  /\ buried' = buried \cup {[e EXCEPT !.retry = @ + 1]}
  /\ UNCHANGED <<waiting, finished>>

Next ==
  \/ \E t \in Tasks : Submit(t)
  \/ \E e \in waiting : Start(e)
  \/ \E e \in running : Finish(e) \/ Recover(e) \/ Retry(e) \/ Bury(e)

Spec == Init /\ [][Next]_vars
=============================================================================
