---------------------------- MODULE MCTaskQueue ----------------------------
(* Small instances of TaskQueue.                                           *)
EXTENDS TaskQueue, FiniteSets, TLC

CONSTANTS a1, a2, b1, ipA, ipB

\* Two tasks of one IP and, in the larger instances, one of another.
MCIpOf == [t \in Tasks |-> IF t = b1 THEN ipB ELSE ipA]

\* Every janitor calls a task stuck as soon as it is older than one tick.
MCTimeout == [j \in Janitors |-> 0]

\* Semaphore slots are interchangeable.
SlotSymmetry == Permutations(Workers)
=============================================================================
