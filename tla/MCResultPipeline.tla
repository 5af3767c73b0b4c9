-------------------------- MODULE MCResultPipeline --------------------------
(***************************************************************************)
(* Small instances of ResultPipeline.  Task t1 is crawled twice (the first *)
(* crawl outlived its timeout or the janitor's patience), t0 and t2 once.  *)
(***************************************************************************)
EXTENDS ResultPipeline, TLC

CONSTANTS r0, r1, r2, r3, x, y

See(i, s) == [item |-> i, status |-> s]

MCTaskOf == [r \in Results |-> IF r = r0 THEN "t0" ELSE IF r = r3 THEN "t2" ELSE "t1"]

\* r1 and r2 show the same item on sale, r2 another one as well; r3 shows the
\* first one sold, r0 only the other one.
MCSightings ==
  [r \in Results |->
     CASE r = r0 -> <<See(y, "available")>>
       [] r = r1 -> <<See(x, "available")>>
       [] r = r2 -> <<See(x, "available"), See(y, "available")>>
       [] r = r3 -> <<See(x, "sold")>>]

WorkerSymmetry == Permutations(Workers)
=============================================================================
