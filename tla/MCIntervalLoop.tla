---------------------------- MODULE MCIntervalLoop ----------------------------
(* Instance of IntervalLoop for TLC: weights that are negative, beyond     *)
(* either end of the interval range, and off the minute grid.              *)
EXTENDS IntervalLoop

MCApiWeights == {-1, 50, 99, 1000}
=============================================================================
