------------------------------ MODULE Intervals ------------------------------
(***************************************************************************)
(* The arithmetic that turns an IP's weight into a crawl interval and back:*)
(* CalculateInterval of internal/config, the interval adjuster of          *)
(* internal/analyzer and the slot alignment of its pipeline.               *)
(*                                                                         *)
(* A stored weight is an integer number of hundredths, because the column  *)
(* ip_metadata.weight is DECIMAL(5,2).  Intervals of the adjuster are in   *)
(* minutes, as in the code; times and durations of the scheduler are in    *)
(* units of which Sub make a minute (60 for Unix seconds).                 *)
(***************************************************************************)
EXTENDS Integers

CONSTANTS
  BaseInterval,  \* minutes
  MinInterval,   \* minutes
  MaxInterval,   \* minutes
  Sub,           \* units of time per minute
  PagesOnSale,
  PagesSold,
  ScheduleSlot   \* units of time; 0: no alignment

ASSUME IntervalAssumption ==
  /\ BaseInterval \in Nat \ {0} /\ MinInterval \in Nat \ {0}
  /\ MaxInterval \in Nat \ {0} /\ Sub \in Nat \ {0}
  /\ MinInterval =< BaseInterval /\ BaseInterval =< MaxInterval
  /\ PagesOnSale \in Nat /\ PagesSold \in Nat
  /\ ScheduleSlot \in Nat

One == 100   \* the weight 1.00

\* math.Round of num/den for positive arguments
Round(num, den) == (2 * num + den) \div (2 * den)

Positive(w) == IF w =< 0 THEN One ELSE w

\* Mutant: no upper limit.
Clamp_LowerOnly(d) == IF d < MinInterval * Sub THEN MinInterval * Sub ELSE d

Clamp(d) ==
  IF d < MinInterval * Sub THEN MinInterval * Sub
  ELSE IF d > MaxInterval * Sub THEN MaxInterval * Sub
  ELSE d

CalculateInterval(w) == Clamp((BaseInterval * Sub * 100) \div Positive(w))
-----------------------------------------------------------------------------
ActiveStep == 15
ColdStep == 15
RegressStep == 5

Pages(n) == IF n =< 0 THEN 3 ELSE n
ActiveInflow == 100 * Pages(PagesOnSale)
ActiveOutflow == 100 * Pages(PagesSold)
ColdInflow == 50 * Pages(PagesOnSale)
ColdOutflow == 3 * Pages(PagesSold)

WeightToIntervalMinutes(w) == Round(BaseInterval * 100, Positive(w))

\* What the DECIMAL(5,2) column keeps of intervalMinutesToWeight(m).
IntervalMinutesToWeight(m) ==
  Round(BaseInterval * 100, IF m =< 0 THEN BaseInterval ELSE m)

DetermineAdjustment(inflow, outflow, cur) ==
  IF inflow > ActiveInflow \/ outflow > ActiveOutflow THEN "active"
  ELSE IF inflow < ColdInflow /\ outflow < ColdOutflow THEN "cold"
  ELSE IF cur /= BaseInterval THEN "regress"
  ELSE "none"

AtLeast(m, lo) == IF m < lo THEN lo ELSE m
AtMost(m, hi) == IF m > hi THEN hi ELSE m

\* Mutant: no lower limit.
CalculateNewInterval_NoFloor(cur, type) ==
  IF type = "active" THEN cur - ActiveStep
  ELSE IF type = "cold" THEN AtMost(cur + ColdStep, MaxInterval)
  ELSE IF type = "regress" THEN
    (IF cur < BaseInterval THEN AtMost(cur + RegressStep, BaseInterval)
                           ELSE AtLeast(cur - RegressStep, BaseInterval))
  ELSE cur

\* Mutant: the step back to the base may go past it.
CalculateNewInterval_Overshoots(cur, type) ==
  IF type = "active" THEN AtLeast(cur - ActiveStep, MinInterval)
  ELSE IF type = "cold" THEN AtMost(cur + ColdStep, MaxInterval)
  ELSE IF type = "regress" THEN
    (IF cur < BaseInterval THEN cur + RegressStep ELSE cur - RegressStep)
  ELSE cur

CalculateNewInterval(cur, type) ==
  IF type = "active" THEN AtLeast(cur - ActiveStep, MinInterval)
  ELSE IF type = "cold" THEN AtMost(cur + ColdStep, MaxInterval)
  ELSE IF type = "regress" THEN
    (IF cur < BaseInterval THEN AtMost(cur + RegressStep, BaseInterval)
                           ELSE AtLeast(cur - RegressStep, BaseInterval))
  ELSE cur

AlignToSlot(t) ==
  IF ScheduleSlot = 0 \/ (t % ScheduleSlot) = 0 THEN t
  ELSE t - (t % ScheduleSlot) + ScheduleSlot
=============================================================================
