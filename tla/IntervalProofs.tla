---------------------------- MODULE IntervalProofs ----------------------------
(***************************************************************************)
(* Proof that the feedback loop of IntervalLoop keeps the next crawl       *)
(* between MinInterval and MaxInterval plus less than a slot, for every    *)
(* configuration, every weight the API may store, any number of pipeline   *)
(* workers and any clock.                                                  *)
(* Then, for limits whose weights the column can hold, proof that an       *)
(* adjustment moves the interval in the direction of its type.             *)
(***************************************************************************)
EXTENDS IntervalLoop, TLAPS

Lo == MinInterval * Sub
Hi == MaxInterval * Sub

\* The configured bounds are ordered and positive (SchedulerConfig).
LEMMA BoundsOrdered ==
  /\ Lo \in Nat \ {0} /\ Hi \in Nat \ {0} /\ Lo =< Hi
  /\ BaseInterval * Sub * 100 \in Nat /\ BaseInterval * 100 \in Nat
  <1>1. Lo \in Nat \ {0} /\ Hi \in Nat \ {0}
    BY IntervalAssumption DEF Lo, Hi
  <1>2. MinInterval =< MaxInterval
    BY IntervalAssumption
  <1>3. Lo =< Hi
    BY <1>2, IntervalAssumption DEF Lo, Hi
  <1>4. BaseInterval * Sub * 100 \in Nat /\ BaseInterval * 100 \in Nat
    BY IntervalAssumption
  <1> QED BY <1>1, <1>3, <1>4

\* The two comparisons of CalculateInterval and of phase 3.5 confine any
\* duration, however large or small the weight made it.
LEMMA ClampConfines ==
  ASSUME NEW d \in Int
  PROVE  Clamp(d) \in Lo .. Hi
  BY BoundsOrdered DEF Clamp, Lo, Hi

\* A weight that is zero or negative counts as 1.0 in every conversion.
LEMMA PositiveIsPositive ==
  ASSUME NEW w \in Int
  PROVE  Positive(w) \in Nat \ {0}
  BY DEF Positive, One

\* CalculateInterval is within the configured bounds for every stored weight.
LEMMA IntervalConfined ==
  ASSUME NEW w \in Int
  PROVE  CalculateInterval(w) \in Lo .. Hi
  <1> DEFINE p == Positive(w)
             n == BaseInterval * Sub * 100
  <1>1. p \in Nat \ {0} BY PositiveIsPositive
  <1>2. n \in Nat BY BoundsOrdered
  <1> HIDE DEF p, n
  <1>3. n \div p \in Int BY <1>1, <1>2
  <1>4. Clamp(n \div p) \in Lo .. Hi BY <1>3, ClampConfines
  <1> QED BY <1>4 DEF CalculateInterval, p, n

\* alignToSlot never moves a time back and moves it by less than a slot.
LEMMA AlignForward ==
  ASSUME NEW t \in Nat
  PROVE  /\ AlignToSlot(t) \in Nat
         /\ t =< AlignToSlot(t)
         /\ AlignToSlot(t) =< t + (IF ScheduleSlot = 0 THEN 0 ELSE ScheduleSlot - 1)
  <1>1. CASE ScheduleSlot = 0
    BY <1>1 DEF AlignToSlot
  <1>2. CASE ScheduleSlot /= 0
    <2> DEFINE s == ScheduleSlot
               r == t % s
    <2>1. s \in Nat \ {0} BY <1>2, IntervalAssumption
    <2>2. r \in 0 .. s - 1 /\ r \in Nat
      <3> HIDE DEF s
      <3> QED BY <2>1
    <2>3. AlignToSlot(t) = IF r = 0 THEN t ELSE t - r + s
      BY <1>2 DEF AlignToSlot
    <2>4. r =< t
      <3> HIDE DEF s
      <3> QED BY <2>1
    <2> HIDE DEF r
    <2> QED BY <1>2, <2>1, <2>2, <2>3, <2>4
  <1> QED BY <1>1, <1>2
-----------------------------------------------------------------------------
\* SpacingBounded is not inductive: phase 3.5 uses an interval computed in an
\* earlier step, from a weight read in a still earlier one.
Inv ==
  /\ weight \in Int
  /\ demand \in Demands
  /\ api \in Int
  /\ spacing \in Lo .. Longest
  /\ job \in [Workers -> [pc : {"idle", "adjust", "schedule"}, read : Nat \ {0},
                          flow : Nat \X Nat, interval : Nat]]
  /\ \A k \in Workers : job[k].pc = "schedule" => job[k].interval \in Lo .. Hi

\* Writing one worker's record keeps the others' bounds.
LEMMA JobUpdate ==
  ASSUME Inv, NEW k \in Workers, NEW r,
         r \in [pc : {"idle", "adjust", "schedule"}, read : Nat \ {0},
                flow : Nat \X Nat, interval : Nat],
         r.pc = "schedule" => r.interval \in Lo .. Hi,
         job' = [job EXCEPT ![k] = r]
  PROVE  /\ job' \in [Workers -> [pc : {"idle", "adjust", "schedule"}, read : Nat \ {0},
                                  flow : Nat \X Nat, interval : Nat]]
         /\ \A j \in Workers : job'[j].pc = "schedule" => job'[j].interval \in Lo .. Hi
  BY DEF Inv

\* What a crawl sees is a pair of counts, whatever the demand.
LEMMA FlowsAreCounts ==
  ASSUME NEW d \in Demands
  PROVE  Flows(d) \subseteq Nat \X Nat
  <1>1. /\ ActiveInflow \in Nat \ {0} /\ ActiveOutflow \in Nat \ {0}
        /\ ColdInflow \in Nat \ {0} /\ ColdOutflow \in Nat \ {0}
    BY IntervalAssumption DEF ActiveInflow, ActiveOutflow, ColdInflow, ColdOutflow, Pages
  <1>2. ColdInflow - 1 \in Nat /\ ColdOutflow - 1 \in Nat
    BY <1>1
  <1>3. CASE d = "hot" BY <1>1, <1>3 DEF Flows
  <1>4. CASE d = "quiet" BY <1>1, <1>2, <1>4 DEF Flows
  <1>5. CASE d = "usual" BY <1>1, <1>5 DEF Flows
  <1> QED BY <1>3, <1>4, <1>5 DEF Demands

\* Every conversion of an interval to a stored weight gives an integer
\* number of hundredths.
LEMMA StoredWeightIsInt ==
  ASSUME NEW m \in Int
  PROVE  IntervalMinutesToWeight(m) \in Int
  <1> DEFINE d == IF m =< 0 THEN BaseInterval ELSE m
             n == BaseInterval * 100
  <1>1. d \in Nat \ {0} BY IntervalAssumption
  <1>2. n \in Nat BY BoundsOrdered
  <1>3. IntervalMinutesToWeight(m) = (2 * n + d) \div (2 * d)
    BY DEF IntervalMinutesToWeight, Round
  <1> HIDE DEF d, n
  <1>4. 2 * n + d \in Nat /\ 2 * d \in Nat \ {0} BY <1>1, <1>2
  <1> DEFINE x == 2 * n + d
             y == 2 * d
  <1> HIDE DEF x, y
  <1>5. x \div y \in Int
    <2>1. x \in Nat /\ y \in Nat \ {0} BY <1>4 DEF x, y
    <2> QED BY <2>1
  <1> QED BY <1>3, <1>5 DEF x, y

\* The minutes the adjuster computes from a weight are an integer.
LEMMA NewMinutesIsInt ==
  ASSUME NEW cur \in Int, NEW type
  PROVE  CalculateNewInterval(cur, type) \in Int
  <1> USE IntervalAssumption DEF AtLeast, AtMost, ActiveStep, ColdStep, RegressStep
  <1>1. CASE type = "active" BY <1>1 DEF CalculateNewInterval
  <1>2. CASE type = "cold" BY <1>2 DEF CalculateNewInterval
  <1>3. CASE type = "regress" BY <1>3 DEF CalculateNewInterval
  <1>4. CASE type \notin {"active", "cold", "regress"} BY <1>4 DEF CalculateNewInterval
  <1> QED BY <1>1, <1>2, <1>3, <1>4

\* The interval a weight stands for, in minutes, is an integer.
LEMMA MinutesIsInt ==
  ASSUME NEW w \in Int
  PROVE  WeightToIntervalMinutes(w) \in Int
  <1> DEFINE d == Positive(w)
             n == BaseInterval * 100
  <1>1. d \in Nat \ {0} BY PositiveIsPositive
  <1>2. n \in Nat BY BoundsOrdered
  <1>3. WeightToIntervalMinutes(w) = (2 * n + d) \div (2 * d)
    BY DEF WeightToIntervalMinutes, Round
  <1> HIDE DEF d, n
  <1> DEFINE x == 2 * n + d
             y == 2 * d
  <1>4. x \in Nat /\ y \in Nat \ {0} BY <1>1, <1>2
  <1> HIDE DEF x, y
  <1>5. x \div y \in Int BY <1>4
  <1> QED BY <1>3, <1>5 DEF x, y

\* A worker's record is well typed, so its fields can be used.
LEMMA JobFields ==
  ASSUME Inv, NEW k \in Workers
  PROVE  /\ job[k].read \in Nat \ {0} /\ job[k].read \in Int
         /\ job[k].flow \in Nat \X Nat
         /\ job[k].interval \in Nat
  BY DEF Inv

\* The minutes a worker is about to store are an integer.
LEMMA JobMinutes ==
  ASSUME Inv, NEW k \in Workers
  PROVE  NewMinutes(k) \in Int
  <1>1. WeightToIntervalMinutes(job[k].read) \in Int
    BY JobFields, MinutesIsInt
  <1> QED BY <1>1, NewMinutesIsInt DEF NewMinutes

\* Init puts the next crawl one base interval ahead.
LEMMA InitInv == Init => Inv
  <1> SUFFICES ASSUME Init PROVE Inv OBVIOUS
  <1>1. BaseInterval * Sub \in Lo .. Hi
    BY IntervalAssumption DEF Lo, Hi
  <1>2. spacing \in Lo .. Longest
    BY <1>1, BoundsOrdered, IntervalAssumption DEF Init, Longest, Hi
  <1>3. Idle \in [pc : {"idle", "adjust", "schedule"}, read : Nat \ {0},
                  flow : Nat \X Nat, interval : Nat] /\ Idle.pc = "idle"
    BY DEF Idle, One
  <1>4. job = [k \in Workers |-> Idle]
    BY DEF Init
  <1> QED BY <1>2, <1>3, <1>4 DEF Inv, Init, One

\* Inv is inductive: one step per action of Next.
LEMMA NextInv == Inv /\ [Next]_vars => Inv'
  <1> SUFFICES ASSUME Inv, [Next]_vars PROVE Inv' OBVIOUS
  <1> DEFINE Rec == [pc : {"idle", "adjust", "schedule"}, read : Nat \ {0},
                     flow : Nat \X Nat, interval : Nat]
  <1>0. Idle \in Rec /\ Idle.pc = "idle" /\ Idle.interval = 0
    BY DEF Idle, One
  <1>a. \A w \in Int : CalculateInterval(w) \in Lo .. Longest
    BY IntervalConfined, BoundsOrdered, IntervalAssumption DEF Longest, Hi
  <1>1. CASE Market
    BY <1>1 DEF Market, Inv
  <1>2. CASE CheckAndSchedule
    BY <1>2, <1>a DEF CheckAndSchedule, Inv
  <1>3. CASE EditWeight
    BY <1>3, LoopAssumption DEF EditWeight, Inv
  <1>4. CASE UpdateIPWeight
    BY <1>4, <1>a DEF UpdateIPWeight, Inv
  <1>5. ASSUME NEW k \in Workers, GetCurrentWeight(k) PROVE Inv'
    <2>1. PICK f \in Flows(demand) :
            job' = [job EXCEPT ![k] = [Idle EXCEPT !.pc = "adjust", !.flow = f, !.read = Positive(weight)]]
      BY <1>5, Zenon DEF GetCurrentWeight
    <2> DEFINE r == [Idle EXCEPT !.pc = "adjust", !.flow = f, !.read = Positive(weight)]
    <2>2. f \in Nat \X Nat BY FlowsAreCounts DEF Inv
    <2>3. Positive(weight) \in Nat \ {0} BY PositiveIsPositive DEF Inv
    <2>4. r \in Rec /\ r.pc = "adjust" BY <1>0, <2>2, <2>3, Zenon
    <2> HIDE DEF r
    <2>5. job' = [job EXCEPT ![k] = r] BY <2>1 DEF r
    <2>6. r.pc = "schedule" => r.interval \in Lo .. Hi BY <2>4
    <2>7. /\ job' \in [Workers -> Rec]
          /\ \A j \in Workers : job'[j].pc = "schedule" => job'[j].interval \in Lo .. Hi
      BY <2>4, <2>5, <2>6, JobUpdate, Zenon
    <2> QED BY <1>5, <2>7 DEF GetCurrentWeight, Inv
  <1>6. ASSUME NEW k \in Workers, WeightUnreadable(k) PROVE Inv'
    <2> DEFINE i == CalculateInterval(One)
               r == [Idle EXCEPT !.pc = "schedule", !.interval = i]
    <2>1. i \in Lo .. Hi BY IntervalConfined DEF One
    <2> HIDE DEF i
    <2>2. i \in Nat BY <2>1, BoundsOrdered
    <2>3. r \in Rec /\ r.interval = i BY <1>0, <2>2, Zenon
    <2>4. job' = [job EXCEPT ![k] = r] BY <1>6 DEF WeightUnreadable, i
    <2> HIDE DEF r
    <2>5. r.pc = "schedule" => r.interval \in Lo .. Hi BY <2>1, <2>3
    <2>6. /\ job' \in [Workers -> Rec]
          /\ \A j \in Workers : job'[j].pc = "schedule" => job'[j].interval \in Lo .. Hi
      BY <2>3, <2>4, <2>5, JobUpdate, Zenon
    <2> QED BY <1>6, <2>6 DEF WeightUnreadable, Inv
  <1>b. ASSUME NEW k \in Workers, NEW i \in Lo .. Hi,
               job' = [job EXCEPT ![k].pc = "schedule", ![k].interval = i]
        PROVE  /\ job' \in [Workers -> Rec]
               /\ \A j \in Workers : job'[j].pc = "schedule" => job'[j].interval \in Lo .. Hi
    <2> DEFINE r == [job[k] EXCEPT !.pc = "schedule", !.interval = i]
    <2>1. i \in Nat BY BoundsOrdered
    <2>2. job[k] \in Rec BY DEF Inv
    <2>3. r \in Rec /\ r.interval = i BY <2>1, <2>2, Zenon
    <2>4. job' = [job EXCEPT ![k] = r] BY <1>b, <2>2, Zenon DEF Inv
    <2> HIDE DEF r
    <2>5. r.pc = "schedule" => r.interval \in Lo .. Hi BY <2>3
    <2> QED BY <2>3, <2>4, <2>5, JobUpdate, Zenon
  <1>7. ASSUME NEW k \in Workers, Adjust(k) PROVE Inv'
    <2>1. CASE NewMinutes(k) = WeightToIntervalMinutes(job[k].read)
      <3>1. CalculateInterval(job[k].read) \in Lo .. Hi BY JobFields, IntervalConfined
      <3>2. job' = [job EXCEPT ![k].pc = "schedule", ![k].interval = CalculateInterval(job[k].read)]
        BY <1>7, <2>1 DEF Adjust
      <3> QED BY <1>7, <1>b, <2>1, <3>1, <3>2, Zenon DEF Adjust, Inv
    <2>2. CASE NewMinutes(k) /= WeightToIntervalMinutes(job[k].read)
      <3>1. NewMinutes(k) \in Int BY JobMinutes
      <3>2. NewMinutes(k) * Sub \in Int BY <3>1, IntervalAssumption
      <3>3. Clamp(NewMinutes(k) * Sub) \in Lo .. Hi BY <3>2, ClampConfines
      <3>4. job' = [job EXCEPT ![k].pc = "schedule", ![k].interval = Clamp(NewMinutes(k) * Sub)]
        BY <1>7, <2>2 DEF Adjust
      <3>5. weight' \in Int BY <1>7, <2>2, <3>1, StoredWeightIsInt DEF Adjust
      <3> QED BY <1>7, <1>b, <2>2, <3>3, <3>4, <3>5, Zenon DEF Adjust, Inv
    <2> QED BY <2>1, <2>2
  <1>8. ASSUME NEW k \in Workers, AdjustSkipped(k) PROVE Inv'
    <2>1. CalculateInterval(job[k].read) \in Lo .. Hi BY JobFields, IntervalConfined
    <2> QED BY <1>8, <1>b, <2>1, Zenon DEF AdjustSkipped, Inv
  <1>9. ASSUME NEW k \in Workers, SchedulePhase(k) PROVE Inv'
    <2> DEFINE i == job[k].interval
    <2>1. PICK now \in Offsets : spacing' = AlignToSlot(now + i) - now
      BY <1>9 DEF SchedulePhase
    <2>2. now \in Nat BY LoopAssumption
    <2>3. i \in Lo .. Hi /\ i \in Nat BY <1>9, JobFields DEF SchedulePhase, Inv
    <2>4. now + i \in Nat BY <2>2, <2>3
    <2> HIDE DEF i
    <2> DEFINE a == AlignToSlot(now + i)
               e == IF ScheduleSlot = 0 THEN 0 ELSE ScheduleSlot - 1
    <2>5. a \in Nat /\ now + i =< a /\ a =< now + i + e
      BY <2>4, AlignForward
    <2>6. e \in Nat BY IntervalAssumption
    <2>7. spacing' = a - now /\ Longest = Hi + e BY <2>1 DEF Longest, Hi
    <2> HIDE DEF a, e
    <2>8. spacing' \in Lo .. Longest
      BY <2>2, <2>3, <2>5, <2>6, <2>7, BoundsOrdered
    <2>9. job' = [job EXCEPT ![k] = Idle] BY <1>9 DEF SchedulePhase
    <2>10. /\ job' \in [Workers -> Rec]
           /\ \A j \in Workers : job'[j].pc = "schedule" => job'[j].interval \in Lo .. Hi
      BY <1>0, <2>9, JobUpdate, Zenon
    <2> QED BY <1>9, <2>8, <2>10 DEF SchedulePhase, Inv
  <1>10. CASE UNCHANGED vars
    BY <1>10 DEF vars, Inv
  <1> QED BY <1>1, <1>2, <1>3, <1>4, <1>5, <1>6, <1>7, <1>8, <1>9, <1>10 DEF Next

\* Whatever weight the API stores, whoever writes the schedule last and
\* wherever the slot boundary falls, the next crawl of an IP lies between
\* MinInterval and MaxInterval plus less than a slot.
THEOREM SpacingAlwaysBounded == Spec => []SpacingBounded
  <1>1. Inv => SpacingBounded
    BY DEF Inv, SpacingBounded, Lo
  <1> QED BY <1>1, InitInv, NextInv, PTL DEF Spec
-----------------------------------------------------------------------------
(* The direction of an adjustment, through two roundings and a clamp.      *)

\* A product of naturals grows with its factors.
LEMMA ProductGrows ==
  ASSUME NEW a \in Nat, NEW b \in Nat, NEW c \in Nat, NEW d \in Nat, a =< c, b =< d
  PROVE  a * b =< c * d
  <1>1. PICK e \in Nat : c = a + e
    <2>1. c - a \in Nat /\ c = a + (c - a) OBVIOUS
    <2> QED BY <2>1
  <1>2. PICK f \in Nat : d = b + f
    <2>1. d - b \in Nat /\ d = b + (d - b) OBVIOUS
    <2> QED BY <2>1
  <1>3. c * d = a * b + (a * f + e * b + e * f)
    BY <1>1, <1>2
  <1>4. a * f \in Nat /\ e * b \in Nat /\ e * f \in Nat /\ a * b \in Nat
    OBVIOUS
  <1> QED BY <1>3, <1>4

\* Integer division, as time.Duration truncates it.
LEMMA Quotient ==
  ASSUME NEW a \in Nat, NEW b \in Nat \ {0}
  PROVE  a \div b \in Nat /\ b * (a \div b) =< a /\ a < b * ((a \div b) + 1)
  <1>1. a \div b \in Nat /\ a % b \in 0 .. b - 1
    OBVIOUS
  <1>2. a = b * (a \div b) + (a % b)
    BY Z3
  <1> QED BY <1>1, <1>2

\* A quotient is found by its bounds.
LEMMA QuotientIs ==
  ASSUME NEW a \in Nat, NEW b \in Nat \ {0}, NEW q \in Nat
  PROVE  /\ b * q =< a => q =< a \div b
         /\ a < b * q => a \div b < q
  <1> DEFINE x == a \div b
  <1>1. x \in Nat /\ b * x =< a /\ a < b * (x + 1)
    BY Quotient
  <1> HIDE DEF x
  <1>2. ASSUME x < q PROVE b * (x + 1) =< b * q
    <2>1. x + 1 \in Nat /\ x + 1 =< q BY <1>1, <1>2
    <2> QED BY <2>1, ProductGrows
  <1>3. ASSUME q =< x PROVE b * q =< b * x
    BY <1>1, <1>3, ProductGrows
  <1>4. b * q \in Nat /\ b * x \in Nat /\ b * (x + 1) \in Nat
    BY <1>1
  <1> QED BY <1>1, <1>2, <1>3, <1>4 DEF x

\* math.Round never passes an integer.
LEMMA RoundKeepsSide ==
  ASSUME NEW n \in Nat, NEW d \in Nat \ {0}, NEW r \in Nat
  PROVE  /\ Round(n, d) \in Nat
         /\ d * r =< n => r =< Round(n, d)
         /\ n =< d * r => Round(n, d) =< r
  <1> DEFINE x == 2 * n + d
             y == 2 * d
  <1>1. x \in Nat /\ y \in Nat \ {0}
    OBVIOUS
  <1>2. Round(n, d) = x \div y
    BY DEF Round
  <1>3. y * r = 2 * (d * r) /\ y * (r + 1) = 2 * (d * r) + 2 * d /\ d * r \in Nat
    OBVIOUS
  <1>4. d * r =< n => y * r =< x
    BY <1>3
  <1>5. n =< d * r => x < y * (r + 1)
    BY <1>3
  <1> HIDE DEF x, y
  <1>6. x \div y \in Nat
    BY <1>1, Quotient
  <1>7. y * r =< x => r =< x \div y
    BY <1>1, QuotientIs
  <1>8. x < y * (r + 1) => x \div y < r + 1
    <2>1. r + 1 \in Nat OBVIOUS
    <2> QED BY <1>1, <2>1, QuotientIs
  <1> QED BY <1>2, <1>4, <1>5, <1>6, <1>7, <1>8

\* Rounding is off by half at most.
LEMMA RoundIsNear ==
  ASSUME NEW n \in Nat, NEW d \in Nat \ {0}
  PROVE  /\ Round(n, d) \in Nat
         /\ 2 * (d * Round(n, d)) =< 2 * n + d
         /\ 2 * n < 2 * (d * Round(n, d)) + d
  <1> DEFINE x == 2 * n + d
             y == 2 * d
             q == x \div y
  <1>1. x \in Nat /\ y \in Nat \ {0}
    OBVIOUS
  <1>2. q \in Nat /\ y * q =< x /\ x < y * (q + 1)
    <2> HIDE DEF x, y
    <2> QED BY <1>1, Quotient
  <1>3. Round(n, d) = q
    BY DEF Round
  <1> HIDE DEF q
  <1>4. y * q = 2 * (d * q) /\ y * (q + 1) = 2 * (d * q) + 2 * d /\ d * q \in Nat
    BY <1>2
  <1> QED BY <1>2, <1>3, <1>4

\* More weight, no longer interval.
LEMMA WeightShortens ==
  ASSUME NEW v \in Nat \ {0}, NEW w \in Nat \ {0}, v =< w
  PROVE  CalculateInterval(w) =< CalculateInterval(v)
  <1> DEFINE n == BaseInterval * Sub * 100
             x == n \div v
             y == n \div w
  <1>1. n \in Nat
    BY BoundsOrdered
  <1> HIDE DEF n
  <1>2. x \in Nat /\ y \in Nat /\ w * y =< n
    BY <1>1, Quotient
  <1>3. v * y =< w * y
    BY <1>2, ProductGrows
  <1>4. v * y =< n
    <2>1. v * y \in Nat /\ w * y \in Nat BY <1>2
    <2> QED BY <1>1, <1>2, <1>3, <2>1
  <1>5. y =< x
    BY <1>1, <1>2, <1>4, QuotientIs
  <1>6. CalculateInterval(v) = Clamp(x) /\ CalculateInterval(w) = Clamp(y)
    BY DEF CalculateInterval, Positive, n
  <1> HIDE DEF x, y
  <1> QED BY <1>2, <1>5, <1>6, BoundsOrdered DEF Clamp, Lo, Hi

\* The weights of the two limits have two decimals, so that the column stores
\* them exactly.  So it is for every configuration in the repository: the
\* defaults of config.go, the compose files and config.example.json.
ExactLimits ==
  /\ (BaseInterval * 100) % MinInterval = 0
  /\ (BaseInterval * 100) % MaxInterval = 0

\* The weight of m minutes, if it has two decimals, is stored as it is and
\* gives the m minutes back.
LEMMA ExactWeight ==
  ASSUME NEW m \in Nat \ {0}, (BaseInterval * 100) % m = 0
  PROVE  /\ IntervalMinutesToWeight(m) \in Nat \ {0}
         /\ CalculateInterval(IntervalMinutesToWeight(m)) = Clamp(m * Sub)
         /\ m =< BaseInterval * 100
  <1> DEFINE n == BaseInterval * 100
             c == n \div m
             w == IntervalMinutesToWeight(m)
  <1>1. n \in Nat \ {0}
    BY IntervalAssumption
  <1>2. w = Round(n, m)
    BY DEF IntervalMinutesToWeight
  <1>3. BaseInterval * Sub * 100 = n * Sub
    BY IntervalAssumption
  <1>4. n % m = 0
    OBVIOUS
  <1> HIDE DEF n, w
  <1>5. c \in Nat /\ n = m * c
    <2>1. n = m * (n \div m) + (n % m)
      BY <1>1, Z3
    <2>2. c \in Nat
      BY <1>1, Quotient
    <2> QED BY <1>1, <1>4, <2>1, <2>2
  <1> HIDE DEF c
  <1>6. w = c
    <2>1. m * c =< n /\ n =< m * c
      BY <1>1, <1>5
    <2>2. n \in Nat
      BY <1>1
    <2>3. w \in Nat /\ (m * c =< n => c =< w) /\ (n =< m * c => w =< c)
      BY <1>2, <1>5, <2>2, RoundKeepsSide, Zenon
    <2> QED BY <1>5, <2>1, <2>3
  <1>7. c # 0
    BY <1>1, <1>5
  <1>8. m =< n
    <2>1. m * 1 =< m * c
      <3>1. 1 \in Nat /\ 1 =< c /\ m =< m BY <1>5, <1>7
      <3> QED BY <1>5, <3>1, ProductGrows
    <2> QED BY <1>5, <2>1
  <1>9. (n * Sub) \div c = m * Sub
    <2> DEFINE a == n * Sub
               s == m * Sub
    <2>1. a \in Nat /\ s \in Nat
      BY <1>1, IntervalAssumption
    <2>2. a = c * s /\ c * (s + 1) = a + c
      BY <1>5, IntervalAssumption
    <2> HIDE DEF a, s
    <2>3. c * s =< a /\ a < c * (s + 1) /\ s + 1 \in Nat
      BY <1>5, <1>7, <2>1, <2>2
    <2>4. s =< a \div c /\ a \div c < s + 1 /\ a \div c \in Nat
      BY <1>5, <1>7, <2>1, <2>3, QuotientIs, Quotient
    <2>5. a \div c = s
      BY <2>1, <2>4
    <2> QED BY <2>5 DEF a, s
  <1>10. CalculateInterval(c) = Clamp((n * Sub) \div c)
    BY <1>3, <1>5, <1>7 DEF CalculateInterval, Positive
  <1> QED BY <1>5, <1>6, <1>7, <1>8, <1>9, <1>10 DEF n, w

\* A weight beyond the weight of a limit gives that limit.
LEMMA BeyondLimit ==
  ASSUME NEW r \in Nat \ {0}
  PROVE  /\ BaseInterval * 100 < MinInterval * r => CalculateInterval(r) = Lo
         /\ MaxInterval * r < BaseInterval * 100 => CalculateInterval(r) = Hi
  <1> DEFINE n == BaseInterval * 100
             a == n * Sub
             q == a \div r
  <1>1. n \in Nat /\ a \in Nat /\ Sub \in Nat \ {0} /\ BaseInterval * Sub * 100 = a
    BY IntervalAssumption
  <1>2. CalculateInterval(r) = Clamp(q)
    BY <1>1 DEF CalculateInterval, Positive
  <1>3. q \in Nat
    BY <1>1, Quotient
  <1>4. Lo \in Nat /\ Hi \in Nat /\ Lo =< Hi
    BY BoundsOrdered
  <1>5. ASSUME n < MinInterval * r PROVE Clamp(q) = Lo
    <2>1. r * Lo = (MinInterval * r) * Sub /\ MinInterval * r \in Nat
      BY IntervalAssumption DEF Lo
    <2>2. a < r * Lo
      <3> DEFINE b == MinInterval * r
      <3>1. b \in Nat /\ n + 1 =< b BY <1>1, <1>5, <2>1
      <3>2. r * Lo = b * Sub BY <2>1
      <3> HIDE DEF n, b
      <3>3. (n + 1) * Sub =< b * Sub BY <1>1, <3>1, ProductGrows
      <3>4. (n + 1) * Sub = n * Sub + Sub BY <1>1
      <3> QED BY <1>1, <3>1, <3>2, <3>3, <3>4
    <2> HIDE DEF a
    <2>3. q < Lo
      BY <1>1, <1>4, <2>2, QuotientIs
    <2> QED BY <2>3 DEF Clamp, Lo
  <1>6. ASSUME MaxInterval * r < n PROVE Clamp(q) = Hi
    <2>1. r * Hi = (MaxInterval * r) * Sub /\ MaxInterval * r \in Nat
      BY IntervalAssumption DEF Hi
    <2>2. r * Hi =< a
      <3> DEFINE b == MaxInterval * r
      <3>1. b \in Nat /\ b =< n BY <1>1, <1>6, <2>1
      <3>2. r * Hi = b * Sub BY <2>1
      <3> HIDE DEF n, b
      <3> QED BY <1>1, <3>1, <3>2, ProductGrows
    <2> HIDE DEF a
    <2>3. Hi =< q
      BY <1>1, <1>4, <2>2, QuotientIs
    <2> HIDE DEF q
    <2> QED BY <1>3, <1>4, <2>3 DEF Clamp, Lo, Hi
  <1> QED BY <1>2, <1>5, <1>6 DEF n

\* An active IP: fifteen minutes less, or the lower limit.
LEMMA ActiveShortens ==
  ASSUME ExactLimits, NEW r \in Nat \ {0}
  PROVE  LET m == CalculateNewInterval(WeightToIntervalMinutes(r), "active")
         IN  CalculateInterval(IntervalMinutesToWeight(m)) =< CalculateInterval(r)
  <1> DEFINE n == BaseInterval * 100
             cur == WeightToIntervalMinutes(r)
             m == CalculateNewInterval(cur, "active")
             w == IntervalMinutesToWeight(m)
  <1>1. n \in Nat /\ MinInterval \in Nat \ {0}
    BY IntervalAssumption
  <1>2. cur = Round(n, r)
    BY DEF WeightToIntervalMinutes, Positive
  <1>3. cur \in Nat /\ 2 * (r * cur) =< 2 * n + r
    <2> HIDE DEF n, cur
    <2> QED BY <1>1, <1>2, RoundIsNear
  <1>4. m = IF cur - 15 < MinInterval THEN MinInterval ELSE cur - 15
    BY DEF CalculateNewInterval, AtLeast, ActiveStep
  <1> HIDE DEF cur, m
  <1>5. m \in Nat \ {0}
    BY <1>1, <1>3, <1>4
  <1>6. ASSUME m * r =< n PROVE CalculateInterval(w) =< CalculateInterval(r)
    <2>1. w = Round(n, m)
      BY <1>5 DEF IntervalMinutesToWeight
    <2> HIDE DEF n, w
    <2>2. w \in Nat /\ r =< w
      BY <1>1, <1>5, <1>6, <2>1, RoundKeepsSide
    <2>3. w \in Nat \ {0}
      BY <2>2
    <2> QED BY <2>2, <2>3, WeightShortens
  <1>7. CASE cur - 15 >= MinInterval
    <2>1. m = cur - 15
      BY <1>1, <1>3, <1>4, <1>7
    <2>2. m * r = r * cur - 15 * r /\ r * cur \in Nat
      BY <1>3, <2>1
    <2>3. m * r =< n
      BY <1>1, <1>3, <2>2
    <2> QED BY <1>6, <2>3 DEF cur, m
  <1>8. CASE cur - 15 < MinInterval /\ MinInterval * r =< n
    <2>1. m * r =< n
      BY <1>4, <1>8
    <2> QED BY <1>6, <2>1 DEF cur, m
  <1>9. CASE cur - 15 < MinInterval /\ n < MinInterval * r
    <2>1. CalculateInterval(r) = Lo
      BY <1>9, BeyondLimit
    <2>2. m = MinInterval
      BY <1>4, <1>9
    <2>3. CalculateInterval(w) = Clamp(MinInterval * Sub)
      BY <1>1, <2>2, ExactWeight DEF ExactLimits
    <2>4. Clamp(MinInterval * Sub) = Lo
      BY BoundsOrdered DEF Clamp, Lo, Hi
    <2> HIDE DEF w
    <2>5. CalculateInterval(w) =< CalculateInterval(r)
      BY <2>1, <2>3, <2>4, BoundsOrdered
    <2> QED BY <2>5 DEF w, m, cur
  <1> QED
    <2>1. MinInterval * r \in Nat
      BY <1>1
    <2> QED BY <1>1, <1>3, <1>7, <1>8, <1>9, <2>1

\* A cold one: fifteen minutes more, or the upper limit.
LEMMA ColdLengthens ==
  ASSUME ExactLimits, NEW r \in Nat \ {0}
  PROVE  LET m == CalculateNewInterval(WeightToIntervalMinutes(r), "cold")
         IN  CalculateInterval(IntervalMinutesToWeight(m)) >= CalculateInterval(r)
  <1> DEFINE n == BaseInterval * 100
             cur == WeightToIntervalMinutes(r)
             m == CalculateNewInterval(cur, "cold")
             w == IntervalMinutesToWeight(m)
  <1>1. n \in Nat /\ MaxInterval \in Nat \ {0}
    BY IntervalAssumption
  <1>2. cur = Round(n, r)
    BY DEF WeightToIntervalMinutes, Positive
  <1>3. cur \in Nat /\ 2 * n < 2 * (r * cur) + r
    <2> HIDE DEF n, cur
    <2> QED BY <1>1, <1>2, RoundIsNear
  <1>4. m = IF cur + 15 > MaxInterval THEN MaxInterval ELSE cur + 15
    BY DEF CalculateNewInterval, AtMost, ColdStep
  <1>a. MaxInterval =< n
    BY <1>1, ExactWeight DEF ExactLimits
  <1> HIDE DEF cur, m
  <1>5. m \in Nat \ {0} /\ m =< n
    BY <1>1, <1>3, <1>4, <1>a
  <1>6. ASSUME n =< m * r PROVE CalculateInterval(w) >= CalculateInterval(r)
    <2>1. w = Round(n, m)
      BY <1>5 DEF IntervalMinutesToWeight
    <2> HIDE DEF n, w
    <2>2. w \in Nat /\ w =< r
      BY <1>1, <1>5, <1>6, <2>1, RoundKeepsSide
    <2>3. 1 =< w
      <3>1. m * 1 =< n /\ 1 \in Nat
        BY <1>5
      <3> QED BY <1>1, <1>5, <2>1, <3>1, RoundKeepsSide
    <2>4. w \in Nat \ {0}
      BY <2>2, <2>3
    <2>5. CalculateInterval(r) =< CalculateInterval(w)
      BY <2>2, <2>4, WeightShortens
    <2>6. CalculateInterval(r) \in Int /\ CalculateInterval(w) \in Int
      BY <2>2, IntervalConfined
    <2> QED BY <2>5, <2>6
  <1>7. CASE cur + 15 =< MaxInterval
    <2>1. m = cur + 15
      BY <1>1, <1>3, <1>4, <1>7
    <2>2. m * r = r * cur + 15 * r /\ r * cur \in Nat
      BY <1>3, <2>1
    <2>3. n =< m * r
      BY <1>1, <1>3, <2>2
    <2> QED BY <1>6, <2>3 DEF cur, m
  <1>8. CASE cur + 15 > MaxInterval /\ n =< MaxInterval * r
    <2>1. n =< m * r
      BY <1>4, <1>8
    <2> QED BY <1>6, <2>1 DEF cur, m
  <1>9. CASE cur + 15 > MaxInterval /\ MaxInterval * r < n
    <2>1. CalculateInterval(r) = Hi
      BY <1>9, BeyondLimit
    <2>2. m = MaxInterval
      BY <1>4, <1>9
    <2>3. CalculateInterval(w) = Clamp(MaxInterval * Sub)
      BY <1>1, <2>2, ExactWeight DEF ExactLimits
    <2>4. Clamp(MaxInterval * Sub) = Hi
      BY BoundsOrdered DEF Clamp, Lo, Hi
    <2> HIDE DEF w
    <2>5. CalculateInterval(w) >= CalculateInterval(r)
      BY <2>1, <2>3, <2>4, BoundsOrdered
    <2> QED BY <2>5 DEF w, m, cur
  <1> QED
    <2>1. MaxInterval * r \in Nat
      BY <1>1
    <2> QED BY <1>1, <1>3, <1>7, <1>8, <1>9, <2>1

\* Weight 1.00 is the base interval.
LEMMA BaseWeight == CalculateInterval(One) = BaseInterval * Sub
  <1> DEFINE b == BaseInterval * Sub
  <1>1. b \in Lo .. Hi /\ b \in Nat
    <2>1. MinInterval * Sub =< b /\ b =< MaxInterval * Sub
      BY IntervalAssumption, ProductGrows
    <2>2. b \in Nat
      BY IntervalAssumption
    <2> QED BY <2>1, <2>2, BoundsOrdered DEF Lo, Hi
  <1> HIDE DEF b
  <1>2. (b * 100) \div 100 = b
    BY <1>1
  <1>3. CalculateInterval(One) = Clamp((b * 100) \div 100)
    BY DEF CalculateInterval, Positive, One, b
  <1> QED BY <1>1, <1>2, <1>3, BoundsOrdered DEF Clamp, Lo, Hi, b

\* One with neither: five minutes towards the base, or the base.  This needs
\* nothing of the limits.
LEMMA RegressReturns ==
  ASSUME NEW r \in Nat \ {0}, WeightToIntervalMinutes(r) /= BaseInterval
  PROVE  LET m == CalculateNewInterval(WeightToIntervalMinutes(r), "regress")
         IN  Towards(CalculateInterval(r), CalculateInterval(IntervalMinutesToWeight(m)),
                     BaseInterval * Sub)
  <1> DEFINE n == BaseInterval * 100
             cur == WeightToIntervalMinutes(r)
             m == CalculateNewInterval(cur, "regress")
             w == IntervalMinutesToWeight(m)
  <1>1. n \in Nat /\ BaseInterval \in Nat \ {0}
    BY IntervalAssumption
  <1>2. cur = Round(n, r)
    BY DEF WeightToIntervalMinutes, Positive
  <1>3. cur \in Nat /\ 2 * (r * cur) =< 2 * n + r /\ 2 * n < 2 * (r * cur) + r
    <2> HIDE DEF n, cur
    <2> QED BY <1>1, <1>2, RoundIsNear
  <1>4. m = IF cur < BaseInterval
            THEN (IF cur + 5 > BaseInterval THEN BaseInterval ELSE cur + 5)
            ELSE (IF cur - 5 < BaseInterval THEN BaseInterval ELSE cur - 5)
    BY DEF CalculateNewInterval, AtLeast, AtMost, RegressStep
  <1>5. cur /= BaseInterval
    OBVIOUS
  <1> HIDE DEF cur, m
  <1>6. m \in Nat \ {0}
    BY <1>1, <1>3, <1>4
  <1>7. w = Round(n, m)
    BY <1>6 DEF IntervalMinutesToWeight
  <1>8. One \in Nat \ {0}
    BY DEF One
  <1> HIDE DEF w
  <1>9. CASE cur < BaseInterval
    <2>1. cur + 1 =< m /\ m =< BaseInterval
      BY <1>1, <1>3, <1>4, <1>9
    <2>2. n =< m * r
      <3>1. r * (cur + 1) =< r * m
        <4>1. cur + 1 \in Nat /\ r =< r BY <1>3
        <4> QED BY <1>6, <2>1, <4>1, ProductGrows
      <3>2. r * (cur + 1) = r * cur + r /\ r * cur \in Nat /\ r * m = m * r /\ m * r \in Nat
        BY <1>3, <1>6
      <3> QED BY <1>1, <1>3, <3>1, <3>2
    <2>3. m * One =< n
      BY <1>1, <1>6, <2>1 DEF One
    <2> HIDE DEF n
    <2>4. w \in Nat /\ w =< r /\ One =< w
      <3>1. One \in Nat /\ r \in Nat BY <1>8
      <3> QED BY <1>1, <1>6, <1>7, <2>2, <2>3, <3>1, RoundKeepsSide
    <2>5. w \in Nat \ {0}
      BY <1>8, <2>4
    <2>6. CalculateInterval(r) =< CalculateInterval(w) /\ CalculateInterval(w) =< CalculateInterval(One)
      BY <1>8, <2>4, <2>5, WeightShortens
    <2>7. Towards(CalculateInterval(r), CalculateInterval(w), BaseInterval * Sub)
      BY <2>6, BaseWeight DEF Towards
    <2> QED BY <2>7 DEF w, m, cur
  <1>10. CASE cur > BaseInterval
    <2>1. m + 1 =< cur /\ BaseInterval =< m
      BY <1>1, <1>3, <1>4, <1>10
    <2>2. m * r =< n
      <3>1. r * (m + 1) =< r * cur
        <4>1. m + 1 \in Nat /\ r =< r BY <1>6
        <4> QED BY <1>3, <2>1, <4>1, ProductGrows
      <3>2. r * (m + 1) = m * r + r /\ r * cur \in Nat /\ m * r \in Nat
        BY <1>3, <1>6
      <3> QED BY <1>1, <1>3, <3>1, <3>2
    <2>3. n =< m * One
      BY <1>1, <1>6, <2>1 DEF One
    <2> HIDE DEF n
    <2>4. w \in Nat /\ r =< w /\ w =< One
      <3>1. One \in Nat /\ r \in Nat BY <1>8
      <3> QED BY <1>1, <1>6, <1>7, <2>2, <2>3, <3>1, RoundKeepsSide
    <2>5. w \in Nat \ {0}
      BY <2>4
    <2>6. CalculateInterval(One) =< CalculateInterval(w) /\ CalculateInterval(w) =< CalculateInterval(r)
      BY <1>8, <2>4, <2>5, WeightShortens
    <2>7. Towards(CalculateInterval(r), CalculateInterval(w), BaseInterval * Sub)
      BY <2>6, BaseWeight DEF Towards
    <2> QED BY <2>7 DEF w, m, cur
  <1> QED BY <1>1, <1>3, <1>5, <1>9, <1>10

\* Only Adjust takes a worker from the adjustment to the schedule and writes
\* the weight; what it writes comes from the weight it read.
LEMMA StepAdjusts ==
  ASSUME Inv, [Next]_vars, NEW k \in Workers,
         job[k].pc = "adjust", job'[k].pc = "schedule", weight' /= weight
  PROVE  weight' = IntervalMinutesToWeight(NewMinutes(k))
  <1>1. job \in [Workers -> [pc : {"idle", "adjust", "schedule"}, read : Nat \ {0},
                             flow : Nat \X Nat, interval : Nat]]
    BY DEF Inv
  <1>2. ~(UNCHANGED vars \/ Market \/ CheckAndSchedule \/ UpdateIPWeight \/ EditWeight)
    BY DEF vars, Market, CheckAndSchedule, UpdateIPWeight, EditWeight
  <1>3. PICK j \in Workers :
          \/ GetCurrentWeight(j) \/ WeightUnreadable(j)
          \/ Adjust(j) \/ AdjustSkipped(j) \/ SchedulePhase(j)
    BY <1>2 DEF Next
  <1>4. Adjust(j)
    BY <1>3, Zenon DEF GetCurrentWeight, WeightUnreadable, AdjustSkipped, SchedulePhase
  <1>5. weight' = IntervalMinutesToWeight(NewMinutes(j))
    BY <1>4 DEF Adjust
  <1>6. j = k
    BY <1>1, <1>4 DEF Adjust
  <1> QED BY <1>5, <1>6

\* If the limits have exact weights, an adjustment never moves the interval
\* the scheduler uses against its type, whatever weight was stored, by
\* whomever, and however the minutes and the column round.
THEOREM AdjustmentsKeepDirection ==
  ASSUME ExactLimits
  PROVE  Spec => AdjustsInItsDirection
  <1>1. ASSUME Inv, [Next]_vars, NEW k \in Workers,
               job[k].pc = "adjust", job'[k].pc = "schedule", weight' /= weight
        PROVE  LET before == CalculateInterval(job[k].read)
                   after == CalculateInterval(weight')
                   type == DetermineAdjustment(job[k].flow[1], job[k].flow[2],
                                               WeightToIntervalMinutes(job[k].read))
               IN  /\ type = "active" => after =< before
                   /\ type = "cold" => after >= before
                   /\ type = "regress" => Towards(before, after, BaseInterval * Sub)
    <2>1. job[k].read \in Nat \ {0}
      BY <1>1, JobFields
    <2>2. weight' = IntervalMinutesToWeight(NewMinutes(k))
      BY <1>1, StepAdjusts
    <2> DEFINE r == job[k].read
               type == DetermineAdjustment(job[k].flow[1], job[k].flow[2], WeightToIntervalMinutes(r))
    <2>3. NewMinutes(k) = CalculateNewInterval(WeightToIntervalMinutes(r), type)
      BY DEF NewMinutes
    <2> HIDE DEF type
    <2>4. CASE type = "active"
      BY <2>1, <2>2, <2>3, <2>4, ActiveShortens DEF type
    <2>5. CASE type = "cold"
      BY <2>1, <2>2, <2>3, <2>5, ColdLengthens DEF type
    <2>6. CASE type = "regress"
      <3>1. WeightToIntervalMinutes(r) /= BaseInterval
        BY <2>6 DEF type, DetermineAdjustment
      <3> QED BY <2>1, <2>2, <2>3, <2>6, <3>1, RegressReturns DEF type
    <2> QED BY <2>4, <2>5, <2>6 DEF type
  <1>2. Inv /\ [Next]_vars =>
          [\A k \in Workers :
             (job[k].pc = "adjust" /\ job'[k].pc = "schedule" /\ weight' /= weight) =>
               LET before == CalculateInterval(job[k].read)
                   after == CalculateInterval(weight')
                   type == DetermineAdjustment(job[k].flow[1], job[k].flow[2],
                                               WeightToIntervalMinutes(job[k].read))
               IN  /\ type = "active" => after =< before
                   /\ type = "cold" => after >= before
                   /\ type = "regress" => Towards(before, after, BaseInterval * Sub)]_vars
    BY <1>1
  <1> QED BY <1>2, InitInv, NextInv, PTL DEF Spec, AdjustsInItsDirection
=============================================================================
