---------------------------- MODULE ScheduleProofs ----------------------------
(***************************************************************************)
(* Proofs about the crawl schedule, for every set of IPs, batch size, time *)
(* limit and interval: the types, and the distance between two tasks of    *)
(* one IP, which has to bound how old the `now` of checkAndSchedule gets.  *)
(***************************************************************************)
EXTENDS Schedule, FiniteSetTheorems, TLAPS

Busy == {"batch", "push", "next", "remove", "wait"}
Least == Enough - MaxLag

\* After k waits the check has taken k full batches and what it took of the
\* next one, and its `now` is at most k waits and the current one old.
Waited(k) ==
  /\ k =< MaxWaits
  /\ loop.pc = "wait" => k < MaxWaits
  /\ loop.lag =< k * MaxWait + loop.wait
  /\ loop.pc \in Busy => Cardinality(loop.todo) + (k + 1) * BatchSize =< Cardinality(IPs) + loop.left

LoopInv ==
  /\ loop.pc \notin Busy => loop.todo = {} /\ loop.lag = 0
  /\ loop.pc \in {"batch", "wait"} => loop.todo /= {}
  /\ loop.pc = "batch" => loop.left > 0
  /\ loop.pc = "wait" => loop.left = 0
  /\ loop.pc /= "wait" => loop.wait = 0
  /\ IF loop.pc \in {"push", "next", "remove"} THEN \E i \in IPs \ loop.todo : loop.cur = {i}
                                               ELSE loop.cur = {}
  /\ \E k \in Nat : Waited(k)

\* An entry is far enough ahead, given the time since the last push, unless
\* the loop has pushed and is about to write it; what the loop read as due
\* stays far enough from the last push.
SpacingInv ==
  /\ \A i \in IPs : \/ zset[i] = NotIn
                    \/ zset[i] + gap[i] >= Least
                    \/ loop.pc = "next" /\ i \in loop.cur
  /\ \A i \in loop.todo : gap[i] >= Least
  /\ loop.pc = "push" => \A i \in loop.cur : gap[i] >= Least
LoopRecord ==
  [pc : {"down", "fill", "idle", "batch", "push", "next", "remove", "wait"},
   todo : SUBSET IPs, left : 0 .. BatchSize, lag : Nat,
   wait : 0 .. MaxWait, cur : SUBSET IPs, weight : Int]
ApiRecord ==
  [pc : {"idle", "weight", "reweigh", "status", "trigger"}, ip : SUBSET IPs,
   weight : Int, status : {"keep", "active", "off"}]
RefreshRecord ==
  [pc : {"idle", "add", "remove"}, active : SUBSET IPs, todo : SUBSET IPs, put : SUBSET IPs]

\* TypeOK but for the bound on lag, which LoopInv gives.
RowTypes == row \in [IPs -> [status : {"none", "active", "off"}, weight : Int]]
EntryTypes == zset \in [IPs -> {NotIn} \cup 0 .. Furthest] /\ gap \in [IPs -> 0 .. Enough]
TaskTypes == queued \subseteq IPs /\ result \in [IPs -> {"none", "new", "adjusted"}]
ActorTypes == loop \in LoopRecord /\ refresh \in RefreshRecord /\ api \in [Clients -> ApiRecord]
Types == RowTypes /\ EntryTypes /\ TaskTypes /\ ActorTypes
-----------------------------------------------------------------------------
\* The interval bounds of SchedulerConfig and what follows of the furthest
\* entry.
LEMMA Bounds ==
  /\ Enough \in Nat \ {0} /\ MaxInterval * Sub \in Nat \ {0} /\ Enough =< MaxInterval * Sub
  /\ Sub \in Nat \ {0} /\ Sub =< MaxInterval * Sub
  /\ Cardinality(IPs) \in Nat /\ Spread \in Nat
  /\ Furthest \in Nat /\ Spread =< Furthest /\ MaxInterval * Sub + ScheduleSlot =< Furthest
  /\ MaxInterval * Sub =< Furthest
<1>1. Enough \in Nat \ {0} /\ MaxInterval * Sub \in Nat \ {0} /\ Sub \in Nat \ {0}
  BY IntervalAssumption DEF Enough
<1>2. MinInterval =< MaxInterval /\ 1 =< MaxInterval
  BY IntervalAssumption
<1>3. Enough =< MaxInterval * Sub /\ Sub =< MaxInterval * Sub
  BY <1>2, IntervalAssumption DEF Enough
<1>4. Cardinality(IPs) \in Nat
  BY ScheduleAssumption, FS_CardinalityType
<1>5. Cardinality(IPs) * Sub \in Nat
  BY <1>1, <1>4
<1>6. Spread \in Nat
  BY <1>5 DEF Spread
<1>7. ScheduleSlot \in Nat BY IntervalAssumption
<1> DEFINE m == MaxInterval * Sub
<1> HIDE DEF m
<1>8. m \in Nat BY <1>1 DEF m
<1>9. Furthest = IF Spread > m + ScheduleSlot THEN Spread ELSE m + ScheduleSlot
  BY DEF Furthest, m
<1>10. Furthest \in Nat /\ Spread =< Furthest /\ m + ScheduleSlot =< Furthest /\ m =< Furthest
  BY <1>6, <1>7, <1>8, <1>9
<1> QED BY <1>1, <1>3, <1>4, <1>6, <1>10 DEF m

\* CalculateInterval is within the configured bounds for every stored weight.
LEMMA IntervalBounds ==
  ASSUME NEW w \in Int
  PROVE  CalculateInterval(w) \in Enough .. MaxInterval * Sub
<1> DEFINE p == Positive(w)
           n == BaseInterval * Sub * 100
           hi == MaxInterval * Sub
           d == n \div p
<1>1. p \in Nat \ {0} BY DEF Positive, One
<1>2. n \in Nat BY IntervalAssumption
<1>3. Enough \in Nat /\ hi \in Nat /\ Enough =< hi BY Bounds
<1>4. CalculateInterval(w) = IF d < Enough THEN Enough ELSE IF d > hi THEN hi ELSE d
  BY DEF CalculateInterval, Clamp, Enough
<1> HIDE DEF p, n, hi
<1>5. d \in Int BY <1>1, <1>2
<1> HIDE DEF d
<1>6. CalculateInterval(w) \in Enough .. hi BY <1>3, <1>4, <1>5
<1> QED BY <1>6 DEF hi

\* alignToSlot moves a time forward, by at most a slot.
LEMMA AlignBounds ==
  ASSUME NEW t \in Nat
  PROVE  AlignToSlot(t) \in t .. t + ScheduleSlot
<1>1. CASE ScheduleSlot = 0
  BY <1>1 DEF AlignToSlot
<1>2. CASE ScheduleSlot /= 0
  <2> DEFINE s == ScheduleSlot
             r == t % s
  <2>1. s \in Nat \ {0} BY <1>2, IntervalAssumption
  <2>2. AlignToSlot(t) = IF r = 0 THEN t ELSE t - r + s
    BY <1>2 DEF AlignToSlot
  <2> HIDE DEF s
  <2>3. r \in 0 .. s - 1 BY <2>1
  <2> HIDE DEF r
  <2>4. AlignToSlot(t) \in t .. t + s BY <2>1, <2>2, <2>3
  <2> QED BY <2>4 DEF s
<1> QED BY <1>1, <1>2

\* The next batch waits at most once per full batch before it, and so a wait
\* with an IP still to come is not the last one allowed.
LEMMA BatchesLeft ==
  ASSUME NEW k \in Nat, (k + 1) * BatchSize < Cardinality(IPs)
  PROVE  k < MaxWaits
<1> DEFINE n == Cardinality(IPs)
           b == BatchSize
           q == (n - 1) \div b
<1>1. n \in Nat /\ b \in Nat \ {0} BY Bounds, ScheduleAssumption
<1>2. (k + 1) * b < n OBVIOUS
<1>3. IPs /= {}
  <2>1. (k + 1) * b \in Nat BY <1>1
  <2>2. n > 0 BY <1>1, <1>2, <2>1
  <2> QED BY <2>2, FS_EmptySet
<1>4. MaxWaits = q BY <1>3 DEF MaxWaits
<1> HIDE DEF n, b
<1>5. (k + 1) * b \in Nat /\ n - 1 \in Nat BY <1>1, <1>2
<1>6. q \in Nat /\ n - 1 < (q + 1) * b
  <2> DEFINE m == n - 1
             r == m % b
  <2> HIDE DEF m
  <2>1. m \in Nat BY <1>5 DEF m
  <2>2. m \div b \in Nat /\ r \in 0 .. b - 1 /\ m = b * (m \div b) + r
    BY <1>1, <2>1
  <2> DEFINE e == m \div b
  <2>3. e \in Nat /\ r \in 0 .. b - 1 /\ m = b * e + r BY <2>2
  <2> HIDE DEF e, r
  <2>4. m < (e + 1) * b
    <3>1. (e + 1) * b = b * e + b BY <1>1, <2>3
    <3>2. b * e \in Nat BY <1>1, <2>3
    <3> DEFINE x == b * e
               y == (e + 1) * b
    <3>3. x \in Nat /\ y = x + b /\ m = x + r BY <2>3, <3>1, <3>2
    <3> HIDE DEF x, y
    <3>4. m < y BY <1>1, <2>3, <3>3
    <3> QED BY <3>4 DEF y
  <2> QED BY <2>3, <2>4 DEF e, m
<1> HIDE DEF q
<1>7. (k + 1) * b < (q + 1) * b BY <1>1, <1>2, <1>5, <1>6
<1>8. ~ (q =< k)
  <2> SUFFICES ASSUME q =< k PROVE FALSE OBVIOUS
  <2>1. (q + 1) * b =< (k + 1) * b BY <1>1, <1>6
  <2> QED BY <1>1, <1>6, <1>7, <2>1
<1> QED BY <1>4, <1>6, <1>8

\* The waits of one check are a number, and so is the age of its `now`.
LEMMA WaitsBounds == MaxWaits \in Nat /\ MaxLag \in Nat
<1>1. MaxWaits \in Nat
  <2>1. CASE IPs = {} BY <2>1 DEF MaxWaits
  <2>2. CASE IPs /= {}
    <3> DEFINE m == Cardinality(IPs) - 1
               b == BatchSize
    <3>1. m \in Nat /\ b \in Nat \ {0}
      BY <2>2, Bounds, ScheduleAssumption, FS_EmptySet
    <3>2. MaxWaits = m \div b BY <2>2 DEF MaxWaits
    <3> HIDE DEF m, b
    <3> QED BY <3>1, <3>2
  <2> QED BY <2>1, <2>2
<1>2. MaxLag \in Nat BY <1>1, ScheduleAssumption DEF MaxLag
<1> QED BY <1>1, <1>2

\* k waits and part of the next are within the limit.
LEMMA LagWithin ==
  ASSUME NEW k \in Nat, NEW w \in 0 .. MaxWait, k =< MaxWaits, w = 0 \/ k < MaxWaits
  PROVE  k * MaxWait + w =< MaxLag
<1>1. MaxWaits \in Nat /\ MaxWait \in Nat BY WaitsBounds, ScheduleAssumption
<1>2. CASE w = 0
  <2>1. k * MaxWait =< MaxWaits * MaxWait BY <1>1
  <2>2. k * MaxWait \in Nat BY <1>1
  <2> QED BY <1>2, <2>1, <2>2 DEF MaxLag
<1>3. CASE k < MaxWaits
  <2>1. k + 1 =< MaxWaits BY <1>1, <1>3
  <2>2. (k + 1) * MaxWait =< MaxWaits * MaxWait BY <1>1, <2>1
  <2>3. (k + 1) * MaxWait = k * MaxWait + MaxWait /\ k * MaxWait \in Nat BY <1>1
  <2> QED BY <1>1, <2>2, <2>3 DEF MaxLag
<1> QED BY <1>2, <1>3

\* LoopInv bounds the age of the `now` that checkAndSchedule works with.
LEMMA LagBounded ==
  ASSUME Types, LoopInv
  PROVE  loop.lag =< MaxLag
<1>1. PICK k \in Nat : Waited(k) BY DEF LoopInv
<1>2. loop.lag \in Nat /\ loop.wait \in 0 .. MaxWait BY DEF Types, ActorTypes, LoopRecord
<1>3. loop.wait = 0 \/ k < MaxWaits BY <1>1 DEF LoopInv, Waited
<1>4. k * MaxWait + loop.wait =< MaxLag
  BY <1>1, <1>2, <1>3, LagWithin DEF Waited
<1>5. k * MaxWait \in Nat /\ MaxLag \in Nat BY ScheduleAssumption, WaitsBounds
<1> QED BY <1>1, <1>2, <1>4, <1>5 DEF Waited
-----------------------------------------------------------------------------
\* What the initial values of the actors are.
LEMMA IdleRecords ==
  /\ Down \in LoopRecord /\ IdleLoop \in LoopRecord
  /\ IdleRefresh \in RefreshRecord /\ IdleApi \in ApiRecord
<1>1. BatchSize \in Nat /\ MaxWait \in Nat BY ScheduleAssumption
<1>2. Down \in LoopRecord BY <1>1 DEF Down, LoopRecord, One
<1> QED BY <1>2 DEF IdleLoop, LoopRecord, IdleRefresh, RefreshRecord, IdleApi, ApiRecord

\* The record that NextIP gives, field by field.
LEMMA NextIPRecord ==
  ASSUME NEW l \in LoopRecord
  PROVE  /\ NextIP(l) \in LoopRecord
         /\ NextIP(l).pc = IF l.todo = {} THEN "idle" ELSE IF l.left = 0 THEN "wait" ELSE "batch"
         /\ NextIP(l).lag = IF l.todo = {} THEN 0 ELSE l.lag
         /\ NextIP(l).left = IF l.todo = {} \/ l.left = 0 THEN 0 ELSE l.left
         /\ NextIP(l).todo = l.todo /\ NextIP(l).wait = 0 /\ NextIP(l).cur = {}
<1> DEFINE p == IF l.todo = {} THEN "idle" ELSE IF l.left = 0 THEN "wait" ELSE "batch"
           g == IF l.todo = {} THEN 0 ELSE l.lag
           f == IF l.todo = {} \/ l.left = 0 THEN 0 ELSE l.left
<1>1. BatchSize \in Nat /\ 0 \in 0 .. MaxWait BY ScheduleAssumption
<1>2. p \in {"idle", "wait", "batch"} OBVIOUS
<1>3. g \in Nat BY DEF LoopRecord
<1>4. f \in 0 .. BatchSize BY <1>1 DEF LoopRecord
<1>5. NextIP(l) = [l EXCEPT !.pc = p, !.lag = g, !.left = f, !.wait = 0, !.cur = {}, !.weight = One]
  BY DEF NextIP
<1>6. One \in Int BY DEF One
<1> HIDE DEF p, g, f
<1>7. /\ NextIP(l) \in LoopRecord /\ NextIP(l).pc = p /\ NextIP(l).lag = g /\ NextIP(l).left = f
      /\ NextIP(l).todo = l.todo /\ NextIP(l).wait = 0 /\ NextIP(l).cur = {}
  BY <1>1, <1>2, <1>3, <1>4, <1>5, <1>6, ZenonT(60) DEF LoopRecord
<1> QED BY <1>7 DEF p, g, f

\* The record after an IP is taken from a batch: the same check, one IP less.
LEMMA TakeRecord ==
  ASSUME Types, NEW i \in loop.todo, loop.left > 0,
         NEW w \in Int, NEW p \in {"push", "remove"},
         loop' = [Take(i) EXCEPT !.cur = {i}, !.weight = w, !.pc = p]
  PROVE  /\ loop' \in LoopRecord
         /\ loop'.pc = p /\ loop'.cur = {i} /\ loop'.todo = loop.todo \ {i} /\ loop'.left = loop.left - 1
         /\ loop'.lag = loop.lag /\ loop'.wait = loop.wait
<1>1. loop \in LoopRecord BY DEF Types, ActorTypes
<1>2. BatchSize \in Nat /\ loop.left \in 0 .. BatchSize BY <1>1, ScheduleAssumption DEF LoopRecord
<1>3. loop.left - 1 \in 0 .. BatchSize BY <1>2
<1>4. i \in IPs BY <1>1 DEF LoopRecord
<1> QED BY <1>1, <1>3, <1>4, Zenon DEF Take, LoopRecord

\* A score written is never negative, so it is due or ahead.
LEMMA AddTypes ==
  ASSUME EntryTypes, NEW i \in IPs, NEW t \in Int, t =< Furthest, ZAdd(i, t)
  PROVE  /\ zset' \in [IPs -> {NotIn} \cup 0 .. Furthest]
         /\ zset'[i] \in 0 .. Furthest /\ zset'[i] >= t
         /\ \A j \in IPs \ {i} : zset'[j] = zset[j]
<1>1. Ahead(t) \in 0 .. Furthest /\ Ahead(t) >= t BY Bounds DEF Ahead
<1> QED BY <1>1 DEF ZAdd, EntryTypes

\* A removed entry is gone; the others stay.
LEMMA RemTypes ==
  ASSUME EntryTypes, NEW i \in IPs, ZRem(i)
  PROVE  /\ zset' \in [IPs -> {NotIn} \cup 0 .. Furthest]
         /\ zset'[i] = NotIn
         /\ \A j \in IPs \ {i} : zset'[j] = zset[j]
BY DEF ZRem, EntryTypes

\* The history restarts for one IP.
LEMMA GapTypes ==
  ASSUME EntryTypes, NEW i \in IPs, NEW g \in 0 .. Enough, gap' = [gap EXCEPT ![i] = g]
  PROVE  /\ gap' \in [IPs -> 0 .. Enough]
         /\ gap'[i] = g
         /\ \A j \in IPs \ {i} : gap'[j] = gap[j]
BY DEF EntryTypes

\* Enough is a value of the history.
LEMMA EnoughInRange == Enough \in 0 .. Enough /\ 0 \in 0 .. Enough /\ Least =< Enough /\ Least \in Int
BY Bounds, WaitsBounds DEF Least
-----------------------------------------------------------------------------
\* checkAndSchedule has done with an IP: the next one, the wait, or the end.
LEMMA NextIPLoop ==
  ASSUME Types, LoopInv, loop.pc \in {"push", "next", "remove"}, loop' = NextIP(loop)
  PROVE  LoopInv' /\ loop' \in LoopRecord
<1>1. loop \in LoopRecord BY DEF Types, ActorTypes
<1>2. /\ loop' \in LoopRecord
      /\ loop'.pc = IF loop.todo = {} THEN "idle" ELSE IF loop.left = 0 THEN "wait" ELSE "batch"
      /\ loop'.lag = IF loop.todo = {} THEN 0 ELSE loop.lag
      /\ loop'.left = IF loop.todo = {} \/ loop.left = 0 THEN 0 ELSE loop.left
      /\ loop'.todo = loop.todo /\ loop'.wait = 0 /\ loop'.cur = {}
  BY <1>1, NextIPRecord
<1>3. PICK k \in Nat : Waited(k) BY DEF LoopInv
<1>4. /\ loop.wait = 0 /\ loop.left \in Nat /\ loop.lag \in Nat /\ loop.todo \subseteq IPs
      /\ BatchSize \in Nat \ {0} /\ MaxWait \in Nat
  BY <1>1, ScheduleAssumption DEF LoopInv, LoopRecord
<1>5. CASE loop.todo = {}
  <2>1. loop'.pc = "idle" /\ loop'.lag = 0 BY <1>2, <1>5
  <2>2. Waited(0)' BY <1>2, <1>4, <2>1, WaitsBounds DEF Waited, Busy
  <2> QED BY <1>2, <1>5, <2>1, <2>2 DEF LoopInv, Busy
<1>6. CASE loop.todo /= {} /\ loop.left = 0
  <2>1. loop'.pc = "wait" /\ loop'.lag = loop.lag /\ loop'.left = 0 BY <1>2, <1>6
  <2>2. IsFiniteSet(loop.todo) BY <1>4, ScheduleAssumption, FS_Subset
  <2>3. Cardinality(loop.todo) \in Nat \ {0} BY <1>6, <2>2, FS_CardinalityType, FS_EmptySet
  <2>4. Cardinality(loop.todo) + (k + 1) * BatchSize =< Cardinality(IPs) + 0
    BY <1>3, <1>6 DEF Waited, Busy
  <2>5. (k + 1) * BatchSize \in Nat BY <1>4
  <2>6. (k + 1) * BatchSize < Cardinality(IPs) BY <2>3, <2>4, <2>5, Bounds
  <2>7. k < MaxWaits BY <2>6, BatchesLeft
  <2>8. loop.lag =< k * MaxWait + loop.wait BY <1>3 DEF Waited
  <2>9. Waited(k)' BY <1>2, <1>3, <1>4, <1>6, <2>1, <2>4, <2>7, <2>8 DEF Waited
  <2> QED BY <1>2, <1>6, <2>1, <2>9 DEF LoopInv, Busy
<1>7. CASE loop.todo /= {} /\ loop.left /= 0
  <2>1. loop'.pc = "batch" /\ loop'.lag = loop.lag /\ loop'.left = loop.left BY <1>2, <1>7
  <2>2. Waited(k)' BY <1>2, <1>3, <1>4, <2>1 DEF Waited, Busy
  <2> QED BY <1>2, <1>4, <1>7, <2>1, <2>2 DEF LoopInv, Busy
<1> QED BY <1>2, <1>5, <1>6, <1>7

\* checkAndSchedule reads the next IP of the batch.
LEMMA TakeLoop ==
  ASSUME Types, LoopInv, loop.pc = "batch", NEW i \in loop.todo,
         NEW w \in Int, NEW p \in {"push", "remove"},
         loop' = [Take(i) EXCEPT !.cur = {i}, !.weight = w, !.pc = p]
  PROVE  /\ LoopInv' /\ loop' \in LoopRecord
         /\ loop'.pc = p /\ loop'.cur = {i} /\ loop'.todo = loop.todo \ {i}
<1>1. loop \in LoopRecord /\ loop.left > 0 BY DEF Types, ActorTypes, LoopInv
<1>2. /\ loop' \in LoopRecord
      /\ loop'.pc = p /\ loop'.cur = {i} /\ loop'.todo = loop.todo \ {i} /\ loop'.left = loop.left - 1
      /\ loop'.lag = loop.lag /\ loop'.wait = loop.wait
  BY <1>1, TakeRecord, Zenon
<1>3. PICK k \in Nat : Waited(k) BY DEF LoopInv
<1>4. loop.todo \subseteq IPs /\ i \in IPs /\ loop.left \in Nat BY <1>1 DEF LoopRecord
<1>5. IsFiniteSet(loop.todo) BY <1>4, ScheduleAssumption, FS_Subset
<1>6. Cardinality(loop.todo \ {i}) = Cardinality(loop.todo) - 1 /\ Cardinality(loop.todo) \in Nat
  BY <1>5, FS_RemoveElement, FS_CardinalityType
<1>7. Cardinality(loop.todo) + (k + 1) * BatchSize =< Cardinality(IPs) + loop.left
  BY <1>3 DEF Waited, Busy
<1>8. (k + 1) * BatchSize \in Nat BY ScheduleAssumption
<1>9. Cardinality(loop'.todo) + (k + 1) * BatchSize =< Cardinality(IPs) + loop'.left
  <2> DEFINE c == (k + 1) * BatchSize
             d == Cardinality(loop.todo)
  <2>1. c \in Nat /\ d \in Nat /\ d + c =< Cardinality(IPs) + loop.left BY <1>6, <1>7, <1>8
  <2>2. Cardinality(loop'.todo) = d - 1 /\ loop'.left = loop.left - 1 BY <1>2, <1>6
  <2> HIDE DEF c, d
  <2>3. Cardinality(loop'.todo) + c =< Cardinality(IPs) + loop'.left
    BY <1>4, <2>1, <2>2, Bounds
  <2> QED BY <2>3 DEF c
<1>10. Waited(k)' BY <1>2, <1>3, <1>9 DEF Waited
<1>11. \E j \in IPs \ loop'.todo : loop'.cur = {j} BY <1>2, <1>4
<1> QED BY <1>2, <1>10, <1>11 DEF LoopInv, Busy

\* A step of the schedule loop or of one of its errors.
LoopAction ==
  \/ LoopStep \/ Restart \/ Tick
  \/ \E i \in IPs : LoopReadFails(i) \/ LoopPushFails(i) \/ LoopWriteFails(i)

\* LoopInv is inductive: the IPs still to come and the waits so far shrink and
\* grow together.
LEMMA LoopActions ==
  ASSUME Types, LoopInv, LoopAction
  PROVE  LoopInv' /\ loop' \in LoopRecord
<1>1. loop \in LoopRecord /\ loop.todo \subseteq IPs /\ loop.lag \in Nat /\ loop.left \in 0 .. BatchSize
  BY DEF Types, ActorTypes, LoopRecord
<1>2. BatchSize \in Nat \ {0} /\ MaxWait \in Nat /\ MaxWaits \in Nat BY ScheduleAssumption, WaitsBounds
<1>a. BatchSize \in 0 .. BatchSize /\ 0 \in 0 .. MaxWait BY <1>2
<1>3. CASE InitCount
  <2>1. PICK p \in {"fill", "idle"} : loop' = [loop EXCEPT !.pc = p] BY <1>3 DEF InitCount
  <2>2. loop' \in LoopRecord /\ loop'.pc = p /\ loop'.todo = loop.todo /\ loop'.lag = loop.lag
        /\ loop'.wait = loop.wait /\ loop'.cur = loop.cur
    BY <1>1, <2>1 DEF LoopRecord
  <2>3. loop.todo = {} /\ loop.lag = 0 /\ loop.wait = 0 /\ loop.cur = {} BY <1>3 DEF InitCount, LoopInv, Busy
  <2>4. Waited(0)' BY <1>2, <2>2, <2>3 DEF Waited, Busy
  <2> QED BY <2>2, <2>3, <2>4 DEF LoopInv, Busy
<1>4. CASE InitFill
  <2>1. loop' \in LoopRecord /\ loop'.pc = "idle" /\ loop'.todo = loop.todo /\ loop'.lag = loop.lag
        /\ loop'.wait = loop.wait /\ loop'.cur = loop.cur
    BY <1>1, <1>4 DEF InitFill, LoopRecord
  <2>2. loop.todo = {} /\ loop.lag = 0 /\ loop.wait = 0 /\ loop.cur = {} BY <1>4 DEF InitFill, LoopInv, Busy
  <2>3. Waited(0)' BY <1>2, <2>1, <2>2 DEF Waited, Busy
  <2> QED BY <2>1, <2>2, <2>3 DEF LoopInv, Busy
<1>5. CASE GetDue
  <2>1. Due \subseteq IPs /\ Due /= {} BY <1>5 DEF GetDue, Due
  <2>2. /\ loop' \in LoopRecord /\ loop'.pc = "batch" /\ loop'.todo = Due /\ loop'.left = BatchSize
        /\ loop'.lag = 0 /\ loop'.wait = 0 /\ loop'.cur = {}
    <3>1. IdleLoop \in LoopRecord /\ IdleLoop.lag = 0 /\ IdleLoop.wait = 0 /\ IdleLoop.cur = {}
      BY IdleRecords DEF IdleLoop, Down
    <3>2. loop' = [IdleLoop EXCEPT !.pc = "batch", !.todo = Due, !.left = BatchSize]
      BY <1>5 DEF GetDue
    <3> QED BY <1>a, <2>1, <3>1, <3>2, Zenon DEF LoopRecord
  <2>3. IsFiniteSet(Due) /\ Cardinality(Due) =< Cardinality(IPs)
    BY <2>1, ScheduleAssumption, FS_Subset
  <2>4. Cardinality(Due) \in Nat BY <2>3, FS_CardinalityType
  <2>5. Cardinality(Due) + (0 + 1) * BatchSize =< Cardinality(IPs) + BatchSize
    BY <1>2, <2>3, <2>4, Bounds
  <2>6. Waited(0)' BY <1>2, <2>2, <2>5 DEF Waited
  <2> QED BY <1>2, <2>1, <2>2, <2>6 DEF LoopInv, Busy
<1>6. CASE DrainOver
  <2>1. /\ loop.pc = "wait" /\ loop.left = 0 /\ loop.todo /= {} /\ loop.cur = {}
        /\ loop.wait \in 0 .. MaxWait
    BY <1>1, <1>6 DEF DrainOver, LoopInv, LoopRecord
  <2>2. /\ loop' \in LoopRecord /\ loop'.pc = "batch" /\ loop'.todo = loop.todo /\ loop'.left = BatchSize
        /\ loop'.lag = loop.lag /\ loop'.wait = 0 /\ loop'.cur = {}
    BY <1>1, <1>a, <1>6, <2>1, Zenon DEF DrainOver, LoopRecord
  <2>3. PICK k \in Nat : Waited(k) BY DEF LoopInv
  <2>4. /\ k < MaxWaits /\ loop.lag =< k * MaxWait + loop.wait
        /\ Cardinality(loop.todo) + (k + 1) * BatchSize =< Cardinality(IPs) + 0
    BY <2>1, <2>3 DEF Waited, Busy
  <2>5. /\ (k + 1) * MaxWait = k * MaxWait + MaxWait /\ k * MaxWait \in Nat
        /\ (k + 2) * BatchSize = (k + 1) * BatchSize + BatchSize /\ (k + 1) * BatchSize \in Nat
    BY <1>2
  <2>6. loop.lag =< (k + 1) * MaxWait + 0 /\ k + 1 =< MaxWaits BY <1>1, <1>2, <2>1, <2>4, <2>5
  <2>7. Cardinality(loop.todo) \in Nat
    BY <1>1, ScheduleAssumption, FS_Subset, FS_CardinalityType
  <2>8. Cardinality(loop.todo) + (k + 2) * BatchSize =< Cardinality(IPs) + BatchSize
    <3> DEFINE x == (k + 1) * BatchSize
               y == (k + 2) * BatchSize
    <3>1. x \in Nat /\ y = x + BatchSize /\ Cardinality(loop.todo) + x =< Cardinality(IPs)
      BY <2>4, <2>5, Bounds
    <3> HIDE DEF x, y
    <3>2. Cardinality(loop.todo) + y =< Cardinality(IPs) + BatchSize
      BY <1>2, <2>7, <3>1, Bounds
    <3> QED BY <3>2 DEF y
  <2>9. Waited(k + 1)'
    <3>1. k + 1 + 1 = k + 2 OBVIOUS
    <3> QED BY <2>2, <2>6, <2>8, <3>1 DEF Waited
  <2>10. k + 1 \in Nat OBVIOUS
  <2> QED BY <1>2, <2>1, <2>2, <2>9, <2>10 DEF LoopInv, Busy
<1>7. ASSUME NEW i \in IPs, LoopRead(i) PROVE LoopInv' /\ loop' \in LoopRecord
  <2>1. PICK p \in {"push", "remove"} :
          loop' = [Take(i) EXCEPT !.cur = {i}, !.weight = row[i].weight, !.pc = p]
    BY <1>7, Zenon DEF LoopRead
  <2>2. row[i].weight \in Int BY DEF Types, RowTypes
  <2>3. loop.pc = "batch" /\ i \in loop.todo BY <1>7 DEF LoopRead
  <2> QED BY <2>1, <2>2, <2>3, TakeLoop, Zenon
<1>8. ASSUME NEW i \in IPs, LoopReadFails(i) PROVE LoopInv' /\ loop' \in LoopRecord
  <2>1. loop' = [Take(i) EXCEPT !.cur = {i}, !.weight = loop.weight, !.pc = "remove"]
    BY <1>1, <1>8, Zenon DEF LoopReadFails, Take, LoopRecord
  <2>2. loop.weight \in Int BY <1>1 DEF LoopRecord
  <2>3. loop.pc = "batch" /\ i \in loop.todo BY <1>8 DEF LoopReadFails
  <2> QED BY <2>1, <2>2, <2>3, TakeLoop, Zenon
<1>9. ASSUME NEW i \in IPs, LoopRemove(i) \/ LoopPushFails(i) \/ LoopReschedule(i) \/ LoopWriteFails(i)
      PROVE  LoopInv' /\ loop' \in LoopRecord
  <2>1. loop.pc \in {"push", "next", "remove"} /\ loop' = NextIP(loop)
    BY <1>9 DEF LoopRemove, LoopPushFails, LoopReschedule, LoopWriteFails
  <2> QED BY <2>1, NextIPLoop
<1>10. ASSUME NEW i \in IPs, LoopPush(i) PROVE LoopInv' /\ loop' \in LoopRecord
  <2>1. /\ loop' \in LoopRecord /\ loop'.pc = "next" /\ loop'.todo = loop.todo /\ loop'.left = loop.left
        /\ loop'.lag = loop.lag /\ loop'.wait = loop.wait /\ loop'.cur = loop.cur
    BY <1>1, <1>10 DEF LoopPush, LoopRecord
  <2>2. loop.pc = "push" BY <1>10 DEF LoopPush
  <2>3. PICK k \in Nat : Waited(k) BY DEF LoopInv
  <2>4. Waited(k)' BY <2>1, <2>2, <2>3 DEF Waited, Busy
  <2> QED BY <2>1, <2>2, <2>4 DEF LoopInv, Busy
<1>11. CASE Restart
  <2>1. /\ loop' \in LoopRecord /\ loop'.pc = "down" /\ loop'.todo = {} /\ loop'.lag = 0
        /\ loop'.wait = 0 /\ loop'.cur = {}
    BY <1>11, IdleRecords DEF Restart, Down
  <2>2. Waited(0)' BY <1>2, <2>1 DEF Waited, Busy
  <2> QED BY <2>1, <2>2 DEF LoopInv, Busy
<1>12. CASE Tick
  <2>1. CASE loop.pc /= "wait"
    <3>1. loop' = loop BY <1>12, <2>1 DEF Tick
    <3> QED BY <1>1, <3>1 DEF LoopInv, Waited
  <2>2. CASE loop.pc = "wait"
    <3>1. loop.wait \in 0 .. MaxWait /\ loop.wait < MaxWait
      BY <1>1, <1>12, <2>2 DEF Tick, LoopRecord
    <3>2. loop.wait + 1 \in 0 .. MaxWait /\ loop.lag + 1 \in Nat BY <1>1, <1>2, <3>1
    <3>3. loop' = [loop EXCEPT !.lag = loop.lag + 1, !.wait = loop.wait + 1]
      BY <1>12, <2>2 DEF Tick
    <3>4. /\ loop' \in LoopRecord /\ loop'.pc = "wait" /\ loop'.todo = loop.todo /\ loop'.left = loop.left
          /\ loop'.lag = loop.lag + 1 /\ loop'.wait = loop.wait + 1 /\ loop'.cur = loop.cur
      BY <1>1, <2>2, <3>2, <3>3, Zenon DEF LoopRecord
    <3>5. PICK k \in Nat : Waited(k) BY DEF LoopInv
    <3>6. k * MaxWait \in Nat /\ loop.lag =< k * MaxWait + loop.wait BY <1>2, <3>5 DEF Waited
    <3>7. loop.lag + 1 =< k * MaxWait + (loop.wait + 1) BY <1>1, <3>1, <3>6
    <3>8. Waited(k)' BY <2>2, <3>4, <3>5, <3>7 DEF Waited
    <3> QED BY <2>2, <3>4, <3>8 DEF LoopInv, Busy
  <2> QED BY <2>1, <2>2
<1> QED BY <1>3, <1>4, <1>5, <1>6, <1>7, <1>8, <1>9, <1>10, <1>11, <1>12 DEF LoopAction, LoopStep
-----------------------------------------------------------------------------
\* A step that takes no IP up and pushes nothing keeps the distance if every
\* entry is removed, disturbed, put far ahead, or moves no nearer than time
\* has passed.
LEMMA SpacingKept ==
  ASSUME Types, EntryTypes', SpacingInv,
         loop'.todo \subseteq loop.todo,
         loop'.pc = "push" => loop.pc = "push" /\ loop'.cur = loop.cur,
         \A j \in IPs : gap'[j] >= gap[j],
         \A j \in IPs :
           \/ zset'[j] = NotIn
           \/ gap'[j] = Enough
           \/ zset'[j] >= Least
           \/ /\ zset[j] /= NotIn /\ zset'[j] + gap'[j] >= zset[j] + gap[j]
              /\ (loop.pc = "next" /\ j \in loop.cur) => (loop'.pc = "next" /\ j \in loop'.cur)
  PROVE  SpacingInv'
<1>1. loop.todo \subseteq IPs /\ loop.cur \subseteq IPs
  BY DEF Types, ActorTypes, LoopRecord
<1>2. Least \in Int /\ Least =< Enough /\ Enough \in Nat BY EnoughInRange, Bounds
<1>3. \A j \in IPs : /\ gap[j] \in Nat /\ gap'[j] \in Nat
                     /\ zset[j] = NotIn \/ zset[j] \in Nat
                     /\ zset'[j] = NotIn \/ zset'[j] \in Nat
  BY <1>2, Bounds DEF Types, EntryTypes
<1>4. ASSUME NEW j \in IPs
      PROVE  zset'[j] = NotIn \/ zset'[j] + gap'[j] >= Least \/ (loop'.pc = "next" /\ j \in loop'.cur)
  <2>1. /\ gap[j] \in Nat /\ gap'[j] \in Nat
        /\ zset[j] = NotIn \/ zset[j] \in Nat
        /\ zset'[j] = NotIn \/ zset'[j] \in Nat
    BY <1>3
  <2>2. CASE gap'[j] = Enough BY <1>2, <2>1, <2>2
  <2>3. CASE zset'[j] >= Least BY <1>2, <2>1, <2>3
  <2>4. CASE /\ zset[j] /= NotIn /\ zset'[j] + gap'[j] >= zset[j] + gap[j]
             /\ (loop.pc = "next" /\ j \in loop.cur) => (loop'.pc = "next" /\ j \in loop'.cur)
    <3>1. zset[j] + gap[j] >= Least \/ (loop.pc = "next" /\ j \in loop.cur)
      BY <2>4 DEF SpacingInv
    <3> QED BY <1>2, <2>1, <2>4, <3>1
  <2> QED BY <2>2, <2>3, <2>4
<1>5. ASSUME NEW j \in loop'.todo PROVE gap'[j] >= Least
  <2>1. j \in IPs /\ gap[j] >= Least BY <1>1 DEF SpacingInv
  <2> QED BY <1>2, <1>3, <2>1
<1>6. ASSUME loop'.pc = "push", NEW j \in loop'.cur PROVE gap'[j] >= Least
  <2>1. j \in IPs /\ gap[j] >= Least BY <1>1, <1>6 DEF SpacingInv
  <2> QED BY <1>2, <1>3, <2>1
<1> QED BY <1>4, <1>5, <1>6 DEF SpacingInv

\* The entry of i is written and counted as disturbed: by the API, a refresh,
\* a removal or a failure, or the loop goes on to the next IP after one.
LEMMA Disturbed ==
  ASSUME Types, LoopInv, SpacingInv, NEW i \in IPs,
         zset' \in [IPs -> {NotIn} \cup 0 .. Furthest],
         \A j \in IPs \ {i} : zset'[j] = zset[j],
         gap' = [gap EXCEPT ![i] = Enough],
         \/ UNCHANGED loop
         \/ loop.pc \in {"push", "next", "remove"} /\ loop.cur = {i} /\ loop' = NextIP(loop)
  PROVE  EntryTypes' /\ SpacingInv'
<1>1. /\ gap' \in [IPs -> 0 .. Enough] /\ gap'[i] = Enough
      /\ \A j \in IPs \ {i} : gap'[j] = gap[j]
  BY EnoughInRange, GapTypes, Zenon DEF Types
<1>2. EntryTypes' BY <1>1 DEF EntryTypes
<1>3. /\ loop'.todo \subseteq loop.todo
      /\ loop'.pc = "push" => loop.pc = "push" /\ loop'.cur = loop.cur
      /\ \A j \in IPs \ {i} : (loop.pc = "next" /\ j \in loop.cur) => (loop'.pc = "next" /\ j \in loop'.cur)
  <2>1. CASE UNCHANGED loop BY <2>1
  <2>2. CASE loop.pc \in {"push", "next", "remove"} /\ loop.cur = {i} /\ loop' = NextIP(loop)
    <3>1. loop \in LoopRecord BY DEF Types, ActorTypes
    <3>2. loop'.todo = loop.todo /\ loop'.pc \in {"idle", "wait", "batch"}
      BY <2>2, <3>1, NextIPRecord
    <3> QED BY <2>2, <3>2
  <2> QED BY <2>1, <2>2
<1>4. \A j \in IPs : gap[j] \in 0 .. Enough BY DEF Types, EntryTypes
<1>5. \A j \in IPs : gap'[j] >= gap[j]
  <2>1. Enough \in Nat BY Bounds
  <2>2. \A j \in IPs : gap'[j] = gap[j] \/ gap'[j] = Enough BY <1>1
  <2> QED BY <1>4, <2>1, <2>2
<1>6. ASSUME NEW j \in IPs \ {i}, zset'[j] /= NotIn
      PROVE  zset[j] /= NotIn /\ zset'[j] + gap'[j] >= zset[j] + gap[j]
  <2>1. zset'[j] = zset[j] /\ gap'[j] = gap[j] BY <1>1
  <2>2. zset[j] \in Int /\ gap[j] \in Int BY <1>4, Bounds DEF Types, EntryTypes, NotIn
  <2> QED BY <1>6, <2>1, <2>2
<1>7. \A j \in IPs :
           \/ zset'[j] = NotIn
           \/ gap'[j] = Enough
           \/ zset'[j] >= Least
           \/ /\ zset[j] /= NotIn /\ zset'[j] + gap'[j] >= zset[j] + gap[j]
              /\ (loop.pc = "next" /\ j \in loop.cur) => (loop'.pc = "next" /\ j \in loop'.cur)
  BY <1>1, <1>3, <1>6
<1> QED BY <1>2, <1>3, <1>5, <1>7, SpacingKept

\* The entry of i is put at least Least ahead by the loop or by phase 3.5.
LEMMA PutAhead ==
  ASSUME Types, LoopInv, SpacingInv, NEW i \in IPs,
         zset' \in [IPs -> {NotIn} \cup 0 .. Furthest],
         \A j \in IPs \ {i} : zset'[j] = zset[j],
         zset'[i] >= Least,
         UNCHANGED gap,
         \/ UNCHANGED loop
         \/ loop.pc = "next" /\ loop.cur = {i} /\ loop' = NextIP(loop)
  PROVE  EntryTypes' /\ SpacingInv'
<1>1. EntryTypes' BY DEF Types, EntryTypes
<1>2. /\ loop'.todo \subseteq loop.todo
      /\ loop'.pc = "push" => loop.pc = "push" /\ loop'.cur = loop.cur
      /\ \A j \in IPs \ {i} : (loop.pc = "next" /\ j \in loop.cur) => (loop'.pc = "next" /\ j \in loop'.cur)
  <2>1. CASE UNCHANGED loop BY <2>1
  <2>2. CASE loop.pc = "next" /\ loop.cur = {i} /\ loop' = NextIP(loop)
    <3>1. loop \in LoopRecord BY DEF Types, ActorTypes
    <3>2. loop'.todo = loop.todo /\ loop'.pc \in {"idle", "wait", "batch"}
      BY <2>2, <3>1, NextIPRecord
    <3> QED BY <2>2, <3>2
  <2> QED BY <2>1, <2>2
<1>3. \A j \in IPs : gap[j] \in Int /\ zset[j] \in Int BY Bounds DEF Types, EntryTypes, NotIn
<1>4. \A j \in IPs : gap'[j] >= gap[j] BY <1>3
<1>5. \A j \in IPs \ {i} : zset'[j] + gap'[j] >= zset[j] + gap[j] BY <1>3
<1>6. \A j \in IPs :
           \/ zset'[j] = NotIn
           \/ gap'[j] = Enough
           \/ zset'[j] >= Least
           \/ /\ zset[j] /= NotIn /\ zset'[j] + gap'[j] >= zset[j] + gap[j]
              /\ (loop.pc = "next" /\ j \in loop.cur) => (loop'.pc = "next" /\ j \in loop'.cur)
  BY <1>2, <1>5
<1> QED BY <1>1, <1>2, <1>4, <1>6, SpacingKept

\* The loop moves on without touching an entry and without taking an IP up.
LEMMA LoopMoves ==
  ASSUME Types, SpacingInv, UNCHANGED <<zset, gap>>,
         loop'.todo \subseteq loop.todo, loop'.pc /= "push", loop.pc /= "next"
  PROVE  EntryTypes' /\ SpacingInv'
<1>1. EntryTypes' BY DEF Types, EntryTypes
<1>2. \A j \in IPs : gap[j] \in Int /\ zset[j] \in Int BY Bounds DEF Types, EntryTypes, NotIn
<1>3. \A j \in IPs : gap'[j] >= gap[j] /\ zset'[j] + gap'[j] >= zset[j] + gap[j] /\ zset'[j] = zset[j]
  BY <1>2
<1> QED BY <1>1, <1>3, SpacingKept

\* The entries and the history after a step of the schedule loop.
LEMMA LoopEntries ==
  ASSUME Types, LoopInv, SpacingInv, LoopAction
  PROVE  EntryTypes' /\ SpacingInv'
<1>1. loop \in LoopRecord /\ loop.todo \subseteq IPs /\ loop.lag \in Nat /\ EntryTypes
  BY DEF Types, ActorTypes, LoopRecord
<1>2. Least \in Int /\ Least =< Enough /\ Enough \in Nat BY EnoughInRange, Bounds
<1>3. \A j \in IPs : gap[j] \in 0 .. Enough /\ (zset[j] = NotIn \/ zset[j] \in 0 .. Furthest)
  BY DEF Types, EntryTypes
<1>4. CASE InitCount
  <2>1. UNCHANGED <<zset, gap>> /\ loop.pc = "down" /\ loop'.todo = loop.todo /\ loop'.pc \in {"fill", "idle"}
    BY <1>1, <1>4 DEF InitCount, LoopRecord
  <2> QED BY <2>1, LoopMoves
<1>5. CASE InitFill
  <2>1. PICK next \in [Active -> 0 .. Furthest] :
          zset' = [i \in IPs |-> IF i \in Active THEN next[i] ELSE zset[i]]
    BY <1>5 DEF InitFill
  <2>2. gap' = [i \in IPs |-> IF i \in Active THEN Enough ELSE gap[i]] /\ loop.pc = "fill"
        /\ loop' = [loop EXCEPT !.pc = "idle"]
    BY <1>5 DEF InitFill
  <2>3. zset' \in [IPs -> {NotIn} \cup 0 .. Furthest] BY <1>3, <2>1
  <2>4. gap' \in [IPs -> 0 .. Enough] BY <1>3, <2>2, EnoughInRange
  <2>5. EntryTypes' BY <2>3, <2>4 DEF EntryTypes
  <2>6. loop'.todo = loop.todo /\ loop'.pc = "idle" BY <1>1, <2>2 DEF LoopRecord
  <2>7. \A j \in IPs : gap'[j] >= gap[j] BY <1>2, <1>3, <2>2
  <2>8. ASSUME NEW j \in IPs, j \notin Active
        PROVE  zset'[j] = zset[j] /\ zset'[j] + gap'[j] >= zset[j] + gap[j]
    <3>1. zset'[j] = zset[j] /\ gap'[j] = gap[j] BY <2>1, <2>2, <2>8
    <3>2. zset[j] \in Int /\ gap[j] \in Int BY <1>3, Bounds DEF NotIn
    <3> QED BY <3>1, <3>2
  <2>9. \A j \in IPs : j \in Active => gap'[j] = Enough BY <2>2
  <2> QED BY <2>2, <2>5, <2>6, <2>7, <2>8, <2>9, SpacingKept
<1>6. CASE GetDue
  <2>1. UNCHANGED <<zset, gap>> /\ loop.pc = "idle" BY <1>6 DEF GetDue
  <2>2. loop'.todo = Due /\ loop'.pc = "batch" BY <1>6, IdleRecords DEF GetDue, LoopRecord
  <2>3. ASSUME NEW j \in Due PROVE gap[j] >= Least
    <3>1. j \in IPs /\ zset[j] = 0 BY DEF Due
    <3>2. zset[j] + gap[j] >= Least BY <2>1, <3>1 DEF SpacingInv, NotIn
    <3> QED BY <1>2, <1>3, <3>1, <3>2
  <2>4. EntryTypes' BY <1>1, <2>1 DEF EntryTypes
  <2> QED BY <2>1, <2>2, <2>3, <2>4 DEF SpacingInv
<1>7. CASE DrainOver
  <2>1. UNCHANGED <<zset, gap>> /\ loop.pc = "wait" /\ loop'.todo = loop.todo /\ loop'.pc = "batch"
    BY <1>1, <1>7 DEF DrainOver, LoopRecord
  <2> QED BY <2>1, LoopMoves
<1>8. ASSUME NEW i \in IPs, LoopRead(i) PROVE EntryTypes' /\ SpacingInv'
  <2>1. PICK p \in {"push", "remove"} :
          loop' = [Take(i) EXCEPT !.cur = {i}, !.weight = row[i].weight, !.pc = p]
    BY <1>8, Zenon DEF LoopRead
  <2>2. row[i].weight \in Int BY DEF Types, RowTypes
  <2>3. loop.pc = "batch" /\ i \in loop.todo /\ UNCHANGED <<zset, gap>> BY <1>8 DEF LoopRead
  <2>4. loop'.pc = p /\ loop'.cur = {i} /\ loop'.todo = loop.todo \ {i} BY <2>1, <2>2, <2>3, TakeLoop, Zenon
  <2>5. EntryTypes' BY <1>1, <2>3 DEF EntryTypes
  <2> QED BY <2>3, <2>4, <2>5 DEF SpacingInv
<1>9. ASSUME NEW i \in IPs, LoopReadFails(i) PROVE EntryTypes' /\ SpacingInv'
  <2>1. loop.pc = "batch" /\ UNCHANGED <<zset, gap>> /\ loop'.pc = "remove" /\ loop'.todo = loop.todo \ {i}
    BY <1>1, <1>9 DEF LoopReadFails, Take, LoopRecord
  <2> QED BY <2>1, LoopMoves
<1>10. ASSUME NEW i \in IPs, LoopRemove(i) PROVE EntryTypes' /\ SpacingInv'
  <2>1. ZRem(i) /\ gap' = [gap EXCEPT ![i] = Enough] /\ loop.pc = "remove" /\ loop.cur = {i}
        /\ loop' = NextIP(loop)
    BY <1>10 DEF LoopRemove
  <2> QED BY <1>1, <2>1, RemTypes, Disturbed, Zenon
<1>11. ASSUME NEW i \in IPs, LoopWriteFails(i) PROVE EntryTypes' /\ SpacingInv'
  <2>1. UNCHANGED zset /\ gap' = [gap EXCEPT ![i] = Enough] /\ loop.pc \in {"next", "remove"} /\ loop.cur = {i}
        /\ loop' = NextIP(loop)
    BY <1>11 DEF LoopWriteFails
  <2>2. zset' \in [IPs -> {NotIn} \cup 0 .. Furthest] BY <1>1, <2>1 DEF EntryTypes
  <2> QED BY <2>1, <2>2, Disturbed, Zenon
<1>12. ASSUME NEW i \in IPs, LoopPushFails(i) PROVE EntryTypes' /\ SpacingInv'
  <2>1. ZAdd(i, Sub - loop.lag) /\ gap' = [gap EXCEPT ![i] = Enough] /\ loop.pc = "push" /\ loop.cur = {i}
        /\ loop' = NextIP(loop)
    BY <1>12 DEF LoopPushFails, RetryDelay
  <2>2. Sub - loop.lag \in Int /\ Sub - loop.lag =< Furthest BY <1>1, Bounds
  <2> QED BY <1>1, <2>1, <2>2, AddTypes, Disturbed, Zenon
<1>13. ASSUME NEW i \in IPs, LoopReschedule(i) PROVE EntryTypes' /\ SpacingInv'
  <2> DEFINE t == CalculateInterval(loop.weight)
  <2>1. ZAdd(i, t - loop.lag) /\ UNCHANGED gap /\ loop.pc = "next" /\ loop.cur = {i}
        /\ loop' = NextIP(loop)
    BY <1>13 DEF LoopReschedule
  <2>2. loop.weight \in Int BY <1>1 DEF LoopRecord
  <2>3. t \in Enough .. MaxInterval * Sub BY <2>2, IntervalBounds
  <2>4. loop.lag =< MaxLag /\ MaxLag \in Nat BY LagBounded, WaitsBounds
  <2> HIDE DEF t
  <2>5. t - loop.lag \in Int /\ t - loop.lag =< Furthest /\ t - loop.lag >= Least
    BY <1>1, <1>2, <2>3, <2>4, Bounds DEF Least
  <2>6. /\ zset' \in [IPs -> {NotIn} \cup 0 .. Furthest]
        /\ zset'[i] \in 0 .. Furthest /\ zset'[i] >= t - loop.lag
        /\ \A j \in IPs \ {i} : zset'[j] = zset[j]
    BY <1>1, <2>1, <2>5, AddTypes
  <2>7. zset'[i] >= Least BY <1>2, <2>5, <2>6, Bounds
  <2> QED BY <2>1, <2>6, <2>7, PutAhead
<1>14. ASSUME NEW i \in IPs, LoopPush(i) PROVE EntryTypes' /\ SpacingInv'
  <2>1. /\ UNCHANGED zset /\ loop.pc = "push" /\ loop.cur = {i}
        /\ loop'.pc = "next" /\ loop'.cur = {i} /\ loop'.todo = loop.todo
    BY <1>1, <1>14 DEF LoopPush, LoopRecord
  <2>2. i \notin loop.todo BY <2>1 DEF LoopInv
  <2>3. UNCHANGED gap \/ gap' = [gap EXCEPT ![i] = 0] BY <1>14 DEF LoopPush
  <2>4. gap' \in [IPs -> 0 .. Enough] /\ \A j \in IPs \ {i} : gap'[j] = gap[j]
    <3>1. CASE UNCHANGED gap BY <1>1, <3>1 DEF EntryTypes
    <3>2. CASE gap' = [gap EXCEPT ![i] = 0] BY <1>1, <3>2, EnoughInRange, GapTypes, Zenon
    <3> QED BY <2>3, <3>1, <3>2
  <2>5. EntryTypes' BY <1>1, <2>1, <2>4 DEF EntryTypes
  <2>6. \A j \in loop'.todo : gap'[j] >= Least BY <1>1, <2>1, <2>2, <2>4 DEF SpacingInv
  <2>7. ASSUME NEW j \in IPs
        PROVE  zset'[j] = NotIn \/ zset'[j] + gap'[j] >= Least \/ (loop'.pc = "next" /\ j \in loop'.cur)
    <3>1. CASE j = i BY <2>1, <3>1
    <3>2. CASE j /= i BY <2>1, <2>4, <3>2 DEF SpacingInv
    <3> QED BY <3>1, <3>2
  <2> QED BY <2>1, <2>5, <2>6, <2>7 DEF SpacingInv
<1>15. CASE Restart
  <2>1. /\ UNCHANGED zset /\ loop'.todo = {} /\ loop'.pc = "down"
        /\ gap' = [i \in IPs |-> IF i \in loop.cur THEN Enough ELSE gap[i]]
    BY <1>15 DEF Restart, Down
  <2>2. gap' \in [IPs -> 0 .. Enough] BY <1>3, <2>1, EnoughInRange
  <2>3. EntryTypes' BY <1>1, <2>1, <2>2 DEF EntryTypes
  <2>4. \A j \in IPs : gap'[j] >= gap[j] BY <1>2, <1>3, <2>1
  <2>5. ASSUME NEW j \in IPs, j \notin loop.cur
        PROVE  zset'[j] = zset[j] /\ zset'[j] + gap'[j] >= zset[j] + gap[j]
    <3>1. zset'[j] = zset[j] /\ gap'[j] = gap[j] BY <2>1, <2>5
    <3>2. zset[j] \in Int /\ gap[j] \in Int BY <1>3, Bounds DEF NotIn
    <3> QED BY <3>1, <3>2
  <2>6. \A j \in IPs : j \in loop.cur => gap'[j] = Enough BY <2>1
  <2> QED BY <2>1, <2>3, <2>4, <2>5, <2>6, SpacingKept
<1>16. CASE Tick
  <2>1. /\ zset' = [i \in IPs |-> IF zset[i] > 0 THEN zset[i] - 1 ELSE zset[i]]
        /\ gap' = [i \in IPs |-> IF gap[i] < Enough THEN gap[i] + 1 ELSE Enough]
        /\ loop.pc \in {"down", "fill", "idle", "wait"}
        /\ loop' = IF loop.pc = "wait" THEN [loop EXCEPT !.lag = @ + 1, !.wait = @ + 1] ELSE loop
    BY <1>16 DEF Tick
  <2>2. loop'.pc = loop.pc /\ loop'.todo = loop.todo BY <1>1, <2>1 DEF LoopRecord
  <2>3. ASSUME NEW j \in IPs
        PROVE  /\ zset'[j] \in {NotIn} \cup 0 .. Furthest /\ gap'[j] \in 0 .. Enough
               /\ gap'[j] >= gap[j]
               /\ \/ zset'[j] = NotIn \/ gap'[j] = Enough
                  \/ zset[j] /= NotIn /\ zset'[j] + gap'[j] >= zset[j] + gap[j]
    <3>1. /\ zset'[j] = (IF zset[j] > 0 THEN zset[j] - 1 ELSE zset[j])
          /\ gap'[j] = (IF gap[j] < Enough THEN gap[j] + 1 ELSE Enough)
      BY <2>1
    <3>2. gap[j] \in 0 .. Enough /\ (zset[j] = -1 \/ zset[j] \in 0 .. Furthest) /\ Furthest \in Nat
      BY <1>3, Bounds DEF NotIn
    <3> QED BY <1>2, <3>1, <3>2 DEF NotIn
  <2>4. zset' \in [IPs -> {NotIn} \cup 0 .. Furthest] /\ gap' \in [IPs -> 0 .. Enough]
    BY <2>1, <2>3
  <2>5. EntryTypes' BY <2>4 DEF EntryTypes
  <2> QED BY <2>1, <2>2, <2>3, <2>5, SpacingKept
<1> QED BY <1>4, <1>5, <1>6, <1>7, <1>8, <1>9, <1>10, <1>11, <1>12, <1>13, <1>14, <1>15, <1>16
        DEF LoopAction, LoopStep

\* The entries and the history after a step of anybody else.
LEMMA OtherEntries ==
  ASSUME Types, LoopInv, SpacingInv, Next, ~ LoopAction
  PROVE  EntryTypes' /\ SpacingInv' /\ UNCHANGED loop
<1>1. EntryTypes BY DEF Types
<1>2. ASSUME UNCHANGED <<zset, gap, loop>> PROVE EntryTypes' /\ SpacingInv' /\ UNCHANGED loop
  BY <1>1, <1>2 DEF EntryTypes, SpacingInv
<1>3. ASSUME NEW i \in IPs, gap' = [gap EXCEPT ![i] = Enough], UNCHANGED loop,
             ZAdd(i, 0) \/ ZRem(i)
      PROVE  EntryTypes' /\ SpacingInv' /\ UNCHANGED loop
  <2>1. 0 \in Int /\ 0 =< Furthest BY Bounds
  <2>2. /\ zset' \in [IPs -> {NotIn} \cup 0 .. Furthest]
        /\ \A j \in IPs \ {i} : zset'[j] = zset[j]
    BY <1>1, <1>3, <2>1, AddTypes, RemTypes
  <2> QED BY <1>3, <2>2, Disturbed, Zenon
<1>4. CASE RefreshStep
  <2>1. CASE RefreshRead \/ RefreshGetAll \/ \E i \in IPs : RefreshPeek(i)
    BY <1>2, <2>1, Zenon DEF RefreshRead, RefreshGetAll, RefreshPeek
  <2>2. ASSUME NEW i \in IPs, RefreshAdd(i) \/ RefreshRemove(i)
        PROVE  EntryTypes' /\ SpacingInv' /\ UNCHANGED loop
    BY <1>3, <2>2 DEF RefreshAdd, RefreshRemove
  <2> QED BY <1>4, <2>1, <2>2 DEF RefreshStep
<1>5. CASE RefreshFails BY <1>2, <1>5 DEF RefreshFails
<1>6. ASSUME NEW i \in IPs, RefreshPeekFails(i) \/ AdjustWeight(i) \/ CrawlEnds(i) \/ ScheduleIPFails(i)
      PROVE  EntryTypes' /\ SpacingInv' /\ UNCHANGED loop
  BY <1>2, <1>6 DEF RefreshPeekFails, AdjustWeight, CrawlEnds, ScheduleIPFails
<1>7. ASSUME NEW i \in IPs, ScheduleIP(i) PROVE EntryTypes' /\ SpacingInv' /\ UNCHANGED loop
  <2>1. PICK w \in Weights, now \in 0 .. ScheduleSlot :
          ZAdd(i, AlignToSlot(now + CalculateInterval(w)) - now)
    BY <1>7 DEF ScheduleIP
  <2> DEFINE c == CalculateInterval(w)
             a == AlignToSlot(now + c)
  <2>2. w \in Int /\ ScheduleSlot \in Nat BY ScheduleAssumption, IntervalAssumption
  <2>3. c \in Enough .. MaxInterval * Sub BY <2>2, IntervalBounds
  <2> HIDE DEF c
  <2>4. now + c \in Nat BY <2>2, <2>3, Bounds
  <2>5. a \in now + c .. now + c + ScheduleSlot BY <2>4, AlignBounds
  <2>6. ZAdd(i, a - now) BY <2>1 DEF c
  <2> HIDE DEF a
  <2>7. a - now \in Int /\ a - now =< Furthest /\ a - now >= Enough
    BY <2>2, <2>3, <2>4, <2>5, Bounds
  <2>8. /\ zset' \in [IPs -> {NotIn} \cup 0 .. Furthest]
        /\ zset'[i] \in 0 .. Furthest /\ zset'[i] >= a - now
        /\ \A j \in IPs \ {i} : zset'[j] = zset[j]
    BY <1>1, <2>6, <2>7, AddTypes
  <2>9. zset'[i] >= Least BY <2>7, <2>8, Bounds, EnoughInRange
  <2> QED BY <1>7, <2>8, <2>9, PutAhead DEF ScheduleIP
<1>8. ASSUME NEW c \in Clients, Requests(c) PROVE EntryTypes' /\ SpacingInv' /\ UNCHANGED loop
  BY <1>2, <1>8, Zenon DEF Requests, CreateIP, TriggerIP, UpdateIP, Request
<1>9. ASSUME NEW c \in Clients, ApiWriteFails(c) PROVE EntryTypes' /\ SpacingInv' /\ UNCHANGED loop
  BY <1>2, <1>9 DEF ApiWriteFails
<1>10. ASSUME NEW c \in Clients, NEW i \in IPs, PeekSchedule(c, i)
       PROVE  EntryTypes' /\ SpacingInv' /\ UNCHANGED loop
  BY <1>2, <1>10 DEF PeekSchedule
<1>11. ASSUME NEW c \in Clients, NEW i \in IPs, SyncStatus(c, i) \/ TriggerNow(c, i)
       PROVE  EntryTypes' /\ SpacingInv' /\ UNCHANGED loop
  BY <1>3, <1>11 DEF SyncStatus, TriggerNow
<1>12. ASSUME NEW c \in Clients, NEW i \in IPs, Reweigh(c, i)
       PROVE  EntryTypes' /\ SpacingInv' /\ UNCHANGED loop
  <2> DEFINE t == CalculateInterval(api[c].weight)
  <2>1. api[c].weight \in Int BY DEF Types, ActorTypes, ApiRecord
  <2>2. t \in Enough .. MaxInterval * Sub BY <2>1, IntervalBounds
  <2>3. ZAdd(i, t) /\ gap' = [gap EXCEPT ![i] = Enough] /\ UNCHANGED loop BY <1>12 DEF Reweigh
  <2> HIDE DEF t
  <2>4. t \in Int /\ t =< Furthest BY <2>2, Bounds
  <2> QED BY <1>1, <2>3, <2>4, AddTypes, Disturbed, Zenon
<1>13. LoopAction \/ RefreshStep \/ RefreshFails
       \/ (\E i \in IPs : \/ ScheduleIPFails(i) \/ RefreshPeekFails(i) \/ AdjustWeight(i)
                          \/ ScheduleIP(i) \/ CrawlEnds(i))
       \/ (\E c \in Clients : Requests(c) \/ ApiStep(c) \/ ApiWriteFails(c))
  BY DEF Next, LoopAction, PipelineStep
<1> QED BY <1>4, <1>5, <1>6, <1>7, <1>8, <1>9, <1>10, <1>11, <1>12, <1>13 DEF ApiStep
-----------------------------------------------------------------------------
\* A request's record, whichever handler made it.
LEMMA RequestTypes ==
  ASSUME Types, NEW c \in Clients, NEW r \in ApiRecord, api' = [api EXCEPT ![c] = r]
  PROVE  api' \in [Clients -> ApiRecord]
BY DEF Types, ActorTypes

\* The rows keep their types: a weight that is stored is an integer.
LEMMA NextRows ==
  ASSUME Types, Next
  PROVE  RowTypes'
<1>1. RowTypes /\ Weights \subseteq Int BY ScheduleAssumption DEF Types
<1>2. ASSUME UNCHANGED row PROVE RowTypes' BY <1>1, <1>2 DEF RowTypes
<1>3. ASSUME NEW c \in Clients, NEW i \in IPs, CreateIP(c, i) PROVE RowTypes'
  BY <1>1, <1>3 DEF CreateIP, RowTypes
<1>4. ASSUME NEW c \in Clients, NEW i \in IPs, NEW w \in Weights \cup {0},
             NEW st \in {"keep", "active", "off"}, UpdateIP(c, i, w, st)
      PROVE  RowTypes'
  <2> DEFINE v == IF w = 0 THEN row[i].weight ELSE w
             s == IF st = "keep" THEN row[i].status ELSE st
  <2>1. row[i] \in [status : {"none", "active", "off"}, weight : Int] BY <1>1 DEF RowTypes
  <2>2. v \in Int /\ s \in {"none", "active", "off"} BY <1>1, <2>1
  <2>3. row' = [row EXCEPT ![i].weight = v, ![i].status = s] BY <1>1, <1>4 DEF UpdateIP, RowTypes
  <2> HIDE DEF v, s
  <2> QED BY <1>1, <2>2, <2>3, Zenon DEF RowTypes
<1>5. ASSUME NEW i \in IPs, AdjustWeight(i) PROVE RowTypes'
  BY <1>1, <1>5 DEF AdjustWeight, RowTypes
<1>6. CASE LoopAction
  BY <1>2, <1>6, Zenon DEF LoopAction, LoopStep, Restart, Tick, LoopReadFails, LoopPushFails, LoopWriteFails,
     InitCount, InitFill, GetDue, DrainOver, LoopRead, LoopRemove, LoopPush, LoopReschedule
<1>7. CASE RefreshStep \/ RefreshFails
  BY <1>2, <1>7, Zenon DEF RefreshStep, RefreshFails, RefreshRead, RefreshGetAll, RefreshPeek, RefreshAdd, RefreshRemove
<1>8. ASSUME NEW i \in IPs, ScheduleIPFails(i) \/ RefreshPeekFails(i) \/ ScheduleIP(i) \/ CrawlEnds(i)
      PROVE  RowTypes'
  BY <1>2, <1>8 DEF ScheduleIPFails, RefreshPeekFails, ScheduleIP, CrawlEnds
<1>9. ASSUME NEW c \in Clients, ApiStep(c) \/ ApiWriteFails(c) PROVE RowTypes'
  BY <1>2, <1>9 DEF ApiStep, ApiWriteFails, PeekSchedule, Reweigh, SyncStatus, TriggerNow
<1>10. ASSUME NEW c \in Clients, NEW i \in IPs, TriggerIP(c, i) PROVE RowTypes'
  BY <1>2, <1>10 DEF TriggerIP
<1> QED BY <1>3, <1>4, <1>5, <1>6, <1>7, <1>8, <1>9, <1>10 DEF Next, LoopAction, PipelineStep, Requests

\* The tasks and the results keep their types.
LEMMA NextTasks ==
  ASSUME Types, Next
  PROVE  TaskTypes'
<1>1. TaskTypes /\ Active \subseteq IPs BY DEF Types, Active
<1>2. ASSUME UNCHANGED <<queued, result>> PROVE TaskTypes' BY <1>1, <1>2 DEF TaskTypes
<1>3. ASSUME NEW i \in IPs, LoopPush(i) \/ CrawlEnds(i) \/ AdjustWeight(i) \/ ScheduleIP(i) \/ ScheduleIPFails(i)
      PROVE  TaskTypes'
  BY <1>1, <1>3 DEF LoopPush, CrawlEnds, AdjustWeight, ScheduleIP, ScheduleIPFails, TaskTypes
<1>4. CASE Restart
  BY <1>1, <1>4 DEF Restart, TaskTypes
<1>5. CASE InitCount \/ InitFill \/ GetDue \/ DrainOver \/ Tick
  BY <1>2, <1>5 DEF InitCount, InitFill, GetDue, DrainOver, Tick
<1>6. ASSUME NEW i \in IPs, \/ LoopRead(i) \/ LoopRemove(i) \/ LoopReschedule(i)
                            \/ LoopReadFails(i) \/ LoopPushFails(i) \/ LoopWriteFails(i)
      PROVE  TaskTypes'
  BY <1>2, <1>6 DEF LoopRead, LoopRemove, LoopReschedule, LoopReadFails, LoopPushFails, LoopWriteFails
<1>7. CASE RefreshStep \/ RefreshFails \/ \E i \in IPs : RefreshPeekFails(i)
  BY <1>2, <1>7, Zenon DEF RefreshStep, RefreshFails, RefreshRead, RefreshGetAll, RefreshPeek, RefreshAdd,
     RefreshRemove, RefreshPeekFails
<1>8. ASSUME NEW c \in Clients, Requests(c) \/ ApiStep(c) \/ ApiWriteFails(c) PROVE TaskTypes'
  BY <1>2, <1>8, ZenonT(40) DEF Requests, CreateIP, UpdateIP, TriggerIP, Request, ApiStep, ApiWriteFails,
     PeekSchedule, Reweigh, SyncStatus, TriggerNow
<1> QED BY <1>3, <1>4, <1>5, <1>6, <1>7, <1>8 DEF Next, LoopStep, PipelineStep

\* The refresh works on IPs only.
LEMMA NextRefresh ==
  ASSUME Types, Next
  PROVE  refresh' \in RefreshRecord
<1>1. refresh \in RefreshRecord /\ Active \subseteq IPs /\ Scheduled \subseteq IPs
  BY DEF Types, ActorTypes, Active, Scheduled
<1>2. CASE UNCHANGED refresh BY <1>1, <1>2
<1>3. CASE refresh' = IdleRefresh BY <1>3, IdleRecords
<1>4. CASE RefreshRead BY <1>1, <1>4 DEF RefreshRead, RefreshRecord
<1>5. ASSUME NEW i \in IPs, RefreshPeek(i) \/ RefreshPeekFails(i) \/ RefreshAdd(i) PROVE refresh' \in RefreshRecord
  <2>1. refresh.todo \ {i} \subseteq IPs /\ {i} \subseteq IPs /\ {i} \ Scheduled \subseteq IPs
    BY <1>1 DEF RefreshRecord
  <2>2. CASE RefreshPeek(i) BY <1>1, <2>1, <2>2, Zenon DEF RefreshPeek, RefreshRecord
  <2>3. CASE RefreshPeekFails(i) BY <1>1, <2>1, <2>3, Zenon DEF RefreshPeekFails, RefreshRecord
  <2>4. CASE RefreshAdd(i) BY <1>1, <2>4 DEF RefreshAdd, RefreshRecord
  <2> QED BY <1>5, <2>2, <2>3, <2>4
<1>6. CASE RefreshGetAll
  BY <1>1, <1>3, <1>6, Zenon DEF RefreshGetAll, RefreshRecord
<1>7. ASSUME NEW i, refresh' = Removed(i) PROVE refresh' \in RefreshRecord
  BY <1>1, <1>3, <1>7 DEF Removed, RefreshRecord
<1>8. ASSUME NEW i \in IPs, RefreshRemove(i) PROVE refresh' \in RefreshRecord
  BY <1>7, <1>8 DEF RefreshRemove
<1>9. CASE RefreshFails
  <2>1. CASE refresh' = [refresh EXCEPT !.put = {}] BY <1>1, <2>1 DEF RefreshRecord
  <2> QED BY <1>3, <1>7, <1>9, <2>1 DEF RefreshFails
<1>10. CASE LoopAction
  BY <1>2, <1>3, <1>10, Zenon DEF LoopAction, LoopStep, Restart, Tick, LoopReadFails, LoopPushFails, LoopWriteFails,
     InitCount, InitFill, GetDue, DrainOver, LoopRead, LoopRemove, LoopPush, LoopReschedule
<1>11. ASSUME NEW i \in IPs, ScheduleIPFails(i) \/ AdjustWeight(i) \/ ScheduleIP(i) \/ CrawlEnds(i)
       PROVE  refresh' \in RefreshRecord
  BY <1>2, <1>11 DEF ScheduleIPFails, AdjustWeight, ScheduleIP, CrawlEnds
<1>12. ASSUME NEW c \in Clients, Requests(c) \/ ApiStep(c) \/ ApiWriteFails(c) PROVE refresh' \in RefreshRecord
  BY <1>2, <1>12, Zenon DEF Requests, CreateIP, UpdateIP, TriggerIP, Request, ApiStep, ApiWriteFails,
     PeekSchedule, Reweigh, SyncStatus, TriggerNow
<1> QED BY <1>4, <1>5, <1>6, <1>8, <1>9, <1>10, <1>11, <1>12
        DEF Next, LoopAction, RefreshStep, PipelineStep

\* The handlers keep their types.
LEMMA NextApi ==
  ASSUME Types, Next
  PROVE  api' \in [Clients -> ApiRecord]
<1>1. api \in [Clients -> ApiRecord] /\ Weights \subseteq Int BY ScheduleAssumption DEF Types, ActorTypes
<1>2. CASE UNCHANGED api BY <1>1, <1>2
<1>3. ASSUME NEW c \in Clients, api' = [api EXCEPT ![c] = IdleApi] PROVE api' \in [Clients -> ApiRecord]
  BY <1>3, IdleRecords, RequestTypes, Zenon
<1>4. ASSUME NEW c \in Clients, WeightDone(c) PROVE api' \in [Clients -> ApiRecord]
  <2>1. api[c] \in ApiRecord BY <1>1
  <2>2. [api[c] EXCEPT !.pc = "status"] \in ApiRecord BY <2>1 DEF ApiRecord
  <2>3. PICK r \in ApiRecord : api' = [api EXCEPT ![c] = r]
    BY <1>4, <2>2, IdleRecords, Zenon DEF WeightDone
  <2> QED BY <2>3, RequestTypes, Zenon
<1>5. ASSUME NEW c \in Clients, NEW i \in IPs, CreateIP(c, i) PROVE api' \in [Clients -> ApiRecord]
  <2> DEFINE r == [IdleApi EXCEPT !.pc = "status", !.ip = {i}, !.status = "active"]
  <2>1. r \in ApiRecord BY IdleRecords, Zenon DEF ApiRecord
  <2> HIDE DEF r
  <2>2. api' = [api EXCEPT ![c] = r] BY <1>5 DEF CreateIP, Request, r
  <2> QED BY <2>1, <2>2, RequestTypes, Zenon
<1>6. ASSUME NEW c \in Clients, NEW i \in IPs, TriggerIP(c, i) PROVE api' \in [Clients -> ApiRecord]
  <2> DEFINE r == [IdleApi EXCEPT !.pc = "trigger", !.ip = {i}]
  <2>1. r \in ApiRecord BY IdleRecords, Zenon DEF ApiRecord
  <2> HIDE DEF r
  <2>2. api' = [api EXCEPT ![c] = r] BY <1>6 DEF TriggerIP, Request, r
  <2> QED BY <2>1, <2>2, RequestTypes, Zenon
<1>7. ASSUME NEW c \in Clients, NEW i \in IPs, NEW w \in Weights \cup {0},
             NEW st \in {"keep", "active", "off"}, UpdateIP(c, i, w, st)
      PROVE  api' \in [Clients -> ApiRecord]
  <2> DEFINE r == [pc |-> IF w = 0 THEN "status" ELSE "weight", ip |-> {i}, weight |-> w, status |-> st]
  <2>1. w \in Int BY <1>1
  <2>2. r \in ApiRecord BY <2>1 DEF ApiRecord
  <2> HIDE DEF r
  <2>3. api' = [api EXCEPT ![c] = r] BY <1>7 DEF UpdateIP, Request, r
  <2> QED BY <2>2, <2>3, RequestTypes, Zenon
<1>8. ASSUME NEW c \in Clients, NEW i \in IPs, PeekSchedule(c, i) PROVE api' \in [Clients -> ApiRecord]
  <2>1. CASE api' = [api EXCEPT ![c].pc = "reweigh"] BY <1>1, <2>1 DEF ApiRecord
  <2> QED BY <1>4, <1>8, <2>1 DEF PeekSchedule
<1>9. ASSUME NEW c \in Clients, NEW i \in IPs, Reweigh(c, i) \/ SyncStatus(c, i) \/ TriggerNow(c, i)
      PROVE  api' \in [Clients -> ApiRecord]
  BY <1>3, <1>4, <1>9 DEF Reweigh, SyncStatus, TriggerNow
<1>10. ASSUME NEW c \in Clients, ApiWriteFails(c) PROVE api' \in [Clients -> ApiRecord]
  BY <1>3, <1>4, <1>10 DEF ApiWriteFails
<1>11. CASE Restart BY <1>11, IdleRecords DEF Restart
<1>12. CASE LoopAction
  BY <1>2, <1>11, <1>12, Zenon DEF LoopAction, LoopStep, Tick, LoopReadFails, LoopPushFails, LoopWriteFails,
     InitCount, InitFill, GetDue, DrainOver, LoopRead, LoopRemove, LoopPush, LoopReschedule
<1>13. CASE RefreshStep \/ RefreshFails \/ \E i \in IPs : RefreshPeekFails(i)
  BY <1>2, <1>13, Zenon DEF RefreshStep, RefreshFails, RefreshRead, RefreshGetAll, RefreshPeek, RefreshAdd,
     RefreshRemove, RefreshPeekFails
<1>14. ASSUME NEW i \in IPs, ScheduleIPFails(i) \/ AdjustWeight(i) \/ ScheduleIP(i) \/ CrawlEnds(i)
       PROVE  api' \in [Clients -> ApiRecord]
  BY <1>2, <1>14 DEF ScheduleIPFails, AdjustWeight, ScheduleIP, CrawlEnds
<1> QED BY <1>5, <1>6, <1>7, <1>8, <1>9, <1>10, <1>12, <1>13, <1>14
        DEF Next, LoopAction, PipelineStep, Requests, ApiStep
-----------------------------------------------------------------------------
\* SpacingInv needs the bound on lag, and that needs LoopInv.
Inv == Types /\ LoopInv /\ SpacingInv

\* Nothing is scheduled or pushed at first.
LEMMA InitInv == Init => Inv
<1> SUFFICES ASSUME Init PROVE Inv OBVIOUS
<1>1. Types
  BY IdleRecords, EnoughInRange DEF Init, Types, RowTypes, EntryTypes, TaskTypes, ActorTypes, One
<1>2. loop.pc = "down" /\ loop.todo = {} /\ loop.lag = 0 /\ loop.wait = 0 /\ loop.cur = {}
  BY DEF Init, Down
<1>3. Waited(0) BY <1>2, WaitsBounds, ScheduleAssumption DEF Waited, Busy
<1>4. LoopInv BY <1>2, <1>3 DEF LoopInv, Busy
<1>5. SpacingInv BY <1>2 DEF Init, SpacingInv
<1> QED BY <1>1, <1>4, <1>5 DEF Inv

\* Inv is inductive.
LEMMA NextInv == Inv /\ [Next]_vars => Inv'
<1> SUFFICES ASSUME Inv, [Next]_vars PROVE Inv' OBVIOUS
<1>1. CASE UNCHANGED vars
  BY <1>1 DEF vars, Inv, Types, RowTypes, EntryTypes, TaskTypes, ActorTypes, LoopInv, Waited, SpacingInv
<1>2. CASE Next
  <2>1. Types /\ LoopInv /\ SpacingInv BY DEF Inv
  <2>2. RowTypes' /\ TaskTypes' /\ refresh' \in RefreshRecord /\ api' \in [Clients -> ApiRecord]
    BY <1>2, <2>1, NextRows, NextTasks, NextRefresh, NextApi
  <2>3. CASE LoopAction
    <3>1. LoopInv' /\ loop' \in LoopRecord BY <2>1, <2>3, LoopActions
    <3>2. EntryTypes' /\ SpacingInv' BY <2>1, <2>3, LoopEntries
    <3> QED BY <2>2, <3>1, <3>2 DEF Inv, Types, ActorTypes
  <2>4. CASE ~ LoopAction
    <3>1. EntryTypes' /\ SpacingInv' /\ UNCHANGED loop BY <1>2, <2>1, <2>4, OtherEntries
    <3>2. LoopInv' /\ loop' \in LoopRecord BY <2>1, <3>1 DEF LoopInv, Waited, Types, ActorTypes
    <3> QED BY <2>2, <3>1, <3>2 DEF Inv, Types, ActorTypes
  <2> QED BY <2>3, <2>4
<1> QED BY <1>1, <1>2

\* Only a push of the loop adds a task.
LEMMA PushedByLoop ==
  ASSUME Types, Next, NEW i \in IPs, i \notin queued, i \in queued'
  PROVE  loop.pc = "push" /\ loop.cur = {i}
<1>1. ASSUME UNCHANGED queued PROVE FALSE BY <1>1
<1>2. ASSUME NEW j \in IPs, CrawlEnds(j) PROVE FALSE BY <1>2 DEF CrawlEnds
<1>3. ASSUME NEW j \in IPs, LoopPush(j) PROVE loop.pc = "push" /\ loop.cur = {i}
  BY <1>3 DEF LoopPush
<1>4. ~ (InitCount \/ InitFill \/ GetDue \/ DrainOver \/ Tick \/ Restart)
  BY <1>1 DEF InitCount, InitFill, GetDue, DrainOver, Tick, Restart
<1>5. ASSUME NEW j \in IPs, \/ LoopRead(j) \/ LoopRemove(j) \/ LoopReschedule(j)
                            \/ LoopReadFails(j) \/ LoopPushFails(j) \/ LoopWriteFails(j)
      PROVE  FALSE
  BY <1>1, <1>5 DEF LoopRead, LoopRemove, LoopReschedule, LoopReadFails, LoopPushFails, LoopWriteFails
<1>6. ~ (RefreshStep \/ RefreshFails \/ \E j \in IPs : RefreshPeekFails(j))
  BY <1>1, Zenon DEF RefreshStep, RefreshFails, RefreshRead, RefreshGetAll, RefreshPeek, RefreshAdd,
     RefreshRemove, RefreshPeekFails
<1>7. ASSUME NEW j \in IPs, ScheduleIPFails(j) \/ AdjustWeight(j) \/ ScheduleIP(j) PROVE FALSE
  BY <1>1, <1>7 DEF ScheduleIPFails, AdjustWeight, ScheduleIP
<1>8. ASSUME NEW c \in Clients, Requests(c) \/ ApiStep(c) \/ ApiWriteFails(c) PROVE FALSE
  BY <1>1, <1>8, Zenon DEF Requests, CreateIP, UpdateIP, TriggerIP, Request, ApiStep, ApiWriteFails,
     PeekSchedule, Reweigh, SyncStatus, TriggerNow
<1> QED BY <1>2, <1>3, <1>4, <1>5, <1>6, <1>7, <1>8 DEF Next, LoopStep, PipelineStep

\* The schedule, the loop, the refresh and the handlers keep their types; no
\* entry is further ahead than an interval and a slot (or the spread of a
\* first start), and the `now` of checkAndSchedule is never older than the
\* waits between its batches.
THEOREM ScheduleTypes == Spec => []TypeOK
<1>1. Inv => TypeOK
  <2> SUFFICES ASSUME Inv PROVE TypeOK OBVIOUS
  <2>1. Types /\ LoopInv BY DEF Inv
  <2>2. loop.lag \in 0 .. MaxLag
    <3>1. loop.lag \in Nat BY <2>1 DEF Types, ActorTypes, LoopRecord
    <3> QED BY <2>1, <3>1, LagBounded, WaitsBounds
  <2>3. loop \in LoopRecord BY <2>1 DEF Types, ActorTypes
  <2>4. loop \in [pc : {"down", "fill", "idle", "batch", "push", "next", "remove", "wait"},
                  todo : SUBSET IPs, left : 0 .. BatchSize, lag : 0 .. MaxLag,
                  wait : 0 .. MaxWait, cur : SUBSET IPs, weight : Int]
    BY <2>2, <2>3 DEF LoopRecord
  <2> QED BY <2>1, <2>4 DEF TypeOK, Types, RowTypes, EntryTypes, TaskTypes, ActorTypes, RefreshRecord, ApiRecord
<1> QED BY <1>1, InitInv, NextInv, PTL DEF Spec

\* Two tasks of an IP are accepted at least MinInterval apart, less the time
\* checkAndSchedule may wait between its batches, unless somebody else wrote
\* the entry in between: for any number of IPs and any batch size.
THEOREM PushesAreSpaced == Spec => PushSpacing
<1>1. Inv /\ [Next]_vars => [\A i \in IPs : (i \notin queued /\ i \in queued') => gap[i] >= Enough - MaxLag]_vars
  <2> SUFFICES ASSUME Inv, Next, NEW i \in IPs, i \notin queued, i \in queued'
               PROVE  gap[i] >= Enough - MaxLag
    OBVIOUS
  <2>1. loop.pc = "push" /\ loop.cur = {i} BY PushedByLoop DEF Inv
  <2> QED BY <2>1 DEF Inv, SpacingInv, Least
<1> QED BY <1>1, InitInv, NextInv, PTL DEF Spec, PushSpacing
================================================================================
