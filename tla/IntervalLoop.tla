----------------------------- MODULE IntervalLoop -----------------------------
(***************************************************************************)
(* The feedback loop that sets one IP's crawl interval: a processed result *)
(* reads the stored weight, adjusts it by what the crawl saw, writes it    *)
(* back and schedules the next crawl (pipeline phases 3 and 3.5), while    *)
(* the API edits the same weight (updateIP, importIPs) and the scheduler   *)
(* uses it (checkAndSchedule).                                             *)
(*                                                                         *)
(* The read and the write of a weight are separate MySQL statements, so    *)
(* two results of the IP and an edit interleave freely.                    *)
(***************************************************************************)
EXTENDS Intervals

CONSTANTS
  Workers,     \* pipeline workers
  ApiWeights,  \* hundredths: what the API stores
  Offsets,     \* time.Now(), as far as the slot alignment can tell
  MaxEdits,    \* bound: API edits
  MaxFaults    \* bound: MySQL errors

ASSUME LoopAssumption ==
  /\ ApiWeights \subseteq Int
  /\ Offsets \subseteq Nat
  /\ MaxEdits \in Nat /\ MaxFaults \in Nat

VARIABLES
  weight,   \* ip_metadata.weight, in hundredths
  demand,   \* what the market does, and so what a crawl sees
  job,      \* per worker: the step it is at and what it read
  api,      \* the handler's pending UpdateIPWeight: a weight, or 0
  spacing,  \* how far ahead the last Schedule put the next crawl
  edits, faults

vars == <<weight, demand, job, api, spacing, edits, faults>>

Demands == {"hot", "quiet", "usual"}

\* New listings and sales of a crawl, at the edges of the thresholds.
Flows(d) ==
  IF d = "hot" THEN {<<ActiveInflow + 1, 0>>, <<0, ActiveOutflow + 1>>}
  ELSE IF d = "quiet" THEN {<<0, 0>>, <<ColdInflow - 1, ColdOutflow - 1>>}
  ELSE {<<ColdInflow, 0>>, <<0, ColdOutflow>>, <<ActiveInflow, ActiveOutflow>>}

Idle == [pc |-> "idle", read |-> One, flow |-> <<0, 0>>, interval |-> 0]

Init ==
  /\ weight = One
  /\ demand \in Demands
  /\ job = [k \in Workers |-> Idle]
  /\ api = 0
  /\ spacing = BaseInterval * Sub
  /\ edits = 0
  /\ faults = 0

Market ==
  /\ demand' \in Demands
  /\ UNCHANGED <<weight, job, api, spacing, edits, faults>>

\* A result arrives and GetCurrentWeight reads the weight.
GetCurrentWeight(k) ==
  /\ job[k].pc = "idle"
  /\ \E f \in Flows(demand) :
       job' = [job EXCEPT ![k] = [Idle EXCEPT !.pc = "adjust", !.flow = f, !.read = Positive(weight)]]
  /\ UNCHANGED <<weight, demand, api, spacing, edits, faults>>

\* GetCurrentWeight fails: no adjustment, newWeight stays 1.0.
WeightUnreadable(k) ==
  /\ job[k].pc = "idle"
  /\ faults < MaxFaults
  /\ faults' = faults + 1
  /\ job' = [job EXCEPT ![k] = [Idle EXCEPT !.pc = "schedule", !.interval = CalculateInterval(One)]]
  /\ UNCHANGED <<weight, demand, api, spacing, edits>>

NewMinutes(k) ==
  LET cur == WeightToIntervalMinutes(job[k].read)
  IN  CalculateNewInterval(cur, DetermineAdjustment(job[k].flow[1], job[k].flow[2], cur))

\* Adjust of a later crawl.  Pipeline's newWeight is the float
\* BaseInterval / minutes, so phase 3.5 gets the minutes back exactly.
Adjust(k) ==
  /\ job[k].pc = "adjust"
  /\ IF NewMinutes(k) = WeightToIntervalMinutes(job[k].read)
     THEN /\ job' = [job EXCEPT ![k].pc = "schedule",
                                ![k].interval = CalculateInterval(job[k].read)]
          /\ UNCHANGED weight
     ELSE /\ weight' = IntervalMinutesToWeight(NewMinutes(k))
          /\ job' = [job EXCEPT ![k].pc = "schedule", ![k].interval = Clamp(NewMinutes(k) * Sub)]
  /\ UNCHANGED <<demand, api, spacing, edits, faults>>

\* Adjust of a first crawl, or its updateWeight failed: newWeight = currentWeight.
AdjustSkipped(k) ==
  /\ job[k].pc = "adjust"
  /\ faults < MaxFaults
  /\ faults' = faults + 1
  /\ job' = [job EXCEPT ![k].pc = "schedule", ![k].interval = CalculateInterval(job[k].read)]
  /\ UNCHANGED <<weight, demand, api, spacing, edits>>

\* Phase 3.5: ScheduleIP(now + interval, aligned to the slot).
SchedulePhase(k) ==
  /\ job[k].pc = "schedule"
  /\ \E now \in Offsets : spacing' = AlignToSlot(now + job[k].interval) - now
  /\ job' = [job EXCEPT ![k] = Idle]
  /\ UNCHANGED <<weight, demand, api, edits, faults>>

\* checkAndSchedule reads the weight with the IP and schedules by it.
CheckAndSchedule ==
  /\ spacing' = CalculateInterval(weight)
  /\ UNCHANGED <<weight, demand, job, api, edits, faults>>

\* updateIP / importIPs: the weight is stored ...
EditWeight ==
  /\ api = 0
  /\ edits < MaxEdits
  /\ edits' = edits + 1
  /\ \E w \in ApiWeights : weight' = w /\ api' = w
  /\ UNCHANGED <<demand, job, spacing, faults>>

\* ... and then UpdateIPWeight reschedules the IP.
UpdateIPWeight ==
  /\ api /= 0
  /\ spacing' = CalculateInterval(api)
  /\ api' = 0
  /\ UNCHANGED <<weight, demand, job, edits, faults>>

Next ==
  \/ Market \/ CheckAndSchedule \/ EditWeight \/ UpdateIPWeight
  \/ \E k \in Workers :
       \/ GetCurrentWeight(k) \/ WeightUnreadable(k)
       \/ Adjust(k) \/ AdjustSkipped(k) \/ SchedulePhase(k)

Spec == Init /\ [][Next]_vars

\* The pipeline keeps processing this IP's results, and a handler that has
\* begun returns.
FairSpec ==
  /\ Spec
  /\ WF_vars(UpdateIPWeight)
  /\ \A k \in Workers :
       WF_vars(GetCurrentWeight(k) \/ Adjust(k) \/ SchedulePhase(k))
-----------------------------------------------------------------------------
Longest == MaxInterval * Sub + (IF ScheduleSlot = 0 THEN 0 ELSE ScheduleSlot - 1)

\* Whatever weight the API stores (zero and negative ones included), whoever
\* writes the schedule last (checkAndSchedule, UpdateIPWeight, phase 3.5 with
\* a weight that is stale by now), and wherever the slot boundary falls, the
\* next crawl lies between MinInterval and MaxInterval plus less than a slot.
SpacingBounded == spacing \in MinInterval * Sub .. Longest

Towards(before, after, goal) ==
  (before =< after /\ after =< goal) \/ (goal =< after /\ after =< before)

\* An adjustment moves the interval the scheduler uses in the direction of
\* its type (AdjustmentTypeActive "shorten the interval", Cold "lengthen",
\* Regress towards the base and not past it), the rounding to minutes and the
\* rounding of the weight column included.
AdjustsInItsDirection ==
  [][\A k \in Workers :
       (job[k].pc = "adjust" /\ job'[k].pc = "schedule" /\ weight' /= weight) =>
         LET before == CalculateInterval(job[k].read)
             after == CalculateInterval(weight')
             type == DetermineAdjustment(job[k].flow[1], job[k].flow[2],
                                         WeightToIntervalMinutes(job[k].read))
         IN  /\ type = "active" => after =< before
             /\ type = "cold" => after >= before
             /\ type = "regress" => Towards(before, after, BaseInterval * Sub)]_vars

\* The loop settles where the market wants it: while an IP stays hot it comes
\* to MinInterval, while it stays quiet to MaxInterval, and while it sells as
\* usual back to BaseInterval, whatever weight it starts from (one set through
\* the API included) and in spite of the rounding of the weight column.
Settled(minutes) == CalculateInterval(weight) = minutes * Sub
SettlesWithDemand ==
  /\ <>[](demand = "hot") => <>[]Settled(MinInterval)
  /\ <>[](demand = "quiet") => <>[]Settled(MaxInterval)
  /\ <>[](demand = "usual") => <>[]Settled(BaseInterval)
=============================================================================
