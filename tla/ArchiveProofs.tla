--------------------------- MODULE ArchiveProofs ---------------------------
(***************************************************************************)
(* Proofs about the daily, weekly and monthly rows of the archive, for any *)
(* calendar, any retention that keeps the daily rows for a week and the    *)
(* weekly rows for a month, and any number of crawls, failures and requests. *)
(***************************************************************************)
EXTENDS HourlyStatsProofs

\* aggregateHourlyToDailyForIP writes what the day has come to; without the
\* snapshots, only the number of samples is missing, and GORM leaves that
\* column as it was.
LEMMA AggregatedDay ==
  ASSUME ClockInv, RowInv, HourlyInv, SnapshotInv, DailyInv, NEW d \in 0 .. day, AggregateHourlyToDaily(d)
  PROVE  /\ RowsOf(HourlyRows, d) = {} => daily' = daily
         /\ RowsOf(HourlyRows, d) # {} =>
              /\ d \in DOMAIN truth /\ IsTable(daily') /\ DOMAIN daily' = DOMAIN daily \cup {d}
              /\ \A e \in DOMAIN daily : e # d => daily'[e] = daily[e]
              /\ AtMost(daily'[d], truth[d])
              /\ (d \in DOMAIN snapshots \/ truth[d].samples = 0 => daily'[d] = truth[d])
              /\ (d \in DOMAIN daily /\ daily[d] = truth[d] => daily'[d] = truth[d])
  <1> DEFINE K == RowsOf(HourlyRows, d)
             n == IF d \in DOMAIN snapshots THEN Cardinality(snapshots[d]) ELSE 0
             v == [Sum(HourlyRows, K) EXCEPT !.samples = n]
  <1>1. daily' = IF K = {} THEN daily ELSE Upsert(daily, d, v)
    BY DEF AggregateHourlyToDaily, RowsOf
  <1>2. CASE K = {}
    BY <1>1, <1>2
  <1>3. CASE K # {}
    <2>1. d \in DOMAIN truth /\ Sum(HourlyRows, K) = [truth[d] EXCEPT !.samples = 0]
      BY <1>3, RowsAddUp
    <2>2. truth[d] \in RowTotals /\ IsTable(daily)
      BY <2>1 DEF ClockInv, IsTable, DailyInv
    <2>3. n \in {0, truth[d].samples} /\ n \in Nat /\ (d \in DOMAIN snapshots \/ truth[d].samples = 0 => n = truth[d].samples)
      BY <2>1, <2>2 DEF SnapshotInv, RowTotals
    <2> HIDE DEF n, K
    <2>4. v \in RowTotals /\ v.inflow = truth[d].inflow /\ v.outflow = truth[d].outflow /\ v.samples = n
      BY <2>1, <2>2, <2>3, Zenon DEF RowTotals
    <2> HIDE DEF v
    <2>5. AtMost(v, truth[d])
      BY <2>2, <2>3, <2>4 DEF AtMost, RowTotals
    <2>6. (d \in DOMAIN snapshots \/ truth[d].samples = 0) => v = truth[d]
      BY <2>2, <2>3, <2>4, SameTotals
    <2>7. Partial(v, truth[d])
      BY <2>2, <2>3, <2>4 DEF Partial
    <2>8. d \in DOMAIN daily => AtMost(daily[d], truth[d])
      BY Zenon DEF DailyInv
    <2>9. daily' = Upsert(daily, d, v)
      BY <1>1, <1>3
    <2>10. /\ IsTable(daily') /\ DOMAIN daily' = DOMAIN daily \cup {d}
           /\ \A e \in DOMAIN daily : e # d => daily'[e] = daily[e]
           /\ AtMost(daily'[d], truth[d]) /\ (v = truth[d] => daily'[d] = truth[d])
           /\ (d \in DOMAIN daily /\ daily[d] = truth[d] => daily'[d] = truth[d])
      <3>1. d \in DOMAIN daily => AtMost(daily[d], truth[d])
        BY <2>8
      <3>2. Written(Upsert(daily, d, v), daily, d, v, truth[d])
        BY <2>2, <2>4, <2>5, <3>1, UpsertRow
      <3> QED BY <2>7, <2>9, <3>2, Zenon DEF Written
    <2> QED BY <1>3, <2>1, <2>6, <2>10 DEF K
  <1> QED BY <1>2, <1>3, Zenon

\* At most is transitive.
LEMMA AtMostTrans ==
  ASSUME NEW r \in RowTotals, NEW s \in RowTotals, NEW t \in RowTotals, AtMost(r, s), AtMost(s, t)
  PROVE  AtMost(r, t)
  BY DEF AtMost, RowTotals

\* Nights and weeks that are over stay over.
LEMMA OverStays ==
  ASSUME ClockInv, Quiet \/ HourEnds
  PROVE  \A d \in Int : (NightOver(d) => NightOver(d)') /\ (WeekOver(d) => WeekOver(d)')
  <1>1. CASE Quiet
    BY <1>1 DEF Quiet, NightOver, WeekOver
  <1>2. CASE HourEnds
    <2>1. slot = "crawl" /\ day \in Nat /\ ((day' = day /\ slot' = slot) \/ day' = day + 1)
      BY <1>2, HourEndsClock DEF HourEnds, ClockInv
    <2> QED BY <2>1, CalendarNumbers DEF NightOver, WeekOver
  <1> QED BY <1>1, <1>2

\* The daily rows are left alone, and no night is over that was not.
LEMMA DailyStays ==
  ASSUME ClockInv, DailyInv, Quiet \/ HourEnds, UNCHANGED <<daily, truth>>,
         \A d \in DOMAIN truth : NightOver(d)' => NightOver(d),
         \A d \in DOMAIN truth : <<"day", d>> \in failed' <=> <<"day", d>> \in failed
  PROVE  DailyInv'
  <1>1. \A d \in DOMAIN truth : d \in Int /\ ToMonday(d) \in Int
    BY MondayOfDay DEF ClockInv
  <1>2. \A d \in DOMAIN truth : WeekOver(ToMonday(d)) => WeekOver(ToMonday(d))'
    BY <1>1, OverStays
  <1> QED BY <1>2, Zenon DEF DailyInv

\* A crawl adds to a day whose night is to come.
LEMMA CrawlDaily ==
  ASSUME ClockInv, DailyInv, NEW in \in 0 .. MaxInflow, NEW batch \in SUBSET (Items \ gone), Crawl(in, batch)
  PROVE  DailyInv'
  <1>1. UNCHANGED <<day, slot, daily, failed>> /\ day \in Nat
    BY DEF Crawl, clock, ClockInv
  <1>2. /\ IsTable(truth') /\ DOMAIN truth' = DOMAIN truth \cup {day}
        /\ \A d \in DOMAIN truth : d # day => truth'[d] = truth[d]
        /\ truth'[day] \in RowTotals /\ Due(day) \in RowTotals /\ AtMost(Due(day), truth'[day])
    BY CrawlTruth, Zenon
  <1>3. ASSUME NEW d \in DOMAIN daily PROVE AtMost(daily[d], truth'[d])
    <2>1. CASE d = day
      <3>1. AtMost(daily[d], Due(day)) /\ daily[d] \in RowTotals
        BY <2>1 DEF DailyInv, Due, IsTable
      <3> QED BY <1>2, <2>1, <3>1, AtMostTrans
    <2> QED BY <1>2, <2>1 DEF DailyInv
  <1>4. ~NightOver(day) /\ \A d : NightOver(d)' <=> NightOver(d)
    BY <1>1 DEF NightOver
  <1>5. \A d : WeekOver(ToMonday(d))' <=> WeekOver(ToMonday(d))
    BY <1>1 DEF WeekOver
  <1> QED BY <1>1, <1>2, <1>3, <1>4, <1>5, Zenon DEF DailyInv

\* The night's job: the rows and the snapshots of the day are all there.
LEMMA NightDaily ==
  ASSUME ClockInv, RowInv, HourlyInv, SnapshotInv, DailyInv, RunDailyArchive
  PROVE  DailyInv'
  <1> DEFINE e == day - 1
  <1>1. /\ Quiet /\ UNCHANGED <<day, truth, failed, snapshots>> /\ slot = "daily" /\ slot' # "daily"
        /\ AggregateHourlyToDaily(e)
    BY JobIsQuiet DEF RunDailyArchive, Job, Quiet, AfterDaily
  <1>2. day \in Nat /\ day > 0 /\ e \in 0 .. day /\ e \in 0 .. day - 1 /\ e < day /\ e + 1 = day
    BY <1>1 DEF ClockInv
  <1>3. ~NightOver(e)
    BY <1>1, <1>2 DEF NightOver
  <1>4. \A d \in DOMAIN truth : NightOver(d)' => d = e \/ NightOver(d)
    BY <1>1, <1>2 DEF NightOver, ClockInv
  <1>5. \A d \in DOMAIN truth : WeekOver(ToMonday(d)) => WeekOver(ToMonday(d))'
    <2>1. \A d \in DOMAIN truth : ToMonday(d) \in Int
      BY MondayOfDay DEF ClockInv
    <2> QED BY <1>1, <2>1, OverStays
  <1> HIDE DEF e
  <1>6. CASE RowsOf(HourlyRows, e) = {}
    <2>1. daily' = daily
      BY <1>1, <1>2, <1>6, AggregatedDay, Zenon
    <2>2. e \notin DOMAIN truth
      <3>1. RowsOf(hourly, e) = {}
        BY <1>2, <1>6, RowsAddUp
      <3> QED BY <1>2, <1>3, <3>1 DEF HourlyInv
    <2> QED BY <1>1, <1>4, <1>5, <2>1, <2>2, Zenon DEF DailyInv
  <1>7. CASE RowsOf(HourlyRows, e) # {}
    <2>1. /\ e \in DOMAIN truth /\ IsTable(daily') /\ DOMAIN daily' = DOMAIN daily \cup {e}
          /\ \A d \in DOMAIN daily : d # e => daily'[d] = daily[d]
          /\ AtMost(daily'[e], truth[e])
          /\ (e \in DOMAIN snapshots \/ truth[e].samples = 0 => daily'[e] = truth[e])
      BY <1>1, <1>2, <1>7, AggregatedDay
    <2>2. daily'[e] = truth[e]
      BY <1>3, <2>1, Zenon DEF SnapshotInv
    <2> QED BY <1>1, <1>4, <1>5, <2>1, <2>2, Zenon DEF DailyInv
  <1> QED BY <1>6, <1>7

\* A request of the API: the day is archived again, right if its snapshots are
\* there; otherwise a row that was right stays right.
LEMMA RequestDaily ==
  ASSUME ClockInv, RowInv, HourlyInv, SnapshotInv, DailyInv, NEW e \in DOMAIN truth, TriggerDailyArchive(e)
  PROVE  DailyInv'
  <1>1. /\ UNCHANGED <<day, slot, truth, snapshots>> /\ AggregateHourlyToDaily(e)
        /\ failed' = IF e = day \/ ~\E k \in DOMAIN hourly : k[1] = e THEN failed
                     ELSE IF e \in DOMAIN snapshots \/ truth[e].samples = 0 THEN failed \ {<<"day", e>>}
                     ELSE IF e \in DOMAIN daily THEN failed
                     ELSE failed \cup {<<"day", e>>}
    BY Zenon DEF TriggerDailyArchive, clock
  <1>2. day \in Nat /\ e \in 0 .. day /\ (e # day => e \in 0 .. day - 1)
    BY DEF ClockInv
  <1>3. (\A d : NightOver(d)' <=> NightOver(d)) /\ \A d : WeekOver(ToMonday(d))' <=> WeekOver(ToMonday(d))
    BY <1>1, Zenon DEF NightOver, WeekOver
  <1>4. \A d \in DOMAIN truth : d # e => (<<"day", d>> \in failed' <=> <<"day", d>> \in failed)
    BY <1>1, Zenon
  <1>5. (\E k \in DOMAIN hourly : k[1] = e) <=> RowsOf(hourly, e) # {}
    BY Zenon DEF RowsOf
  <1>6. ~NightOver(day)
    BY <1>2 DEF NightOver
  <1>7. CASE RowsOf(HourlyRows, e) = {}
    <2>1. daily' = daily
      BY <1>1, <1>2, <1>7, AggregatedDay, Zenon
    <2>2. e = day \/ RowsOf(hourly, e) = {}
      BY <1>2, <1>7, RowsAddUp
    <2>3. failed' = failed
      BY <1>1, <1>5, <2>2
    <2> QED BY <1>1, <1>3, <2>1, <2>3, Zenon DEF DailyInv
  <1>8. CASE RowsOf(HourlyRows, e) # {}
    <2>1. /\ IsTable(daily') /\ DOMAIN daily' = DOMAIN daily \cup {e}
          /\ \A d \in DOMAIN daily : d # e => daily'[d] = daily[d]
          /\ AtMost(daily'[e], truth[e])
          /\ (e \in DOMAIN snapshots \/ truth[e].samples = 0 => daily'[e] = truth[e])
          /\ (e \in DOMAIN daily /\ daily[e] = truth[e] => daily'[e] = truth[e])
      BY <1>1, <1>2, <1>8, AggregatedDay, Zenon
    <2>2. NightOver(e) /\ <<"day", e>> \notin failed' => daily'[e] = truth[e]
      <3> SUFFICES ASSUME NightOver(e), <<"day", e>> \notin failed' PROVE daily'[e] = truth[e]
        OBVIOUS
      <3>1. e # day /\ RowsOf(hourly, e) # {}
        BY <1>2, <1>6, <1>8, RowsAddUp
      <3>2. CASE e \in DOMAIN snapshots \/ truth[e].samples = 0
        BY <2>1, <3>2
      <3>3. CASE ~(e \in DOMAIN snapshots \/ truth[e].samples = 0)
        <4>1. e \in DOMAIN daily /\ failed' = failed
          BY <1>1, <1>5, <3>1, <3>3
        <4> QED BY <2>1, <4>1, Zenon DEF DailyInv
      <3> QED BY <3>2, <3>3
    <2>3. \A d \in DOMAIN daily' : AtMost(daily'[d], truth[d])
      BY <2>1, Zenon DEF DailyInv
    <2>4. \A d \in DOMAIN daily' : NightOver(d) /\ <<"day", d>> \notin failed' => daily'[d] = truth[d]
      <3>1. DOMAIN daily \in SUBSET DOMAIN truth
        BY Zenon DEF DailyInv
      <3> QED BY <1>4, <2>1, <2>2, <3>1, Zenon DEF DailyInv
    <2>5. \A d \in DOMAIN truth : NightOver(d) /\ ~WeekOver(ToMonday(d)) => d \in DOMAIN daily' \/ <<"day", d>> \in failed'
      BY <1>4, <2>1, Zenon DEF DailyInv
    <2> QED BY <1>1, <1>3, <2>1, <2>3, <2>4, <2>5, Zenon DEF DailyInv
  <1> QED BY <1>7, <1>8

\* The clean-up keeps the daily rows of a week that is not over.
LEMMA CleanupDaily == ASSUME ClockInv, DailyInv, RunCleanup PROVE DailyInv'
  <1>1. /\ Quiet /\ slot = "cleanup" /\ slot' = "crawl" /\ UNCHANGED <<day, truth, failed>>
        /\ daily' = daily \/ daily' = Drop(daily, {d \in DOMAIN daily : d < day - DailyRetention})
    BY CleanupDrops DEF Quiet
  <1>2. \A d \in DOMAIN truth : NightOver(d)' => NightOver(d)
    BY <1>1 DEF NightOver
  <1>3. CASE daily' = daily
    BY <1>1, <1>2, <1>3, DailyStays
  <1>4. CASE daily' = Drop(daily, {d \in DOMAIN daily : d < day - DailyRetention})
    <2> DEFINE K == {d \in DOMAIN daily : d < day - DailyRetention}
    <2>1. DOMAIN daily' = DOMAIN daily \ K /\ (\A d \in DOMAIN daily \ K : daily'[d] = daily[d]) /\ IsTable(daily')
      BY <1>4 DEF DailyInv, Drop, Restrict, IsTable
    <2>2. \A d \in DOMAIN truth : d \in Int /\ ToMonday(d) \in Int /\ ToMonday(d) =< d
      BY MondayOfDay DEF ClockInv
    <2>3. ASSUME NEW d \in DOMAIN truth, ~WeekOver(ToMonday(d))'
          PROVE  d \notin K /\ ~WeekOver(ToMonday(d))
      <3>1. ~WeekOver(ToMonday(d))
        BY <1>1, <2>2, <2>3, OverStays
      <3>2. ToMonday(d) + WeekLength > day
        BY <1>1, <2>2, <2>3, CalendarNumbers DEF WeekOver, ClockInv
      <3>3. ~(d < day - DailyRetention)
        BY <2>2, <3>2, CalendarNumbers DEF ClockInv
      <3> QED BY <3>1, <3>3
    <2> HIDE DEF K
    <2> QED BY <1>1, <1>2, <2>1, <2>3, Zenon DEF DailyInv
  <1> QED BY <1>1, <1>3, <1>4

\* The daily rows through all of this.
LEMMA NextDaily == ClockInv /\ RowInv /\ HourlyInv /\ SnapshotInv /\ DailyInv /\ [Next]_vars => DailyInv'
  <1> SUFFICES ASSUME ClockInv, RowInv, HourlyInv, SnapshotInv, DailyInv, [Next]_vars PROVE DailyInv'
    OBVIOUS
  <1>1. ASSUME NEW in \in 0 .. MaxInflow, NEW batch \in SUBSET (Items \ gone), Crawl(in, batch) PROVE DailyInv'
    BY <1>1, CrawlDaily
  <1>2. CASE HourEnds
    <2>1. UNCHANGED <<daily, truth, failed>> /\ day \in Nat /\ slot = "crawl"
          /\ ((day' = day /\ slot' = slot) \/ (day' = day + 1 /\ slot' = "daily"))
      <3>1. UNCHANGED <<daily, truth, failed>> /\ slot = "crawl"
        BY <1>2 DEF HourEnds
      <3>2. (day' = day /\ slot' = slot) \/ (day' = day + 1 /\ slot' = "daily")
        BY <1>2, HourEndsClock
      <3> QED BY <3>1, <3>2 DEF ClockInv
    <2>2. \A d \in DOMAIN truth : NightOver(d)' => NightOver(d)
      BY <2>1 DEF NightOver, ClockInv
    <2> QED BY <1>2, <2>1, <2>2, DailyStays
  <1>3. CASE RunDailyArchive
    BY <1>3, NightDaily
  <1>4. CASE RunWeeklyArchive \/ RunMonthlyArchive
    <2>1. Quiet /\ UNCHANGED <<day, daily, truth>> /\ slot # "daily"
      BY <1>4, JobIsQuiet, Zenon DEF Job, RunWeeklyArchive, RunMonthlyArchive
    <2>2. \A d \in DOMAIN truth : NightOver(d)' => NightOver(d)
      BY <2>1 DEF NightOver
    <2>3. \A d \in DOMAIN truth : <<"day", d>> \in failed' <=> <<"day", d>> \in failed
      BY <1>4 DEF RunWeeklyArchive, RunMonthlyArchive
    <2> QED BY <2>1, <2>2, <2>3, DailyStays
  <1>5. CASE Missed
    <2>1. Quiet /\ UNCHANGED <<day, daily, truth>>
      BY <1>5, JobIsQuiet DEF Job, Missed, tables
    <2>2. CASE slot # "daily"
      <3>1. \A d \in DOMAIN truth : NightOver(d)' => NightOver(d)
        BY <2>1, <2>2 DEF NightOver
      <3>2. \A d \in DOMAIN truth : <<"day", d>> \in failed' <=> <<"day", d>> \in failed
        BY <1>5, <2>2 DEF Missed
      <3> QED BY <2>1, <3>1, <3>2, DailyStays
    <2>3. CASE slot = "daily"
      <3>1. failed' = failed \cup {<<"day", day - 1>>}
        BY <1>5, <2>3 DEF Missed
      <3>2. \A d \in DOMAIN truth : NightOver(d)' => NightOver(d) \/ d = day - 1
        BY <2>1, <2>3 DEF NightOver, ClockInv
      <3>3. \A d \in DOMAIN truth : WeekOver(ToMonday(d)) => WeekOver(ToMonday(d))'
        <4>1. \A d \in DOMAIN truth : ToMonday(d) \in Int
          BY MondayOfDay DEF ClockInv
        <4> QED BY <2>1, <4>1, OverStays
      <3> QED BY <2>1, <3>1, <3>2, <3>3, Zenon DEF DailyInv
    <2> QED BY <2>2, <2>3
  <1>6. ASSUME NEW e \in DOMAIN truth, TriggerDailyArchive(e) PROVE DailyInv'
    BY <1>6, RequestDaily
  <1>7. ASSUME NEW e \in DOMAIN truth, TriggerWeeklyArchive(e) PROVE DailyInv'
    <2>1. Quiet /\ UNCHANGED <<day, slot, daily, truth>>
      BY <1>7, JobIsQuiet, Zenon DEF Job, TriggerWeeklyArchive, clock
    <2>2. \A d \in DOMAIN truth : NightOver(d)' => NightOver(d)
      BY <2>1 DEF NightOver
    <2>3. \A d \in DOMAIN truth : <<"day", d>> \in failed' <=> <<"day", d>> \in failed
      BY <1>7 DEF TriggerWeeklyArchive
    <2> QED BY <2>1, <2>2, <2>3, DailyStays
  <1>8. CASE RunCleanup
    BY <1>8, CleanupDaily
  <1>9. CASE UNCHANGED vars
    <2>1. Quiet /\ UNCHANGED <<day, slot, daily, truth, failed>>
      BY <1>9 DEF vars, Quiet, rowVars, clock, tables
    <2>2. \A d \in DOMAIN truth : NightOver(d)' => NightOver(d)
      BY <2>1 DEF NightOver
    <2> QED BY <2>1, <2>2, DailyStays
  <1> QED BY <1>1, <1>2, <1>3, <1>4, <1>5, <1>6, <1>7, <1>8, <1>9 DEF Next

\* All tables are empty in the beginning.
LEMMA InitArchive == Init => ClockInv /\ HourlyInv /\ SnapshotInv /\ DailyInv
  <1> SUFFICES ASSUME Init PROVE ClockInv /\ HourlyInv /\ SnapshotInv /\ DailyInv
    OBVIOUS
  <1>1. DOMAIN hourly = {} /\ DOMAIN snapshots = {} /\ DOMAIN daily = {} /\ DOMAIN truth = {}
    BY DEF Init
  <1>2. day = 0 /\ hour = 0 /\ slot = "crawl" /\ row = Empty
    BY DEF Init
  <1>3. IsTable(hourly) /\ IsTable(daily) /\ IsTable(truth)
    BY <1>1 DEF IsTable
  <1>4. ClockInv
    BY <1>1, <1>2, <1>3, CalendarNumbers DEF ClockInv, Slots
  <1>5. HourlyInv
    <2>1. RowsOf(hourly, day) = {} /\ Due(day) = Nothing /\ HourlyTable(hourly)
      BY <1>1, <1>3, FS_EmptySet DEF RowsOf, Due, HourlyTable
    <2>2. Sum(hourly, {}) = Nothing /\ Nothing.inflow = 0 /\ Nothing.outflow = 0 /\ Nothing.samples = 0
      BY SumOfNoRows DEF Nothing, Totals
    <2>3. row.inserted = FALSE /\ row.inflow = 0 /\ row.outflow = 0
      BY <1>2, EmptyRow, FS_EmptySet
    <2>4. 0 .. day - 1 = {}
      BY <1>2
    <2> QED BY <1>1, <2>1, <2>2, <2>3, <2>4 DEF HourlyInv
  <1> QED BY <1>1, <1>3, <1>4, <1>5, Zenon DEF SnapshotInv, DailyInv

\* The sum of one day.
LEMMA TruthOfDay ==
  ASSUME ClockInv, NEW d \in DOMAIN truth
  PROVE  TruthOf({d}) = truth[d]
  <1>1. IsTable(truth) /\ truth[d] \in RowTotals
    BY DEF ClockInv, IsTable
  <1>2. {d} \cap DOMAIN truth = {} \cup {d} /\ IsFiniteSet({}) /\ {} \in SUBSET DOMAIN truth /\ d \notin {}
    BY FS_EmptySet
  <1>3. Sum(truth, {}) = Nothing /\ Nothing.inflow = 0 /\ Nothing.outflow = 0 /\ Nothing.samples = 0
    BY SumOfNoRows DEF Nothing, Totals
  <1>4. AddsUp(Sum(truth, {} \cup {d}), Nothing, truth[d]) /\ IsFiniteSet({} \cup {d})
    BY <1>1, <1>2, <1>3, SumWithRow, Zenon
  <1>5. {} \cup {d} \in SUBSET DOMAIN truth
    OBVIOUS
  <1>6. Sum(truth, {} \cup {d}) \in RowTotals
    BY <1>1, <1>4, <1>5, SumOfTable, Zenon
  <1>7. Sum(truth, {} \cup {d}) = truth[d]
    <2>1. /\ Sum(truth, {} \cup {d}).inflow = truth[d].inflow
          /\ Sum(truth, {} \cup {d}).outflow = truth[d].outflow
          /\ Sum(truth, {} \cup {d}).samples = truth[d].samples
      <3>1. truth[d].inflow \in Nat /\ truth[d].outflow \in Nat /\ truth[d].samples \in Nat
        BY <1>1 DEF RowTotals
      <3> QED BY <1>3, <1>4, <3>1 DEF AddsUp
    <2> QED BY <1>1, <1>6, <2>1, SameTotals
  <1> QED BY <1>2, <1>7 DEF TruthOf

\* A daily row, once its night is over, is the sum of its day, unless the job
\* went wrong and nobody has repeated it: however often the day is archived
\* again, by whom, and whatever the clean-ups have deleted in between
\* (archiveDaily, triggerDailyArchive and RunCleanup).
THEOREM DailyRowsFinal == Spec => []DailyFinal
  <1> DEFINE I == ClockInv /\ RowInv /\ HourlyInv /\ SnapshotInv /\ DailyInv
  <1>1. Init => I
    BY InitRow, InitArchive
  <1>2. I /\ [Next]_vars => I'
    BY NextClock, NextRow, NextHourly, NextSnapshots, NextDaily
  <1>3. I => DailyFinal
    <2> SUFFICES ASSUME ClockInv, DailyInv, NEW d \in DOMAIN daily, d < day,
                        <<d + 1, "daily">> # <<day, slot>>, <<"day", d>> \notin failed
                 PROVE  daily[d] = TruthOf({d})
      BY DEF DailyFinal
    <2>1. d \in DOMAIN truth /\ NightOver(d)
      BY Zenon DEF DailyInv, NightOver
    <2> QED BY <2>1, TruthOfDay, Zenon DEF DailyInv
  <1> HIDE DEF I
  <1> QED BY <1>1, <1>2, <1>3, PTL DEF Spec
-----------------------------------------------------------------------------
\* The days that were crawled are finitely many, and have a sum.
LEMMA TruthOfDays ==
  ASSUME ClockInv, NEW S
  PROVE  IsTable(truth) /\ IsFiniteSet(S \cap DOMAIN truth) /\ TruthOf(S) \in RowTotals
  <1>1. IsTable(truth) /\ DOMAIN truth \in SUBSET (0 .. day) /\ day \in Int
    BY DEF ClockInv
  <1>2. IsFiniteSet(0 .. day)
    BY <1>1, FS_Interval
  <1>3. IsFiniteSet(S \cap DOMAIN truth)
    BY <1>1, <1>2, FS_Subset
  <1>4. S \cap DOMAIN truth \in SUBSET DOMAIN truth
    OBVIOUS
  <1> QED BY <1>1, <1>3, <1>4, SumOfTable, Zenon DEF TruthOf

\* The numbers of a day that was crawled, and of its week.
LEMMA CrawledDay ==
  ASSUME ClockInv, NEW d \in DOMAIN truth
  PROVE  /\ d \in Int /\ d =< day /\ day \in Nat /\ ToMonday(d) \in Int /\ Monday(ToMonday(d))
         /\ ToMonday(d) =< d /\ d < ToMonday(d) + WeekLength /\ d \in WeekDays(ToMonday(d))
  <1>1. d \in Int /\ d =< day /\ day \in Nat
    BY DEF ClockInv
  <1>2. ToMonday(d) \in Int /\ Monday(ToMonday(d)) /\ ToMonday(d) =< d /\ d < ToMonday(d) + WeekLength
    BY <1>1, MondayOfDay
  <1>3. d \in WeekDays(ToMonday(d))
    BY <1>1, <1>2, DaysOfWeek
  <1> QED BY <1>1, <1>2, <1>3

\* Every WeekLength days there is a Monday.
LEMMA MondayAfterWeek ==
  ASSUME NEW w \in Int, Monday(w)
  PROVE  Monday(w + WeekLength) /\ (w + WeekLength) % WeekLength = 0
  <1>1. WeekLength \in Int /\ WeekLength > 0
    BY CalendarNumbers
  <1>2. PICK q \in Int : w = WeekLength * q
    BY DEF Monday
  <1>3. w + WeekLength = WeekLength * (q + 1) /\ q + 1 \in Int
    BY <1>1, <1>2
  <1>4. Monday(w + WeekLength)
    BY <1>3 DEF Monday
  <1>5. ToMonday(w + WeekLength) = w + WeekLength
    BY <1>1, <1>4, DaysOfWeek
  <1>6. (w + WeekLength) % WeekLength \in Int
    BY <1>1
  <1> QED BY <1>1, <1>4, <1>5, <1>6 DEF ToMonday

\* aggregateDailyToWeeklyForIP writes at most what the week has come to, and
\* all of it if the daily rows are complete.
LEMMA AggregatedWeek ==
  ASSUME ClockInv, DailyInv, WeeklyInv, NEW d \in Int, AggregateDailyToWeekly(d)
  PROVE  LET w == ToMonday(d)
             keys == DOMAIN daily \cap WeekDays(w)
         IN  /\ keys = {} => weekly' = weekly
             /\ keys # {} =>
                  /\ \E e \in DOMAIN truth : ToMonday(e) = w
                  /\ Written(weekly', weekly, w, Sum(daily, keys), TruthOf(WeekDays(w)))
             /\ DaysComplete(w) /\ (\A e \in WeekDays(w) \cap DOMAIN truth : NightOver(e)) =>
                  keys = WeekDays(w) \cap DOMAIN truth /\ Sum(daily, keys) = TruthOf(WeekDays(w))
  <1> DEFINE w == ToMonday(d)
             keys == DOMAIN daily \cap WeekDays(w)
             days == WeekDays(w) \cap DOMAIN truth
  <1>1. weekly' = IF keys = {} THEN weekly ELSE Upsert(weekly, w, Sum(daily, keys))
    BY DEF AggregateDailyToWeekly
  <1>2. w \in Int /\ Monday(w)
    BY MondayOfDay
  <1>3. /\ IsTable(truth) /\ IsFiniteSet(days) /\ TruthOf(WeekDays(w)) \in RowTotals
        /\ days \in SUBSET DOMAIN truth
    BY TruthOfDays
  <1>4. IsTable(daily) /\ DOMAIN daily \in SUBSET DOMAIN truth /\ keys \in SUBSET days /\ keys \in SUBSET DOMAIN daily
    BY Zenon DEF DailyInv
  <1>5. IsFiniteSet(keys)
    BY <1>3, <1>4, FS_Subset
  <1>6. Sum(daily, keys) \in RowTotals
    BY <1>4, <1>5, SumOfTable, Zenon
  <1>7. AtMost(Sum(daily, keys), Sum(truth, days))
    <2>1. \A e \in keys : AtMost(daily[e], truth[e])
      BY <1>4, Zenon DEF DailyInv
    <2> HIDE DEF keys, days
    <2> QED BY <1>3, <1>4, <2>1, SumOfSmallerRows
  <1>8. Sum(truth, days) = TruthOf(WeekDays(w))
    BY DEF TruthOf
  <1>9. ASSUME keys # {} PROVE (\E e \in DOMAIN truth : ToMonday(e) = w)
    <2>1. PICK e \in keys : TRUE
      BY <1>9
    <2>2. e \in DOMAIN truth /\ e \in WeekDays(w) /\ e \in Int
      BY <1>4, <2>1 DEF ClockInv
    <2> QED BY <1>2, <2>2, DaysOfWeek
  <1>10. ASSUME keys # {} PROVE Written(weekly', weekly, w, Sum(daily, keys), TruthOf(WeekDays(w)))
    <2>1. IsTable(weekly) /\ (w \in DOMAIN weekly => AtMost(weekly[w], TruthOf(WeekDays(w))))
      BY DEF WeeklyInv
    <2>2. weekly' = Upsert(weekly, w, Sum(daily, keys)) /\ AtMost(Sum(daily, keys), TruthOf(WeekDays(w)))
      BY <1>1, <1>7, <1>8, <1>10
    <2> HIDE DEF keys, w
    <2>3. Written(Upsert(weekly, w, Sum(daily, keys)), weekly, w, Sum(daily, keys), TruthOf(WeekDays(w)))
      BY <1>3, <1>6, <2>1, <2>2, UpsertRow
    <2> QED BY <2>2, <2>3
  <1>11. ASSUME DaysComplete(w), \A e \in days : NightOver(e)
         PROVE  keys = days /\ Sum(daily, keys) = TruthOf(WeekDays(w))
    <2>1. \A e \in days : e \in DOMAIN daily /\ <<"day", e>> \notin failed
      BY <1>11, Zenon DEF DaysComplete
    <2>2. keys = days
      BY <1>4, <2>1, Zenon
    <2>3. \A e \in days : daily[e] = truth[e]
      BY <1>11, <2>1, Zenon DEF DailyInv
    <2>4. days \subseteq DOMAIN truth /\ days \in SUBSET DOMAIN daily
      BY <2>1, Zenon
    <2>5. Sum(daily, days) = Sum(truth, days)
      <3> HIDE DEF days, keys
      <3> QED BY <1>3, <1>4, <2>3, <2>4, SumOfSameRows
    <2> QED BY <1>8, <2>2, <2>5
  <1> HIDE DEF days
  <1>12. DaysComplete(w) /\ (\A e \in WeekDays(w) \cap DOMAIN truth : NightOver(e)) =>
           keys = WeekDays(w) \cap DOMAIN truth /\ Sum(daily, keys) = TruthOf(WeekDays(w))
    BY <1>11, Zenon DEF days
  <1> HIDE DEF keys, w
  <1>13. /\ keys = {} => weekly' = weekly
         /\ keys # {} => (\E e \in DOMAIN truth : ToMonday(e) = w)
                         /\ Written(weekly', weekly, w, Sum(daily, keys), TruthOf(WeekDays(w)))
    BY <1>1, <1>9, <1>10
  <1> QED BY <1>12, <1>13 DEF keys, w

\* What is too old to keep stays too old.
LEMMA OldStaysOld ==
  ASSUME NEW a \in Int, NEW b \in Int, a =< b
  PROVE  /\ ToMonday(a - WeeklyRetention) \in Int /\ ToMonday(b - WeeklyRetention) \in Int
         /\ ToMonday(a - WeeklyRetention) =< ToMonday(b - WeeklyRetention)
  <1>1. a - WeeklyRetention \in Int /\ b - WeeklyRetention \in Int /\ a - WeeklyRetention =< b - WeeklyRetention
    BY CalendarNumbers
  <1> QED BY <1>1, MondayMonotone, MondayOfDay

\* The weekly rows are left alone, and no week is over that was not, unless
\* its job is noted as failed.
LEMMA WeeklyStays ==
  ASSUME ClockInv, WeeklyInv, UNCHANGED <<weekly, truth>>, day' \in Int, day =< day',
         \A d \in DOMAIN truth : WeekOver(ToMonday(d))' => WeekOver(ToMonday(d)) \/ <<"week", ToMonday(d)>> \in failed',
         \A d \in DOMAIN truth : <<"week", ToMonday(d)>> \in failed => <<"week", ToMonday(d)>> \in failed'
  PROVE  WeeklyInv'
  <1>1. \A S : TruthOf(S)' = TruthOf(S)
    BY DEF TruthOf
  <1>2. \A w : InWeekly(w)' <=> InWeekly(w)
    BY <1>1 DEF InWeekly
  <1>3. ASSUME NEW d \in DOMAIN truth, ToMonday(d) < ToMonday(day - WeeklyRetention)
        PROVE  ToMonday(d) < ToMonday(day' - WeeklyRetention)
    <2>1. day \in Int /\ ToMonday(d) \in Int
      BY CrawledDay
    <2>2. /\ ToMonday(day - WeeklyRetention) \in Int /\ ToMonday(day' - WeeklyRetention) \in Int
          /\ ToMonday(day - WeeklyRetention) =< ToMonday(day' - WeeklyRetention)
      BY <2>1, OldStaysOld
    <2> QED BY <1>3, <2>1, <2>2
  <1>4. IsTable(weekly') /\ \A w \in DOMAIN weekly' :
          (\E d \in DOMAIN truth' : ToMonday(d) = w) /\ AtMost(weekly'[w], TruthOf(WeekDays(w))')
    BY <1>1 DEF WeeklyInv
  <1>5. \A d \in DOMAIN truth' : WeekOver(ToMonday(d))' =>
          \/ <<"week", ToMonday(d)>> \in failed'
          \/ InWeekly(ToMonday(d))'
          \/ ToMonday(d) < ToMonday(day' - WeeklyRetention)
    BY <1>2, <1>3 DEF WeeklyInv
  <1> QED BY <1>4, <1>5 DEF WeeklyInv

\* A crawl adds to a week that is not over.
LEMMA CrawlWeekly ==
  ASSUME ClockInv, WeeklyInv, NEW in \in 0 .. MaxInflow, NEW batch \in SUBSET (Items \ gone), Crawl(in, batch)
  PROVE  WeeklyInv'
  <1>1. UNCHANGED <<day, slot, weekly, failed>> /\ day \in Nat /\ slot = "crawl"
    <2>1. UNCHANGED <<clock, weekly, failed>> /\ slot = "crawl"
      BY Zenon DEF Crawl
    <2>2. day \in Nat
      BY DEF ClockInv
    <2> QED BY <2>1, <2>2 DEF clock
  <1>2. /\ IsTable(truth') /\ DOMAIN truth' = DOMAIN truth \cup {day}
        /\ \A d \in DOMAIN truth : d # day => truth'[d] = truth[d]
        /\ truth'[day] \in RowTotals /\ Due(day) \in RowTotals /\ AtMost(Due(day), truth'[day])
    BY CrawlTruth, Zenon
  <1>3. ClockInv'
    BY NextClock DEF Next
  <1>4. \A d \in DOMAIN truth : AtMost(truth[d], truth'[d])
    <2>1. \A d \in DOMAIN truth : truth[d] \in RowTotals
      BY DEF ClockInv, IsTable
    <2>2. day \in DOMAIN truth => AtMost(truth[day], truth'[day])
      BY <1>2 DEF Due
    <2>3. \A t \in RowTotals : AtMost(t, t)
      BY DEF AtMost, RowTotals
    <2>4. ASSUME NEW d \in DOMAIN truth, d # day PROVE AtMost(truth[d], truth'[d])
      BY <1>2, <2>1, <2>3, <2>4, Zenon
    <2> QED BY <2>2, <2>4, Zenon
  <1>5. ASSUME NEW S
        PROVE  /\ TruthOf(S) \in RowTotals /\ TruthOf(S)' \in RowTotals /\ AtMost(TruthOf(S), TruthOf(S)')
               /\ (day \notin S => TruthOf(S)' = TruthOf(S))
    <2> DEFINE J == S \cap DOMAIN truth
               K == S \cap DOMAIN truth'
    <2>1. IsTable(truth) /\ IsFiniteSet(J) /\ TruthOf(S) \in RowTotals
      BY TruthOfDays
    <2>2. IsFiniteSet(K)
      <3>1. K = J \/ K = J \cup {day}
        BY <1>2
      <3>2. IsFiniteSet(J \cup {day})
        BY <2>1, FS_AddElement
      <3> QED BY <2>1, <3>1, <3>2, Zenon
    <2>3. J \in SUBSET K /\ K \in SUBSET DOMAIN truth' /\ J \subseteq DOMAIN truth /\ \A k \in J : AtMost(truth[k], truth'[k])
      BY <1>2, <1>4
    <2>4. TruthOf(S)' = Sum(truth', K) /\ TruthOf(S) = Sum(truth, J)
      BY DEF TruthOf
    <2>5. day \notin S => K = J /\ \A k \in J : truth'[k] = truth[k]
      BY <1>2
    <2> HIDE DEF J, K
    <2>6. AtMost(Sum(truth, J), Sum(truth', K))
      BY <1>2, <2>1, <2>2, <2>3, SumOfSmallerRows
    <2>7. Sum(truth', K) \in RowTotals
      BY <1>2, <2>2, <2>3, SumOfTable, Zenon
    <2>8. ASSUME day \notin S PROVE Sum(truth', K) = Sum(truth, J)
      <3>1. K = J /\ J \in SUBSET DOMAIN truth' /\ J \subseteq DOMAIN truth /\ \A k \in J : truth'[k] = truth[k]
        BY <2>3, <2>5, <2>8
      <3> QED BY <1>2, <2>1, <3>1, SumOfSameRows
    <2> QED BY <2>1, <2>4, <2>6, <2>7, <2>8
  <1>6. ASSUME NEW w \in DOMAIN weekly
        PROVE  (\E d \in DOMAIN truth' : ToMonday(d) = w) /\ AtMost(weekly[w], TruthOf(WeekDays(w))')
    <2>1. (\E d \in DOMAIN truth : ToMonday(d) = w) /\ AtMost(weekly[w], TruthOf(WeekDays(w))) /\ weekly[w] \in RowTotals
      BY DEF WeeklyInv, IsTable
    <2>2. TruthOf(WeekDays(w)) \in RowTotals /\ TruthOf(WeekDays(w))' \in RowTotals
          /\ AtMost(TruthOf(WeekDays(w)), TruthOf(WeekDays(w))')
      BY <1>5
    <2>3. AtMost(weekly[w], TruthOf(WeekDays(w))')
      BY <2>1, <2>2, AtMostTrans
    <2> QED BY <1>2, <2>1, <2>3, Zenon
  <1>7. ASSUME NEW d \in DOMAIN truth', WeekOver(ToMonday(d))'
        PROVE  d \in DOMAIN truth /\ WeekOver(ToMonday(d))
               /\ TruthOf(WeekDays(ToMonday(d)))' = TruthOf(WeekDays(ToMonday(d)))
    <2>1. d \in Int
      BY <1>2, <1>1 DEF ClockInv
    <2>2. /\ ToMonday(d) \in Int /\ Monday(ToMonday(d)) /\ d < ToMonday(d) + WeekLength
          /\ \A e \in WeekDays(ToMonday(d)) : e < ToMonday(d) + WeekLength
      BY <2>1, MondayOfDay, DaysOfWeek
    <2>3. ToMonday(d) + WeekLength =< day /\ WeekOver(ToMonday(d))
      BY <1>1, <1>7, <2>2, CalendarNumbers DEF WeekOver
    <2>4. d # day /\ day \notin WeekDays(ToMonday(d))
      BY <1>1, <2>1, <2>2, <2>3, CalendarNumbers
    <2> QED BY <1>2, <1>5, <2>3, <2>4, Zenon
  <1>8. IsTable(weekly)
    BY DEF WeeklyInv
  <1>9. \A d \in DOMAIN truth' : WeekOver(ToMonday(d))' =>
          \/ <<"week", ToMonday(d)>> \in failed'
          \/ InWeekly(ToMonday(d))'
          \/ ToMonday(d) < ToMonday(day' - WeeklyRetention)
    BY <1>1, <1>7 DEF WeeklyInv, InWeekly
  <1> QED BY <1>1, <1>6, <1>8, <1>9 DEF WeeklyInv

\* On a Monday last week is the one that ends today.
LEMMA LastWeekIs ==
  ASSUME ClockInv, slot = "weekly"
  PROVE  /\ LastWeek \in Int /\ Monday(LastWeek) /\ LastWeek + WeekLength = day /\ ToMonday(LastWeek) = LastWeek
         /\ day \in Nat /\ \A d \in WeekDays(LastWeek) : d \in Int /\ LastWeek =< d /\ d < day
  <1>1. day \in Nat /\ ToMonday(day) = day /\ Monday(day) /\ WeekLength \in Nat
    <2>1. day \in Int /\ day % WeekLength = 0 /\ day \in Nat
      BY DEF ClockInv
    <2>2. ToMonday(day) = day /\ Monday(ToMonday(day))
      BY <2>1, MondayOfDay
    <2> QED BY <2>1, <2>2, CalendarNumbers
  <1>2. LastWeek = day - WeekLength /\ LastWeek \in Int /\ LastWeek + WeekLength = day
    BY <1>1 DEF LastWeek
  <1>3. Monday(LastWeek)
    <2>1. PICK q \in Int : day = WeekLength * q
      BY <1>1 DEF Monday
    <2>2. LastWeek = WeekLength * (q - 1) /\ q - 1 \in Int
      BY <1>1, <1>2, <2>1
    <2> QED BY <2>2 DEF Monday
  <1> QED BY <1>1, <1>2, <1>3, DaysOfWeek

\* A weekly row was written and the week is over: what becomes of the other
\* weeks does not depend on it.
LEMMA WeekWritten ==
  ASSUME ClockInv, DailyInv, WeeklyInv, UNCHANGED <<day, truth>>, NEW e \in Int, AggregateDailyToWeekly(e),
         NEW w, w = ToMonday(e),
         \A d \in DOMAIN truth : WeekOver(ToMonday(d))' => WeekOver(ToMonday(d)) \/ ToMonday(d) = w,
         \A d \in DOMAIN truth : ToMonday(d) # w =>
           (<<"week", ToMonday(d)>> \in failed => <<"week", ToMonday(d)>> \in failed'),
         WeekOver(w)' =>
           \/ <<"week", w>> \in failed'
           \/ DaysComplete(w) /\ \A d \in WeekDays(w) \cap DOMAIN truth : NightOver(d)
           \/ WeekOver(w) /\ weekly' = weekly /\ (<<"week", w>> \in failed => <<"week", w>> \in failed')
  PROVE  WeeklyInv'
  <1> DEFINE keys == DOMAIN daily \cap WeekDays(w)
             v == Sum(daily, keys)
             t == TruthOf(WeekDays(w))
  <1>1. /\ keys = {} => weekly' = weekly
        /\ keys # {} => (\E d \in DOMAIN truth : ToMonday(d) = w) /\ Written(weekly', weekly, w, v, t)
        /\ DaysComplete(w) /\ (\A d \in WeekDays(w) \cap DOMAIN truth : NightOver(d)) =>
             keys = WeekDays(w) \cap DOMAIN truth /\ v = t
    BY AggregatedWeek, Zenon
  <1>2. (\A S : TruthOf(S)' = TruthOf(S)) /\ (\A d \in DOMAIN truth : d \in WeekDays(ToMonday(d)))
    BY CrawledDay DEF TruthOf
  <1> HIDE DEF keys, v, t
  <1>3. IsTable(weekly') /\ \A x \in DOMAIN weekly' :
          (\E d \in DOMAIN truth : ToMonday(d) = x) /\ AtMost(weekly'[x], TruthOf(WeekDays(x)))
    <2>1. CASE keys = {}
      BY <1>1, <2>1 DEF WeeklyInv
    <2>2. CASE keys # {}
      <3>1. /\ IsTable(weekly') /\ DOMAIN weekly' = DOMAIN weekly \cup {w}
            /\ \A x \in DOMAIN weekly : x # w => weekly'[x] = weekly[x]
            /\ AtMost(weekly'[w], t) /\ (\E d \in DOMAIN truth : ToMonday(d) = w)
        BY <1>1, <2>2 DEF Written
      <3> QED BY <3>1 DEF WeeklyInv, t
    <2> QED BY <2>1, <2>2
  <1>4. ASSUME NEW x, x # w, InWeekly(x) PROVE InWeekly(x)'
    <2>1. x \in DOMAIN weekly' /\ weekly'[x] = weekly[x]
      BY <1>1, <1>4 DEF Written, InWeekly
    <2> QED BY <1>2, <1>4, <2>1 DEF InWeekly
  <1>5. ASSUME NEW d \in DOMAIN truth, ToMonday(d) = w, WeekOver(w)'
        PROVE  <<"week", w>> \in failed' \/ InWeekly(w)' \/ w < ToMonday(day - WeeklyRetention)
    <2>1. CASE DaysComplete(w) /\ \A c \in WeekDays(w) \cap DOMAIN truth : NightOver(c)
      <3>1. keys # {} /\ v = t
        BY <1>1, <1>2, <1>5, <2>1
      <3>2. w \in DOMAIN weekly' /\ weekly'[w] = t
        BY <1>1, <3>1 DEF Written
      <3> QED BY <1>2, <3>2 DEF InWeekly, t
    <2>2. CASE WeekOver(w) /\ weekly' = weekly /\ (<<"week", w>> \in failed => <<"week", w>> \in failed')
      BY <1>2, <1>5, <2>2 DEF WeeklyInv, InWeekly
    <2> QED BY <1>5, <2>1, <2>2
  <1>6. ASSUME NEW d \in DOMAIN truth, WeekOver(ToMonday(d))'
        PROVE  <<"week", ToMonday(d)>> \in failed' \/ InWeekly(ToMonday(d))' \/ ToMonday(d) < ToMonday(day - WeeklyRetention)
    <2>1. CASE ToMonday(d) = w
      BY <1>5, <1>6, <2>1
    <2>2. CASE ToMonday(d) # w
      <3>1. WeekOver(ToMonday(d))
        BY <1>6, <2>2
      <3>2. <<"week", ToMonday(d)>> \in failed \/ InWeekly(ToMonday(d)) \/ ToMonday(d) < ToMonday(day - WeeklyRetention)
        BY <3>1 DEF WeeklyInv
      <3> QED BY <1>4, <2>2, <3>2
    <2> QED BY <2>1, <2>2
  <1> QED BY <1>2, <1>3, <1>6 DEF WeeklyInv

\* The Monday's job: last week's row is complete if the daily rows are.
LEMMA MondayWeekly == ASSUME ClockInv, DailyInv, WeeklyInv, RunWeeklyArchive PROVE WeeklyInv'
  <1>1. /\ UNCHANGED <<day, truth>> /\ slot = "weekly" /\ slot' \notin {"daily", "weekly"}
        /\ AggregateDailyToWeekly(LastWeek)
        /\ failed' = IF DaysComplete(LastWeek) THEN failed ELSE failed \cup {<<"week", LastWeek>>}
    BY DEF RunWeeklyArchive, AfterWeekly
  <1>2. /\ LastWeek \in Int /\ LastWeek + WeekLength = day /\ ToMonday(LastWeek) = LastWeek
        /\ day \in Nat /\ \A d \in WeekDays(LastWeek) : d \in Int /\ LastWeek =< d /\ d < day
    BY <1>1, LastWeekIs
  <1>3. \A d \in DOMAIN truth : WeekOver(ToMonday(d))' => WeekOver(ToMonday(d)) \/ ToMonday(d) = LastWeek
    <2>1. \A d \in DOMAIN truth : ToMonday(d) \in Int
      BY CrawledDay
    <2> QED BY <1>1, <1>2, <2>1, CalendarNumbers DEF WeekOver
  <1>4. \A d \in WeekDays(LastWeek) \cap DOMAIN truth : NightOver(d)
    BY <1>1, <1>2 DEF NightOver
  <1>5. <<"week", LastWeek>> \in failed' \/ DaysComplete(LastWeek)
    BY <1>1
  <1>6. \A d \in DOMAIN truth : <<"week", ToMonday(d)>> \in failed => <<"week", ToMonday(d)>> \in failed'
    BY <1>1
  <1> HIDE DEF LastWeek
  <1> QED BY <1>1, <1>2, <1>3, <1>4, <1>5, <1>6, WeekWritten

\* A request of the API makes good for the Monday's job, or is noted.
LEMMA RequestWeekly ==
  ASSUME ClockInv, DailyInv, WeeklyInv, NEW e \in DOMAIN truth, TriggerWeeklyArchive(e)
  PROVE  WeeklyInv'
  <1> DEFINE w == ToMonday(e)
  <1>1. /\ UNCHANGED <<day, slot, truth>> /\ AggregateDailyToWeekly(e)
        /\ failed' = IF w + WeekLength =< day /\ DaysComplete(w) THEN failed \ {<<"week", w>>}
                     ELSE IF weekly' = weekly THEN failed
                     ELSE failed \cup {IF w + WeekLength =< day THEN <<"week", w>> ELSE <<"month", MonthOf(w)>>}
    BY DEF TriggerWeeklyArchive, clock
  <1>2. e \in Int /\ w \in Int /\ day \in Nat /\ \A d \in WeekDays(w) : d \in Int /\ d < w + WeekLength
    BY CrawledDay, DaysOfWeek
  <1>3. \A d \in DOMAIN truth : WeekOver(ToMonday(d))' => WeekOver(ToMonday(d))
    BY <1>1 DEF WeekOver
  <1>4. \A d \in DOMAIN truth : ToMonday(d) # w =>
          (<<"week", ToMonday(d)>> \in failed => <<"week", ToMonday(d)>> \in failed')
    BY <1>1
  <1>5. ASSUME WeekOver(w)'
        PROVE  \/ <<"week", w>> \in failed'
               \/ DaysComplete(w) /\ \A d \in WeekDays(w) \cap DOMAIN truth : NightOver(d)
               \/ WeekOver(w) /\ weekly' = weekly /\ (<<"week", w>> \in failed => <<"week", w>> \in failed')
    <2>1. WeekOver(w) /\ w + WeekLength =< day
      BY <1>1, <1>2, <1>5, CalendarNumbers DEF WeekOver
    <2>2. \A d \in WeekDays(w) \cap DOMAIN truth : NightOver(d)
      <3>1. (w + WeekLength < day) \/ (w + WeekLength = day /\ slot # "daily")
        BY <2>1 DEF WeekOver
      <3> QED BY <1>2, <3>1, CalendarNumbers DEF NightOver
    <2> QED BY <1>1, <2>1, <2>2
  <1> HIDE DEF w
  <1>6. w = ToMonday(e)
    BY DEF w
  <1> QED BY <1>1, <1>2, <1>3, <1>4, <1>5, <1>6, WeekWritten

\* The clean-up deletes the weekly rows that are old.
LEMMA CleanupWeekly == ASSUME ClockInv, WeeklyInv, RunCleanup PROVE WeeklyInv'
  <1> DEFINE K == {w \in DOMAIN weekly : w < ToMonday(day - WeeklyRetention)}
  <1>1. /\ slot = "cleanup" /\ slot' = "crawl" /\ UNCHANGED <<day, truth, failed>>
        /\ weekly' = weekly \/ weekly' = Drop(weekly, K)
    BY CleanupDrops DEF Quiet
  <1>2. \A d \in DOMAIN truth : WeekOver(ToMonday(d))' => WeekOver(ToMonday(d))
    BY <1>1 DEF WeekOver
  <1>3. CASE weekly' = weekly
    BY <1>1, <1>2, <1>3, WeeklyStays DEF ClockInv
  <1>4. CASE weekly' = Drop(weekly, K)
    <2>1. DOMAIN weekly' = DOMAIN weekly \ K /\ (\A w \in DOMAIN weekly \ K : weekly'[w] = weekly[w]) /\ IsTable(weekly')
      BY <1>4 DEF WeeklyInv, Drop, Restrict, IsTable
    <2>2. \A S : TruthOf(S)' = TruthOf(S)
      BY <1>1 DEF TruthOf
    <2>3. \A w \in DOMAIN weekly' :
            (\E d \in DOMAIN truth' : ToMonday(d) = w) /\ AtMost(weekly'[w], TruthOf(WeekDays(w))')
      BY <1>1, <2>1, <2>2 DEF WeeklyInv
    <2>4. ASSUME NEW w, InWeekly(w) PROVE InWeekly(w)' \/ w < ToMonday(day - WeeklyRetention)
      BY <2>1, <2>2, <2>4, Zenon DEF InWeekly
    <2> HIDE DEF K
    <2>5. \A d \in DOMAIN truth' : WeekOver(ToMonday(d))' =>
            \/ <<"week", ToMonday(d)>> \in failed'
            \/ InWeekly(ToMonday(d))'
            \/ ToMonday(d) < ToMonday(day' - WeeklyRetention)
      BY <1>1, <1>2, <2>4 DEF WeeklyInv
    <2> QED BY <2>1, <2>3, <2>5 DEF WeeklyInv
  <1> QED BY <1>1, <1>3, <1>4

\* The weekly rows through all of this.
LEMMA NextWeekly == ClockInv /\ DailyInv /\ WeeklyInv /\ [Next]_vars => WeeklyInv'
  <1> SUFFICES ASSUME ClockInv, DailyInv, WeeklyInv, [Next]_vars PROVE WeeklyInv'
    OBVIOUS
  <1>0. /\ \A d \in DOMAIN truth : ToMonday(d) \in Int /\ Monday(ToMonday(d))
        /\ \A d \in DOMAIN truth : ToMonday(d) + WeekLength = day => day % WeekLength = 0
    BY CrawledDay, MondayAfterWeek
  <1>a. day \in Int /\ WeekLength \in Int
    BY CalendarNumbers DEF ClockInv
  <1>1. ASSUME NEW in \in 0 .. MaxInflow, NEW batch \in SUBSET (Items \ gone), Crawl(in, batch) PROVE WeeklyInv'
    BY <1>1, CrawlWeekly
  <1>2. CASE HourEnds
    <2>1. UNCHANGED <<weekly, truth, failed>> /\ slot = "crawl"
      BY <1>2 DEF HourEnds
    <2>2. (day' = day /\ slot' = slot) \/ (day' = day + 1 /\ slot' = "daily")
      BY <1>2, HourEndsClock
    <2>3. \A d \in DOMAIN truth : WeekOver(ToMonday(d))' => WeekOver(ToMonday(d))
      BY <1>0, <1>a, <2>1, <2>2 DEF WeekOver
    <2>4. day' \in Int /\ day =< day'
      BY <1>a, <2>2
    <2> QED BY <2>1, <2>3, <2>4, WeeklyStays
  <1>3. ASSUME UNCHANGED <<day, weekly, truth>>,
               \A d \in DOMAIN truth : WeekOver(ToMonday(d))' => WeekOver(ToMonday(d)) \/ <<"week", ToMonday(d)>> \in failed',
               \A d \in DOMAIN truth : <<"week", ToMonday(d)>> \in failed => <<"week", ToMonday(d)>> \in failed'
        PROVE  WeeklyInv'
    BY <1>3, <1>a, WeeklyStays
  <1>4. CASE RunDailyArchive
    <2>1. slot = "daily" /\ slot' = AfterDaily /\ UNCHANGED <<day, weekly, truth, failed>>
      BY <1>4 DEF RunDailyArchive
    <2>2. \A d \in DOMAIN truth : WeekOver(ToMonday(d))' => WeekOver(ToMonday(d))
      BY <1>0, <1>a, <2>1 DEF WeekOver, AfterDaily
    <2> QED BY <1>3, <2>1, <2>2
  <1>5. CASE RunWeeklyArchive
    BY <1>5, MondayWeekly
  <1>6. CASE RunMonthlyArchive
    <2>1. slot = "monthly" /\ UNCHANGED <<day, weekly, truth>> /\ failed \subseteq failed'
      BY <1>6 DEF RunMonthlyArchive
    <2>2. \A d \in DOMAIN truth : WeekOver(ToMonday(d))' => WeekOver(ToMonday(d))
      BY <2>1 DEF WeekOver
    <2> QED BY <1>3, <2>1, <2>2
  <1>7. CASE Missed
    <2>1. UNCHANGED <<day, weekly, truth>> /\ failed \subseteq failed'
      BY <1>7 DEF Missed, tables
    <2>2. CASE slot = "daily"
      <3>1. slot' = AfterDaily
        BY <1>7, <2>2 DEF Missed
      <3>2. \A d \in DOMAIN truth : WeekOver(ToMonday(d))' => WeekOver(ToMonday(d))
        BY <1>0, <1>a, <2>1, <2>2, <3>1 DEF WeekOver, AfterDaily
      <3> QED BY <1>3, <2>1, <3>2
    <2>3. CASE slot = "weekly"
      <3>1. <<"week", LastWeek>> \in failed'
        BY <1>7, <2>3 DEF Missed
      <3>2. LastWeek \in Int /\ LastWeek + WeekLength = day
        BY <2>3, LastWeekIs
      <3>3. \A d \in DOMAIN truth : WeekOver(ToMonday(d))' => WeekOver(ToMonday(d)) \/ ToMonday(d) = LastWeek
        BY <1>0, <1>a, <2>1, <2>3, <3>2 DEF WeekOver
      <3> QED BY <1>3, <2>1, <3>1, <3>3
    <2>4. CASE slot = "monthly"
      <3>1. \A d \in DOMAIN truth : WeekOver(ToMonday(d))' => WeekOver(ToMonday(d))
        BY <2>1, <2>4 DEF WeekOver
      <3> QED BY <1>3, <2>1, <3>1
    <2> QED BY <1>7, <2>2, <2>3, <2>4 DEF Missed
  <1>8. ASSUME NEW e \in DOMAIN truth, TriggerDailyArchive(e) PROVE WeeklyInv'
    <2>1. UNCHANGED <<day, slot, weekly, truth>>
      BY <1>8 DEF TriggerDailyArchive, clock
    <2>2. \A d \in DOMAIN truth : <<"week", ToMonday(d)>> \in failed => <<"week", ToMonday(d)>> \in failed'
      BY <1>8 DEF TriggerDailyArchive
    <2>3. \A d \in DOMAIN truth : WeekOver(ToMonday(d))' => WeekOver(ToMonday(d))
      BY <2>1 DEF WeekOver
    <2> QED BY <1>3, <2>1, <2>2, <2>3
  <1>9. ASSUME NEW e \in DOMAIN truth, TriggerWeeklyArchive(e) PROVE WeeklyInv'
    BY <1>9, RequestWeekly
  <1>10. CASE RunCleanup
    BY <1>10, CleanupWeekly
  <1>11. CASE UNCHANGED vars
    <2>1. UNCHANGED <<day, slot, weekly, truth, failed>>
      BY <1>11 DEF vars, clock, tables
    <2>2. \A d \in DOMAIN truth : WeekOver(ToMonday(d))' => WeekOver(ToMonday(d))
      BY <2>1 DEF WeekOver
    <2> QED BY <1>3, <2>1, <2>2
  <1> QED BY <1>1, <1>2, <1>4, <1>5, <1>6, <1>7, <1>8, <1>9, <1>10, <1>11 DEF Next

\* The totals of a day whose night is to come are in its hourly rows.
LEMMA UntilNightHourly ==
  ASSUME ClockInv, RowInv, HourlyInv, SnapshotInv, NEW d \in DOMAIN truth, ~NightOver(d)
  PROVE  InHourly(d)
  <1>1. d \in 0 .. day /\ (d < day => d \in 0 .. day - 1) /\ (d < day \/ d = day) /\ truth[d] \in RowTotals
    BY DEF ClockInv, IsTable
  <1>2. RowsOf(HourlyRows, d) # {}
    <2>1. CASE d = day
      BY <2>1, RowsAddUp
    <2>2. CASE d < day
      <3>1. RowsOf(hourly, d) # {}
        BY <2>2 DEF HourlyInv
      <3> QED BY <1>1, <2>2, <3>1, RowsAddUp
    <2> QED BY <1>1, <2>1, <2>2
  <1>3. Sum(HourlyRows, RowsOf(HourlyRows, d)) = [truth[d] EXCEPT !.samples = 0]
    BY <1>1, <1>2, RowsAddUp
  <1>4. truth[d].samples > 0 => d \in DOMAIN snapshots /\ Cardinality(snapshots[d]) = truth[d].samples
    <2>1. truth[d].samples > 0 => truth[d].samples # 0
      BY <1>1 DEF RowTotals
    <2> QED BY <2>1 DEF SnapshotInv
  <1> QED BY <1>2, <1>3, <1>4 DEF InHourly, RowsOf

\* What is archived is not lost: the totals of a day that was crawled are in
\* its hourly rows until the night's job is over, from then until the week is
\* over in its daily row, and from then on in the row of its week until that
\* is old, unless the night's or the Monday's job went wrong and nobody has
\* repeated it.  The clean-up (RunCleanup) never deletes the last copy.
THEOREM ArchiveKeepsTotals == Spec => []NothingLost
  <1> DEFINE I == ClockInv /\ RowInv /\ HourlyInv /\ SnapshotInv /\ DailyInv /\ WeeklyInv
  <1>1. Init => I
    <2>1. Init => WeeklyInv
      <3> SUFFICES ASSUME Init PROVE WeeklyInv
        OBVIOUS
      <3>1. DOMAIN weekly = {} /\ DOMAIN truth = {}
        BY DEF Init
      <3> QED BY <3>1 DEF WeeklyInv, IsTable
    <2> QED BY <2>1, InitRow, InitArchive
  <1>2. I /\ [Next]_vars => I'
    BY NextClock, NextRow, NextHourly, NextSnapshots, NextDaily, NextWeekly
  <1>3. I => NothingLost
    <2> SUFFICES ASSUME I, NEW d \in DOMAIN truth
                 PROVE  \/ InHourly(d) \/ InDaily(d) \/ InWeekly(ToMonday(d))
                        \/ ToMonday(d) < ToMonday(day - WeeklyRetention)
                        \/ {<<"day", d>>, <<"week", ToMonday(d)>>} \cap failed # {}
      BY DEF NothingLost
    <2>1. CASE ~NightOver(d)
      BY <2>1, UntilNightHourly
    <2>2. CASE NightOver(d) /\ ~WeekOver(ToMonday(d))
      <3>1. CASE <<"day", d>> \notin failed
        BY <2>2, <3>1, Zenon DEF DailyInv, InDaily
      <3> QED BY <3>1
    <2>3. CASE WeekOver(ToMonday(d))
      BY <2>3, Zenon DEF WeeklyInv
    <2> QED BY <2>1, <2>2, <2>3
  <1> HIDE DEF I
  <1> QED BY <1>1, <1>2, <1>3, PTL DEF Spec
-----------------------------------------------------------------------------
\* The month of a day begins with the last first of a month up to it.
LEMMA MonthIs ==
  ASSUME NEW d \in Nat
  PROVE  /\ MonthOf(d) \in MonthStarts /\ MonthOf(d) \in Nat /\ MonthOf(d) =< d
         /\ \A m \in MonthStarts : m \in Nat /\ (m =< d => m =< MonthOf(d))
         /\ (d \in MonthStarts => MonthOf(d) = d)
  <1> DEFINE S == {m \in MonthStarts : m =< d}
  <1>1. MonthStarts \in SUBSET (0 .. MaxDay) /\ 0 \in MonthStarts /\ MaxDay \in Nat
    BY CalendarAssumption
  <1>2. S \in SUBSET Nat /\ S # {} /\ S \in SUBSET (0 .. MaxDay)
    <2>1. 0 \in S
      BY <1>1
    <2>2. S \in SUBSET (0 .. MaxDay)
      BY <1>1, Zenon
    <2>3. 0 .. MaxDay \in SUBSET Nat
      BY <1>1
    <2> HIDE DEF S
    <2> QED BY <2>1, <2>2, <2>3
  <1>3. IsFiniteSet(S)
    <2>1. IsFiniteSet(0 .. MaxDay)
      BY <1>1, FS_Interval
    <2> QED BY <1>2, <2>1, FS_Subset, Zenon
  <1>4. Max(S) \in S /\ \A y \in S : y =< Max(S)
    <2> HIDE DEF S
    <2> QED BY <1>2, <1>3, MaxOfNats
  <1>5. MonthOf(d) = Max(S)
    BY DEF MonthOf
  <1>6. MonthOf(d) \in MonthStarts /\ MonthOf(d) \in Nat /\ MonthOf(d) =< d
    <2>1. \A m \in S : m \in MonthStarts /\ m \in Nat /\ m =< d
      BY <1>1
    <2> HIDE DEF S
    <2> QED BY <1>4, <1>5, <2>1
  <1>7. ASSUME NEW m \in MonthStarts PROVE m \in Nat /\ (m =< d => m =< MonthOf(d))
    <2>1. m \in Nat /\ (m =< d => m \in S)
      BY <1>1
    <2> HIDE DEF S
    <2> QED BY <1>4, <1>5, <2>1
  <1>8. d \in MonthStarts => MonthOf(d) = d
    BY <1>6, <1>7
  <1> QED BY <1>6, <1>7, <1>8

\* Later days lie in later months.
LEMMA MonthMonotone ==
  ASSUME NEW d \in Nat, NEW e \in Nat, d =< e
  PROVE  MonthOf(d) =< MonthOf(e)
  <1>1. MonthOf(d) \in MonthStarts /\ MonthOf(d) \in Nat /\ MonthOf(d) =< d
    BY MonthIs
  <1>2. MonthOf(d) =< e
    BY <1>1
  <1> QED BY <1>1, <1>2, MonthIs

\* A month that is over has no more days, and its weeks in full are over too.
LEMMA OverMonth ==
  ASSUME NEW e \in Nat, NEW m \in Nat, NEW n \in MonthStarts, m < n, n =< e, NEW d \in MonthDays(m)
  PROVE  d < n /\ d < e /\ d \in Nat /\ m =< d
  <1>1. d \in Nat /\ MonthOf(d) = m /\ m =< d /\ n \in Nat
    BY MonthIs, CalendarNumbers DEF MonthDays
  <1>2. n =< d => n =< m
    BY <1>1, MonthIs
  <1> QED BY <1>1, <1>2

\* On the first of a month, last month is the one of yesterday.
LEMMA LastMonthIs ==
  ASSUME ClockInv, slot = "monthly"
  PROVE  /\ day \in Nat /\ day - 1 \in Nat /\ LastMonth = MonthOf(day - 1) /\ day \in MonthStarts
         /\ LastMonth \in MonthStarts /\ LastMonth \in Nat /\ LastMonth < day
         /\ \A n \in MonthStarts : n < day => n =< LastMonth
  <1>1. day \in Nat /\ day > 0 /\ day \in MonthStarts
    BY DEF ClockInv
  <1>2. MonthOf(day) = day /\ day - 1 \in Nat
    BY <1>1, MonthIs
  <1>3. LastMonth = MonthOf(day - 1)
    BY <1>2 DEF LastMonth
  <1>4. /\ MonthOf(day - 1) \in MonthStarts /\ MonthOf(day - 1) \in Nat /\ MonthOf(day - 1) =< day - 1
        /\ \A m \in MonthStarts : m \in Nat /\ (m =< day - 1 => m =< MonthOf(day - 1))
    BY <1>2, MonthIs
  <1> QED BY <1>1, <1>2, <1>3, <1>4

\* The week of a day of last month: either it lies in the month, and is over,
\* or it does not.
LEMMA WeekInLastMonth ==
  ASSUME ClockInv, slot = "monthly", NEW w \in Int, w \in MonthDays(LastMonth)
  PROVE  /\ w \in Nat /\ w < day /\ MonthOf(w) = LastMonth
         /\ WeekDays(w) \subseteq MonthDays(LastMonth) <=> w + WeekLength =< day
  <1> DEFINE m == LastMonth
  <1>1. /\ day \in Nat /\ day - 1 \in Nat /\ m = MonthOf(day - 1) /\ day \in MonthStarts
        /\ m \in Nat /\ m < day /\ day =< MaxDay /\ MaxDay \in Nat
    BY LastMonthIs, CalendarNumbers DEF ClockInv
  <1> HIDE DEF m
  <1>2. w \in Nat /\ w < day /\ MonthOf(w) = m /\ m =< w
    <2>1. w \in MonthDays(m)
      BY DEF m
    <2>2. w < day /\ w \in Nat /\ m =< w
      BY <1>1, <2>1, OverMonth
    <2> QED BY <2>1, <2>2 DEF MonthDays
  <1>3. ASSUME w + WeekLength =< day, NEW e \in WeekDays(w) PROVE e \in MonthDays(m)
    <2>1. e \in Nat /\ w =< e /\ e =< day - 1 /\ e =< MaxDay /\ e >= m
      BY <1>1, <1>2, <1>3, CalendarNumbers DEF WeekDays
    <2>2. MonthOf(w) =< MonthOf(e) /\ MonthOf(e) =< MonthOf(day - 1)
      BY <1>1, <1>2, <2>1, MonthMonotone
    <2>3. MonthOf(e) = m
      BY <1>1, <1>2, <2>1, <2>2, MonthIs
    <2> QED BY <1>1, <2>1, <2>3 DEF MonthDays
  <1>4. ASSUME WeekDays(w) \subseteq MonthDays(m) PROVE w + WeekLength =< day
    <2> DEFINE e == w + WeekLength - 1
    <2>1. e \in WeekDays(w)
      BY <1>2, CalendarNumbers DEF WeekDays
    <2> HIDE DEF e
    <2>2. e \in MonthDays(m)
      BY <1>4, <2>1
    <2>3. e < day
      BY <1>1, <2>2, OverMonth
    <2> QED BY <1>1, <1>2, <2>3, CalendarNumbers DEF e
  <1> QED BY <1>2, <1>3, <1>4 DEF m

\* The rows of f are the totals of the rows of g in each part.
PartTotals(f, g, D, W) ==
  /\ IsTable(f) /\ IsTable(g) /\ W \in SUBSET DOMAIN f /\ IsFiniteSet(W)
  /\ \A w \in W : IsFiniteSet(D[w]) /\ D[w] \in SUBSET DOMAIN g /\ f[w] = Sum(g, D[w])

SameTotal(f, g, D, W) == Sum(f, W) = Sum(g, Together(D, W))

\* The sum over the weeks is the sum over their days.
LEMMA WeeksToDays ==
  ASSUME NEW f, NEW g, NEW W, NEW D, PartTotals(f, g, D, W), Apart(D, W)
  PROVE  SameTotal(f, g, D, W)
  <1> IsTable(f) /\ IsTable(g) /\ W \in SUBSET DOMAIN f /\ IsFiniteSet(W)
    BY DEF PartTotals
  <1> DEFINE U == Together(D, W)
  <1>1. ASSUME NEW c \in {"inflow", "outflow", "samples"}
        PROVE  SumFunctionOnSet(Column(f, c), W) = SumFunctionOnSet(Column(g, c), U)
    <2> DEFINE s == Column(f, c)
               h == Column(g, c)
    <2>1. ASSUME NEW w \in W PROVE s[w] = SumFunctionOnSet(h, D[w])
      <3>1. /\ Sum(g, D[w]).inflow = SumFunctionOnSet(Column(g, "inflow"), D[w])
            /\ Sum(g, D[w]).outflow = SumFunctionOnSet(Column(g, "outflow"), D[w])
            /\ Sum(g, D[w]).samples = SumFunctionOnSet(Column(g, "samples"), D[w])
        <4> DEFINE K == D[w]
        <4>1. K \in SUBSET DOMAIN g /\ IsFiniteSet(K)
          BY DEF PartTotals
        <4> HIDE DEF K
        <4>2. /\ Sum(g, K).inflow = SumFunctionOnSet(Column(g, "inflow"), K)
              /\ Sum(g, K).outflow = SumFunctionOnSet(Column(g, "outflow"), K)
              /\ Sum(g, K).samples = SumFunctionOnSet(Column(g, "samples"), K)
          BY <4>1, SumOfTable, Zenon
        <4> QED BY <4>2, Zenon DEF K
      <3>2. s[w] = Sum(g, D[w])[c]
        <4>1. w \in DOMAIN f /\ f[w] = Sum(g, D[w])
          BY DEF PartTotals
        <4> QED BY <4>1, Zenon DEF Column
      <3> QED BY <3>1, <3>2, Zenon
    <2>2. \A w \in W : \A k \in D[w] : h[k] \in Nat
      BY Zenon DEF Column, IsTable, RowTotals, PartTotals
    <2> HIDE DEF s, h
    <2>3. PartSums(s, h, D, W)
      BY <2>1, <2>2, Zenon DEF PartSums, PartTotals
    <2>4. SumFunctionOnSet(s, W) = SumFunctionOnSet(h, Together(D, W))
      BY <2>3, SumOfSums, Zenon
    <2> QED BY <2>4, Zenon DEF s, h
  <1> HIDE DEF U
  <1>2. Sum(f, W) = Sum(g, U)
    BY <1>1, Zenon DEF Sum
  <1> QED BY <1>2 DEF U, SameTotal

\* Nobody deletes a weekly row before its month is archived.
LEMMA WeeksKept ==
  ASSUME ClockInv, slot = "monthly", NEW w \in Int, w \in MonthDays(LastMonth)
  PROVE  ~(w < ToMonday(day - WeeklyRetention))
  <1>1. /\ day \in Nat /\ day - 1 \in Nat /\ LastMonth \in Nat /\ day =< MaxDay /\ MaxDay \in Nat
        /\ \A n \in MonthStarts : n < day => n =< LastMonth
    BY LastMonthIs, CalendarNumbers DEF ClockInv
  <1>2. LastMonth =< w
    BY <1>1 DEF MonthDays
  <1>3. PICK n \in MonthStarts : n =< day - 1 /\ day - 1 < n + WeeklyRetention
    <2>1. day - 1 \in 0 .. MaxDay
      BY <1>1
    <2> QED BY <2>1, RetentionAssumption
  <1>4. n \in Nat
    BY CalendarAssumption
  <1>5. w >= day - WeeklyRetention
    BY <1>1, <1>2, <1>3, <1>4, CalendarNumbers
  <1>6. ToMonday(day - WeeklyRetention) =< day - WeeklyRetention /\ ToMonday(day - WeeklyRetention) \in Int
    <2>1. day - WeeklyRetention \in Int
      BY <1>1, CalendarNumbers
    <2> QED BY <2>1, MondayOfDay
  <1> QED BY <1>1, <1>5, <1>6, CalendarNumbers

\* On the first of the month, the weekly rows that aggregateWeeklyToMonthlyForIP
\* finds add up to the full weeks of last month, if nothing went wrong.
LEMMA MonthSum ==
  ASSUME ClockInv, WeeklyInv, MonthlyInv, slot = "monthly", <<"month", LastMonth>> \notin failed,
         \A w \in MonthDays(LastMonth) : <<"week", w>> \notin failed
  PROVE  Sum(weekly, DOMAIN weekly \cap MonthDays(LastMonth)) = TruthOf(FullWeeks(LastMonth))
  <1> DEFINE m == LastMonth
             keys == DOMAIN weekly \cap MonthDays(m)
             D == [w \in keys |-> WeekDays(w) \cap DOMAIN truth]
  <1>0. day \in Nat /\ WeekLength \in Nat /\ IsTable(weekly) /\ IsTable(truth)
    BY CalendarNumbers DEF ClockInv, WeeklyInv
  <1>1. \A w \in DOMAIN weekly : w \in Int /\ Monday(w) /\ \E d \in DOMAIN truth : ToMonday(d) = w
    BY CrawledDay DEF WeeklyInv
  <1>2. ASSUME NEW w \in keys PROVE w + WeekLength =< day /\ WeekDays(w) \subseteq MonthDays(m)
    <2>1. w \in Int /\ w \in MonthDays(LastMonth) /\ w \in DOMAIN weekly
      BY <1>1
    <2>2. MonthOf(w) = LastMonth /\ (WeekDays(w) \subseteq MonthDays(LastMonth) <=> w + WeekLength =< day)
      BY <2>1, WeekInLastMonth
    <2>3. ~(w + WeekLength > day)
      BY <2>1, <2>2 DEF MonthlyInv
    <2>4. w + WeekLength =< day
      BY <1>0, <2>1, <2>3
    <2> QED BY <2>2, <2>4
  <1>3. ASSUME NEW d \in DOMAIN truth, ToMonday(d) \in MonthDays(m), ToMonday(d) + WeekLength =< day
        PROVE  InWeekly(ToMonday(d))
    <2>1. ToMonday(d) \in Int
      BY CrawledDay
    <2>2. WeekOver(ToMonday(d))
      <3> DEFINE w == ToMonday(d)
      <3>1. w \in Int /\ w + WeekLength =< day
        BY <1>3, <2>1
      <3> HIDE DEF w
      <3>2. w + WeekLength < day \/ w + WeekLength = day
        BY <1>0, <3>1
      <3>3. WeekOver(w)
        BY <3>2 DEF WeekOver
      <3> QED BY <3>3 DEF w
    <2>3. ~(ToMonday(d) < ToMonday(day - WeeklyRetention))
      BY <1>3, <2>1, WeeksKept
    <2> QED BY <1>3, <2>2, <2>3, Zenon DEF WeeklyInv
  <1>4. ASSUME NEW w \in keys PROVE weekly[w] = Sum(truth, D[w])
    <2>1. PICK d \in DOMAIN truth : ToMonday(d) = w
      BY <1>1
    <2>2. InWeekly(w)
      BY <1>2, <1>3, <2>1
    <2> QED BY <2>2 DEF InWeekly, TruthOf
  <1>5. ASSUME NEW w \in keys PROVE IsFiniteSet(D[w]) /\ D[w] \in SUBSET DOMAIN truth
    BY TruthOfDays
  <1>6. ASSUME NEW v \in keys, NEW w \in keys, v # w PROVE D[v] \cap D[w] = {}
    <2> SUFFICES ASSUME NEW d \in D[v] \cap D[w] PROVE FALSE
      OBVIOUS
    <2>1. d \in Int /\ d \in WeekDays(v) /\ d \in WeekDays(w)
      BY DEF ClockInv
    <2>2. v \in Int /\ Monday(v) /\ w \in Int /\ Monday(w)
      BY <1>1
    <2>3. ToMonday(d) = v
      BY <2>1, <2>2, DaysOfWeek
    <2>4. ToMonday(d) = w
      BY <2>1, <2>2, DaysOfWeek
    <2> QED BY <1>6, <2>3, <2>4
  <1>7. Together(D, keys) = FullWeeks(m) \cap DOMAIN truth
    <2>1. ASSUME NEW w \in keys, NEW d \in D[w] PROVE d \in FullWeeks(m) /\ d \in DOMAIN truth
      <3>1. d \in WeekDays(w) /\ d \in DOMAIN truth /\ d \in Int
        BY <2>1 DEF ClockInv
      <3>2. ToMonday(d) = w
        BY <1>1, <3>1, DaysOfWeek
      <3>3. WeekDays(w) \subseteq MonthDays(m)
        BY <1>2
      <3> QED BY <3>1, <3>2, <3>3 DEF FullWeeks
    <2>2. ASSUME NEW d \in FullWeeks(m), d \in DOMAIN truth PROVE ToMonday(d) \in keys /\ d \in D[ToMonday(d)]
      <3> DEFINE w == ToMonday(d)
      <3>1. w \in Int /\ d \in WeekDays(w) /\ w \in WeekDays(w)
        <4>1. w \in Int /\ d \in WeekDays(w)
          BY <2>2, CrawledDay
        <4> QED BY <4>1, CalendarNumbers DEF WeekDays
      <3>2. WeekDays(w) \subseteq MonthDays(m) /\ w \in MonthDays(m)
        BY <3>1 DEF FullWeeks
      <3>3. w + WeekLength =< day
        <4> HIDE DEF w
        <4> QED BY <3>1, <3>2, WeekInLastMonth
      <3>4. InWeekly(w)
        BY <1>3, <2>2, <3>2, <3>3
      <3>5. w \in keys
        BY <3>2, <3>4 DEF InWeekly
      <3> QED BY <2>2, <3>1, <3>5
    <2>3. Together(D, keys) \subseteq FullWeeks(m) \cap DOMAIN truth
      <3> HIDE DEF D, keys, m
      <3> QED BY <2>1 DEF Together
    <2>4. FullWeeks(m) \cap DOMAIN truth \subseteq Together(D, keys)
      <3> HIDE DEF D, keys, m
      <3> QED BY <2>2 DEF Together
    <2> QED BY <2>3, <2>4, Zenon
  <1>8. IsFiniteSet(keys) /\ keys \in SUBSET DOMAIN weekly
    <2>1. m \in Nat /\ MaxDay \in Nat
      BY LastMonthIs, CalendarNumbers
    <2>2. IsFiniteSet(m .. MaxDay)
      BY <2>1, FS_Interval
    <2>3. keys \in SUBSET (m .. MaxDay)
      BY DEF MonthDays
    <2> QED BY <2>2, <2>3, FS_Subset, Zenon
  <1> HIDE DEF m, keys, D
  <1>9. Sum(weekly, keys) = Sum(truth, Together(D, keys))
    <2>1. PartTotals(weekly, truth, D, keys)
      <3>1. \A w \in keys : IsFiniteSet(D[w]) /\ D[w] \in SUBSET DOMAIN truth /\ weekly[w] = Sum(truth, D[w])
        BY <1>4, <1>5, Zenon
      <3> QED BY <1>0, <1>8, <3>1 DEF PartTotals
    <2>2. Apart(D, keys)
      BY <1>6, Zenon DEF Apart
    <2>3. SameTotal(weekly, truth, D, keys)
      BY <2>1, <2>2, WeeksToDays, Zenon
    <2> QED BY <2>3 DEF SameTotal
  <1> QED BY <1>7, <1>9, Zenon DEF m, keys, TruthOf

\* The monthly rows are left alone, and a weekly row that is new is of a week
\* that is over, or noted.
LEMMA MonthlyStays ==
  ASSUME ClockInv, WeeklyInv, MonthlyInv, UNCHANGED <<truth, monthly>>, day' \in Int, day =< day',
         day < day' \/ slot \notin {"cleanup", "crawl"} \/ slot' \in {"cleanup", "crawl"},
         \A w \in DOMAIN weekly' :
           w \in DOMAIN weekly \/ ~(w + WeekLength > day') \/ <<"month", MonthOf(w)>> \in failed',
         \A m : <<"month", m>> \in failed => <<"month", m>> \in failed'
  PROVE  MonthlyInv'
  <1>1. day \in Int /\ WeekLength \in Int /\ \A n \in MonthStarts : n \in Int
    BY CalendarAssumption DEF ClockInv
  <1>2. \A w \in DOMAIN weekly : w \in Int
    BY CrawledDay DEF WeeklyInv
  <1>3. ASSUME NEW w \in DOMAIN weekly', w + WeekLength > day' PROVE <<"month", MonthOf(w)>> \in failed'
    <2>1. CASE w \in DOMAIN weekly
      <3>1. w + WeekLength > day
        BY <1>1, <1>2, <1>3, <2>1
      <3> QED BY <2>1, <3>1 DEF MonthlyInv
    <2> QED BY <1>3, <2>1
  <1>4. ASSUME NEW m, MonthOver(m) PROVE MonthOver(m)'
    <2>1. PICK n \in MonthStarts : m < n /\ (n < day \/ (n = day /\ slot \in {"cleanup", "crawl"}))
      BY <1>4 DEF MonthOver
    <2>2. n < day' \/ (n = day' /\ slot' \in {"cleanup", "crawl"})
      BY <1>1, <2>1
    <2> QED BY <2>1, <2>2 DEF MonthOver
  <1>5. MonthlyFullWeeks'
    BY DEF MonthlyInv, MonthlyFullWeeks, TruthOf
  <1> QED BY <1>3, <1>4, <1>5 DEF MonthlyInv

\* A crawl adds to a month that is not over.
LEMMA CrawlMonthly ==
  ASSUME ClockInv, MonthlyInv, NEW in \in 0 .. MaxInflow, NEW batch \in SUBSET (Items \ gone), Crawl(in, batch)
  PROVE  MonthlyInv'
  <1>1. UNCHANGED <<day, slot, weekly, monthly, failed>> /\ day \in Nat
    <2>1. UNCHANGED <<clock, weekly, monthly, failed>>
      BY Zenon DEF Crawl
    <2>2. day \in Nat
      BY DEF ClockInv
    <2> QED BY <2>1, <2>2 DEF clock
  <1>2. /\ IsTable(truth') /\ DOMAIN truth' = DOMAIN truth \cup {day}
        /\ \A d \in DOMAIN truth : d # day => truth'[d] = truth[d]
    BY CrawlTruth, Zenon
  <1>3. ASSUME NEW m \in DOMAIN monthly PROVE TruthOf(FullWeeks(m))' = TruthOf(FullWeeks(m))
    <2>1. PICK n \in MonthStarts : m \in MonthStarts /\ m < n /\ (n < day \/ n = day)
      BY DEF MonthlyInv, MonthOver
    <2>2. n \in Nat /\ m \in Nat /\ n =< day
      BY <1>1, <2>1, CalendarAssumption
    <2>3. \A d \in MonthDays(m) : d < day
      BY <1>1, <2>1, <2>2, OverMonth
    <2>4. day \notin FullWeeks(m)
      BY <1>1, <2>3 DEF FullWeeks
    <2> DEFINE K == FullWeeks(m) \cap DOMAIN truth
    <2>5. FullWeeks(m) \cap DOMAIN truth' = K /\ K \in SUBSET DOMAIN truth /\ K \subseteq DOMAIN truth'
          /\ \A d \in K : truth[d] = truth'[d]
      BY <1>2, <2>4
    <2>6. IsTable(truth) /\ IsFiniteSet(K)
      BY TruthOfDays
    <2> HIDE DEF K
    <2>7. Sum(truth, K) = Sum(truth', K)
      BY <1>2, <2>5, <2>6, SumOfSameRows
    <2> QED BY <2>5, <2>7 DEF TruthOf, K
  <1>4. \A m : MonthOver(m)' <=> MonthOver(m)
    BY <1>1 DEF MonthOver
  <1>5. MonthlyFullWeeks'
    BY <1>1, <1>3 DEF MonthlyInv, MonthlyFullWeeks
  <1> QED BY <1>1, <1>4, <1>5 DEF MonthlyInv

\* The job of the first: a row of last month that nobody has written before.
LEMMA FirstMonthly == ASSUME ClockInv, WeeklyInv, MonthlyInv, RunMonthlyArchive PROVE MonthlyInv'
  <1> DEFINE m == LastMonth
             keys == DOMAIN weekly \cap MonthDays(m)
  <1>1. /\ UNCHANGED <<day, weekly, truth>> /\ slot = "monthly" /\ slot' = "cleanup"
        /\ monthly' = IF keys = {} THEN monthly ELSE Upsert(monthly, m, Sum(weekly, keys))
        /\ failed' = IF \E w \in MonthDays(m) : <<"week", w>> \in failed THEN failed \cup {<<"month", m>>} ELSE failed
    BY DEF RunMonthlyArchive, AggregateWeeklyToMonthly
  <1>2. /\ day \in Nat /\ day \in MonthStarts /\ m \in MonthStarts /\ m \in Nat /\ m < day
        /\ \A n \in MonthStarts : n < day => n =< m
    BY <1>1, LastMonthIs
  <1>3. m \notin DOMAIN monthly
    <2> SUFFICES ASSUME m \in DOMAIN monthly PROVE FALSE
      OBVIOUS
    <2>1. PICK n \in MonthStarts : m < n /\ n < day
      BY <1>1 DEF MonthlyInv, MonthOver
    <2>2. n \in Nat
      BY CalendarAssumption
    <2> QED BY <1>2, <2>1, <2>2
  <1>4. <<"month", m>> \notin failed' => Sum(weekly, keys) = TruthOf(FullWeeks(m))
    BY <1>1, MonthSum
  <1> HIDE DEF m, keys
  <1>5. /\ DOMAIN monthly' \in SUBSET (DOMAIN monthly \cup {m})
        /\ \A x \in DOMAIN monthly : monthly'[x] = monthly[x]
        /\ m \in DOMAIN monthly' => monthly'[m] = Sum(weekly, keys)
    BY <1>1, <1>3 DEF Upsert, Put
  <1>6. \A S : TruthOf(S)' = TruthOf(S)
    BY <1>1 DEF TruthOf
  <1>7. MonthlyFullWeeks'
    <2>1. \A x \in DOMAIN monthly : <<"month", x>> \notin failed' => monthly'[x] = TruthOf(FullWeeks(x))
      BY <1>1, <1>5 DEF MonthlyInv, MonthlyFullWeeks
    <2> QED BY <1>4, <1>5, <1>6, <2>1, Zenon DEF MonthlyFullWeeks
  <1>8. ASSUME NEW x \in DOMAIN monthly' PROVE x \in MonthStarts /\ MonthOver(x)'
    <2>1. CASE x = m
      BY <1>1, <1>2, <2>1 DEF MonthOver
    <2>2. CASE x # m
      BY <1>1, <1>5, <2>2 DEF MonthlyInv, MonthOver
    <2> QED BY <2>1, <2>2
  <1>9. \A w \in DOMAIN weekly' : w + WeekLength > day' => <<"month", MonthOf(w)>> \in failed'
    BY <1>1, Zenon DEF MonthlyInv
  <1> QED BY <1>7, <1>8, <1>9 DEF MonthlyInv

\* The monthly rows through all of this.
LEMMA NextMonthly == ClockInv /\ WeeklyInv /\ MonthlyInv /\ [Next]_vars => MonthlyInv'
  <1> SUFFICES ASSUME ClockInv, WeeklyInv, MonthlyInv, [Next]_vars PROVE MonthlyInv'
    OBVIOUS
  <1>0. day \in Int /\ WeekLength \in Int
    BY CalendarNumbers DEF ClockInv
  <1>1. ASSUME NEW in \in 0 .. MaxInflow, NEW batch \in SUBSET (Items \ gone), Crawl(in, batch) PROVE MonthlyInv'
    BY <1>1, CrawlMonthly
  <1>2. CASE HourEnds
    <2>1. UNCHANGED <<weekly, monthly, truth, failed>> /\ slot = "crawl"
      BY <1>2 DEF HourEnds
    <2>2. (day' = day /\ slot' = slot) \/ day' = day + 1
      BY <1>2, HourEndsClock
    <2>3. day' \in Int /\ day =< day' /\ (day < day' \/ slot' \in {"cleanup", "crawl"})
      BY <1>0, <2>1, <2>2
    <2> QED BY <2>1, <2>3, MonthlyStays
  <1>3. ASSUME UNCHANGED <<day, truth, monthly>>, slot \notin {"cleanup", "crawl"} \/ slot' \in {"cleanup", "crawl"},
               \A w \in DOMAIN weekly' :
                 w \in DOMAIN weekly \/ ~(w + WeekLength > day) \/ <<"month", MonthOf(w)>> \in failed',
               \A m : <<"month", m>> \in failed => <<"month", m>> \in failed'
        PROVE  MonthlyInv'
    BY <1>0, <1>3, MonthlyStays
  <1>4. CASE RunDailyArchive
    BY <1>3, <1>4 DEF RunDailyArchive
  <1>5. CASE RunWeeklyArchive
    <2>1. /\ UNCHANGED <<day, truth, monthly>> /\ slot = "weekly" /\ failed \subseteq failed'
          /\ AggregateDailyToWeekly(LastWeek)
      BY <1>5 DEF RunWeeklyArchive
    <2>2. LastWeek \in Int /\ LastWeek + WeekLength = day /\ ToMonday(LastWeek) = LastWeek
      BY <2>1, LastWeekIs
    <2>3. DOMAIN weekly' \in SUBSET (DOMAIN weekly \cup {LastWeek})
      BY <2>1, <2>2 DEF AggregateDailyToWeekly, Upsert, Put
    <2>4. ~(LastWeek + WeekLength > day)
      BY <1>0, <2>2
    <2> QED BY <1>3, <2>1, <2>3, <2>4
  <1>6. CASE RunMonthlyArchive
    BY <1>6, FirstMonthly
  <1>7. CASE Missed
    <2>1. UNCHANGED <<day, truth, monthly, weekly>> /\ failed \subseteq failed' /\ slot \in {"daily", "weekly", "monthly"}
      BY <1>7 DEF Missed, tables
    <2> QED BY <1>3, <2>1
  <1>8. ASSUME NEW e \in DOMAIN truth, TriggerDailyArchive(e) PROVE MonthlyInv'
    <2>1. UNCHANGED <<day, slot, truth, monthly, weekly>>
      BY <1>8 DEF TriggerDailyArchive, clock
    <2>2. \A m : <<"month", m>> \in failed => <<"month", m>> \in failed'
      BY <1>8, Zenon DEF TriggerDailyArchive
    <2> QED BY <1>3, <2>1, <2>2
  <1>9. ASSUME NEW e \in DOMAIN truth, TriggerWeeklyArchive(e) PROVE MonthlyInv'
    <2> DEFINE w == ToMonday(e)
    <2>1. /\ UNCHANGED <<day, slot, truth, monthly>> /\ AggregateDailyToWeekly(e)
          /\ failed' = IF w + WeekLength =< day /\ DaysComplete(w) THEN failed \ {<<"week", w>>}
                       ELSE IF weekly' = weekly THEN failed
                       ELSE failed \cup {IF w + WeekLength =< day THEN <<"week", w>> ELSE <<"month", MonthOf(w)>>}
      BY <1>9 DEF TriggerWeeklyArchive, clock
    <2>2. w \in Int
      BY <1>9, CrawledDay
    <2>3. DOMAIN weekly' \in SUBSET (DOMAIN weekly \cup {w})
      BY <2>1 DEF AggregateDailyToWeekly, Upsert, Put
    <2>4. w + WeekLength =< day => ~(w + WeekLength > day)
      BY <1>0, <2>2
    <2> HIDE DEF w
    <2>5. \A m : <<"month", m>> \in failed => <<"month", m>> \in failed'
      BY <2>1
    <2>6. \A x \in DOMAIN weekly' : x \in DOMAIN weekly \/ ~(x + WeekLength > day) \/ <<"month", MonthOf(x)>> \in failed'
      <3> SUFFICES ASSUME w \in DOMAIN weekly', w \notin DOMAIN weekly, ~(w + WeekLength =< day)
                   PROVE  <<"month", MonthOf(w)>> \in failed'
        BY <2>3, <2>4
      <3>1. weekly' # weekly
        OBVIOUS
      <3> QED BY <2>1, <3>1
    <2> QED BY <1>3, <2>1, <2>5, <2>6
  <1>10. CASE RunCleanup
    <2>1. /\ UNCHANGED <<day, truth, failed, monthly>> /\ slot' = "crawl"
          /\ weekly' = weekly \/ weekly' = Drop(weekly, {w \in DOMAIN weekly : w < ToMonday(day - WeeklyRetention)})
      BY <1>10, CleanupDrops DEF Quiet
    <2>2. DOMAIN weekly' \in SUBSET DOMAIN weekly
      BY <2>1 DEF Drop, Restrict
    <2> QED BY <1>3, <2>1, <2>2
  <1>11. CASE UNCHANGED vars
    <2>1. UNCHANGED <<day, slot, weekly, monthly, truth, failed>>
      BY <1>11 DEF vars, clock, tables
    <2> QED BY <1>3, <2>1
  <1> QED BY <1>1, <1>2, <1>4, <1>5, <1>6, <1>7, <1>8, <1>9, <1>10, <1>11 DEF Next

\* A monthly row is the sum of the weeks that lie in its month from beginning
\* to end, whatever happens later, unless one of them went wrong or was
\* archived before its end: no such week is deleted before the job of the
\* first, and none is counted twice (archiveMonthly and the clean-up).
THEOREM MonthlyRowsFull == Spec => []MonthlyFullWeeks
  <1> DEFINE I == ClockInv /\ RowInv /\ HourlyInv /\ SnapshotInv /\ DailyInv /\ WeeklyInv /\ MonthlyInv
  <1>1. Init => I
    <2>1. Init => WeeklyInv /\ MonthlyInv
      <3> SUFFICES ASSUME Init PROVE WeeklyInv /\ MonthlyInv
        OBVIOUS
      <3>1. DOMAIN weekly = {} /\ DOMAIN truth = {} /\ DOMAIN monthly = {}
        BY DEF Init
      <3> QED BY <3>1 DEF WeeklyInv, MonthlyInv, MonthlyFullWeeks, IsTable
    <2> QED BY <2>1, InitRow, InitArchive
  <1>2. I /\ [Next]_vars => I'
    BY NextClock, NextRow, NextHourly, NextSnapshots, NextDaily, NextWeekly, NextMonthly
  <1>3. I => MonthlyFullWeeks
    BY DEF MonthlyInv
  <1> HIDE DEF I
  <1> QED BY <1>1, <1>2, <1>3, PTL DEF Spec
================================================================================
