-------------------------------- MODULE Archive --------------------------------
(***************************************************************************)
(* What becomes of the hourly rows (internal/analyzer/archiver.go and      *)
(* archiverLoop of internal/scheduler/ip_scheduler.go): every night they   *)
(* are added up into a daily row, every Monday the daily rows into a       *)
(* weekly one, on the first of the month the weekly rows into a monthly    *)
(* one, and old rows and snapshots are deleted.  Composed with module      *)
(* HourlyStats, which writes the hourly rows, for one IP.                  *)
(*                                                                         *)
(* The loop looks at the clock once a minute, and a job runs in its own    *)
(* minute or not at all.  slot is the next job of the day in the order     *)
(* 00:05, 00:10 (on Mondays), 00:15 (on the 1st), 01:00, and "crawl" for   *)
(* the rest; the jobs of a day touch no row of that day, so nothing is     *)
(* lost by letting the crawls come after them.  The calendar is scaled     *)
(* down: day 0 is a Monday and the first of a month.                       *)
(*                                                                         *)
(* A table is a function from its key to the totals of the row; averages,  *)
(* medians and price items are left out.                                   *)
(***************************************************************************)
EXTENDS HourlyStats, Functions

CONSTANTS
  HoursPerDay, WeekLength,
  MonthStarts,       \* the days that are a first of the month
  HourlyRetention,   \* 7 days
  SnapshotAge,       \* 8 days
  DailyRetention,    \* 90 days
  WeeklyRetention,   \* 365 days
  MaxDay,            \* bound: the last day
  MaxEvents          \* bound: jobs that fail or are missed, requests of the API

ASSUME CalendarAssumption ==
  /\ HoursPerDay \in Nat \ {0} /\ WeekLength \in Nat \ {0} /\ MaxDay \in Nat
  /\ MonthStarts \subseteq 0 .. MaxDay /\ 0 \in MonthStarts

\* Daily rows are kept for a week at least, weekly rows for more than a month.
ASSUME RetentionAssumption ==
  /\ HourlyRetention \in Nat /\ SnapshotAge \in Nat \ {0}
  /\ DailyRetention \in Nat /\ DailyRetention >= WeekLength
  /\ WeeklyRetention \in Nat
  /\ \A d \in 0 .. MaxDay : \E m \in MonthStarts : m =< d /\ d < m + WeeklyRetention

VARIABLES
  day, hour, slot,
  hourly,                    \* ip_stats_hourly up to the current hour, by <<day, hour>>
  snapshots,                 \* item_snapshots by the day of sold_at
  daily, weekly, monthly,    \* ip_stats_daily, _weekly and _monthly
  gone,                      \* items sold so far (history)
  truth,                     \* what the crawls of a day added up to (history)
  failed,                    \* days, weeks and months whose job went wrong (history)
  events

tables == <<hourly, snapshots, daily, weekly, monthly>>
rowVars == <<row, sold, listed, crawls>>
clock == <<day, hour, slot>>
vars == <<rowVars, clock, tables, gone, truth, failed, events>>

Totals(in, out, n) == [inflow |-> in, outflow |-> out, samples |-> n]
Nothing == Totals(0, 0, 0)
Put(f, k, v) == [x \in DOMAIN f \cup {k} |-> IF x = k THEN v ELSE f[x]]
Drop(f, keys) == Restrict(f, DOMAIN f \ keys)

\* Assign(row).FirstOrCreate(&row): into a row that exists, GORM writes only the
\* columns that are not zero.
Upsert(f, k, v) ==
  Put(f, k, IF k \in DOMAIN f THEN [c \in DOMAIN v |-> IF v[c] = 0 THEN f[k][c] ELSE v[c]] ELSE v)

Column(f, c) == [k \in DOMAIN f |-> f[k][c]]
Sum(f, keys) ==
  Totals(SumFunctionOnSet(Column(f, "inflow"), keys),
         SumFunctionOnSet(Column(f, "outflow"), keys),
         SumFunctionOnSet(Column(f, "samples"), keys))

\* toMondayJST.
ToMonday(d) == d - (d % WeekLength)
WeekDays(w) == w .. w + WeekLength - 1

\* The month a day lies in, by its first; last month and last week.
MonthOf(d) == Max({m \in MonthStarts : m =< d})
LastMonth == MonthOf(MonthOf(day) - 1)
LastWeek == ToMonday(day) - WeekLength
MonthDays(m) == {d \in m .. MaxDay : MonthOf(d) = m}

Init ==
  /\ row = Empty /\ sold = {} /\ listed = 0 /\ crawls = 0
  /\ day = 0 /\ hour = 0 /\ slot = "crawl"
  /\ hourly = <<>> /\ snapshots = <<>>
  /\ daily = <<>> /\ weekly = <<>> /\ monthly = <<>>
  /\ gone = {} /\ truth = <<>> /\ failed = {} /\ events = 0

Event == events < MaxEvents /\ events' = events + 1
-----------------------------------------------------------------------------
\* A result is processed: UpsertItemSnapshots (the items are first seen as
\* sold, so that sold_at is set) and AggregateHourlyStats.
Crawl(in, batch) ==
  /\ slot = "crawl"
  /\ AggregateHourlyStats(in, batch)
  /\ snapshots' = IF batch = {} THEN snapshots
                  ELSE Put(snapshots, day, batch \cup (IF day \in DOMAIN snapshots THEN snapshots[day] ELSE {}))
  /\ gone' = gone \cup batch
  /\ LET t == IF day \in DOMAIN truth THEN truth[day] ELSE Nothing
         n == Cardinality(batch)
     IN  truth' = Put(truth, day, Totals(t.inflow + in, t.outflow + n, t.samples + n))
  /\ UNCHANGED <<clock, hourly, daily, weekly, monthly, failed, events>>

\* The hourly rows in MySQL, the one of the current hour included.
HourlyRows ==
  IF row.inserted THEN Put(hourly, <<day, hour>>, Totals(row.inflow, row.outflow, 0)) ELSE hourly

\* The hour ends, and with its last hour the day.
HourEnds ==
  /\ slot = "crawl" /\ day < MaxDay
  /\ hourly' = HourlyRows
  /\ NextBucket
  /\ IF hour + 1 < HoursPerDay
     THEN hour' = hour + 1 /\ UNCHANGED <<day, slot>>
     ELSE hour' = 0 /\ day' = day + 1 /\ slot' = "daily"
  /\ UNCHANGED <<snapshots, daily, weekly, monthly, gone, truth, failed, events>>
-----------------------------------------------------------------------------
\* Mutant: the range of dates includes nextDate.
AggregateHourlyToDaily_Closed(d) ==
  LET keys == {k \in DOMAIN HourlyRows : k[1] \in d .. d + 1}
      n == IF d \in DOMAIN snapshots THEN Cardinality(snapshots[d]) ELSE 0
  IN  daily' = IF keys = {} THEN daily
               ELSE Upsert(daily, d, [Sum(HourlyRows, keys) EXCEPT !.samples = n])

\* aggregateHourlyToDailyForIP: totals from the hourly rows of the date, the
\* number of samples from the snapshots; without rows nothing is written.
AggregateHourlyToDaily(d) ==
  LET keys == {k \in DOMAIN HourlyRows : k[1] = d}
      n == IF d \in DOMAIN snapshots THEN Cardinality(snapshots[d]) ELSE 0
  IN  daily' = IF keys = {} THEN daily
               ELSE Upsert(daily, d, [Sum(HourlyRows, keys) EXCEPT !.samples = n])

\* Mutant: the last day of the week is left out.
AggregateDailyToWeekly_Short(d) ==
  LET w == ToMonday(d)
      keys == DOMAIN daily \cap (w .. w + WeekLength - 2)
  IN  weekly' = IF keys = {} THEN weekly ELSE Upsert(weekly, w, Sum(daily, keys))

\* aggregateDailyToWeeklyForIP.
AggregateDailyToWeekly(d) ==
  LET w == ToMonday(d)
      keys == DOMAIN daily \cap WeekDays(w)
  IN  weekly' = IF keys = {} THEN weekly ELSE Upsert(weekly, w, Sum(daily, keys))

\* Mutant: the weeks that end in the month are added as well.
AggregateWeeklyToMonthly_Overlap(m) ==
  LET keys == {w \in DOMAIN weekly : WeekDays(w) \cap MonthDays(m) /= {}}
  IN  monthly' = IF keys = {} THEN monthly ELSE Upsert(monthly, m, Sum(weekly, keys))

\* aggregateWeeklyToMonthlyForIP: the weeks that start in the month.
AggregateWeeklyToMonthly(m) ==
  LET keys == DOMAIN weekly \cap MonthDays(m)
  IN  monthly' = IF keys = {} THEN monthly ELSE Upsert(monthly, m, Sum(weekly, keys))

\* Nothing has gone wrong with the daily rows of a week, and all are there.
DaysComplete(w) ==
  \A d \in WeekDays(w) \cap DOMAIN truth : d \in DOMAIN daily /\ <<"day", d>> \notin failed

\* archiverLoop: which minute is next.
AfterDaily == IF day % WeekLength = 0 THEN "weekly" ELSE IF day \in MonthStarts THEN "monthly" ELSE "cleanup"
AfterWeekly == IF day \in MonthStarts THEN "monthly" ELSE "cleanup"

RunDailyArchive ==
  /\ slot = "daily" /\ slot' = AfterDaily
  /\ AggregateHourlyToDaily(day - 1)
  /\ UNCHANGED <<rowVars, day, hour, hourly, snapshots, weekly, monthly, gone, truth, failed, events>>

RunWeeklyArchive ==
  /\ slot = "weekly" /\ slot' = AfterWeekly
  /\ AggregateDailyToWeekly(LastWeek)
  /\ failed' = IF DaysComplete(LastWeek) THEN failed ELSE failed \cup {<<"week", LastWeek>>}
  /\ UNCHANGED <<rowVars, day, hour, hourly, snapshots, daily, monthly, gone, truth, events>>

RunMonthlyArchive ==
  /\ slot = "monthly" /\ slot' = "cleanup"
  /\ AggregateWeeklyToMonthly(LastMonth)
  /\ failed' = IF \E w \in MonthDays(LastMonth) : <<"week", w>> \in failed
               THEN failed \cup {<<"month", LastMonth>>} ELSE failed
  /\ UNCHANGED <<rowVars, day, hour, hourly, snapshots, daily, weekly, gone, truth, events>>

\* RunCleanup: CleanupOldHourlyData, -Daily-, -Weekly-, RunSnapshotCleanup,
\* each of which may fail by itself (one that has nothing to delete is not
\* worth failing).  A missed clean-up is one that fails in all.
Old ==
  [hourly |-> {k \in DOMAIN hourly : k[1] < day - HourlyRetention},
   daily |-> {d \in DOMAIN daily : d < day - DailyRetention},
   weekly |-> {w \in DOMAIN weekly : w < ToMonday(day - WeeklyRetention)},
   snapshots |-> DOMAIN snapshots \cap {day - SnapshotAge}]
RunCleanup ==
  /\ slot = "cleanup" /\ slot' = "crawl"
  /\ \E fails \in SUBSET {t \in DOMAIN Old : Old[t] /= {}} :
       LET Delete(t, f) == IF t \in fails THEN f ELSE Drop(f, Old[t]) IN
       /\ IF fails = {} THEN UNCHANGED events ELSE Event
       /\ hourly' = Delete("hourly", hourly) /\ daily' = Delete("daily", daily)
       /\ weekly' = Delete("weekly", weekly) /\ snapshots' = Delete("snapshots", snapshots)
  /\ UNCHANGED <<rowVars, day, hour, monthly, gone, truth, failed>>

\* The analyzer is down in a job's minute, busy with the job before, or the
\* job fails: the minute passes and the job is not tried again.  (A job that
\* has nothing to write is not worth missing.)
Crawled(days) == days \cap DOMAIN truth /= {}
Missed ==
  /\ Event
  /\ \/ /\ slot = "daily" /\ slot' = AfterDaily
        /\ Crawled({day - 1}) /\ failed' = failed \cup {<<"day", day - 1>>}
     \/ /\ slot = "weekly" /\ slot' = AfterWeekly
        /\ Crawled(WeekDays(LastWeek)) /\ failed' = failed \cup {<<"week", LastWeek>>}
     \/ /\ slot = "monthly" /\ slot' = "cleanup"
        /\ Crawled(MonthDays(LastMonth)) /\ failed' = failed \cup {<<"month", LastMonth>>}
  /\ UNCHANGED <<rowVars, day, hour, tables, gone, truth>>

\* triggerDailyArchive: any date, as often as wanted (a request that changes
\* nothing is left out).  Once the day is over and while its rows and its
\* snapshots are there, this makes good for a job that went wrong; when the
\* snapshots are gone and there is no daily row, it writes one without samples.
TriggerDailyArchive(d) ==
  /\ Event
  /\ AggregateHourlyToDaily(d)
  /\ failed' = IF d = day \/ ~\E k \in DOMAIN hourly : k[1] = d THEN failed
               ELSE IF d \in DOMAIN snapshots \/ truth[d].samples = 0 THEN failed \ {<<"day", d>>}
               ELSE IF d \in DOMAIN daily THEN failed
               ELSE failed \cup {<<"day", d>>}
  /\ <<daily, failed>>' /= <<daily, failed>>
  /\ UNCHANGED <<rowVars, clock, hourly, snapshots, weekly, monthly, gone, truth>>

\* triggerWeeklyArchive makes good for a weekly job as long as the daily rows
\* are all there; later it spoils the weekly row, and before the week is over
\* it may spoil the monthly one.
TriggerWeeklyArchive(d) ==
  LET w == ToMonday(d)
      over == w + WeekLength =< day
  IN  /\ Event
      /\ AggregateDailyToWeekly(d)
      /\ failed' = IF over /\ DaysComplete(w) THEN failed \ {<<"week", w>>}
                   ELSE IF weekly' = weekly THEN failed
                   ELSE failed \cup {IF over THEN <<"week", w>> ELSE <<"month", MonthOf(w)>>}
      /\ <<weekly, failed>>' /= <<weekly, failed>>
      /\ UNCHANGED <<rowVars, clock, hourly, snapshots, daily, monthly, gone, truth>>

Next ==
  \/ \E in \in 0 .. MaxInflow, batch \in SUBSET (Items \ gone) : Crawl(in, batch)
  \/ HourEnds
  \/ RunDailyArchive \/ RunWeeklyArchive \/ RunMonthlyArchive \/ RunCleanup \/ Missed
  \/ \E d \in DOMAIN truth : TriggerDailyArchive(d) \/ TriggerWeeklyArchive(d)

Spec == Init /\ [][Next]_vars
-----------------------------------------------------------------------------
TruthOf(days) == Sum(truth, days \cap DOMAIN truth)

\* What the crawls of a day added up to is always to be found: in its hourly
\* rows and snapshots, in its daily row, or in the row of its week, until the
\* weekly row itself is old enough to go, unless the night's job, or the
\* Monday's, went wrong and nobody has repeated it.
InHourly(d) ==
  LET keys == {k \in DOMAIN HourlyRows : k[1] = d}
  IN  keys /= {} /\ Sum(HourlyRows, keys) = [truth[d] EXCEPT !.samples = 0]
      /\ (truth[d].samples > 0 => d \in DOMAIN snapshots /\ Cardinality(snapshots[d]) = truth[d].samples)
InDaily(d) == d \in DOMAIN daily /\ daily[d] = truth[d]
InWeekly(w) == w \in DOMAIN weekly /\ weekly[w] = TruthOf(WeekDays(w))
NothingLost ==
  \A d \in DOMAIN truth :
    \/ InHourly(d) \/ InDaily(d) \/ InWeekly(ToMonday(d))
    \/ ToMonday(d) < ToMonday(day - WeeklyRetention)
    \/ {<<"day", d>>, <<"week", ToMonday(d)>>} \cap failed /= {}

\* A daily row, once the night's job is over, is the sum of its day for good:
\* archiving the day again by hand, even after the clean-up, never spoils it.
DailyFinal ==
  \A d \in DOMAIN daily :
    (d < day /\ <<d + 1, "daily">> /= <<day, slot>> /\ <<"day", d>> \notin failed) => daily[d] = TruthOf({d})

\* A monthly row is the sum of the weeks that lie in its month from beginning
\* to end, unless one of them went wrong or was archived before its end.
FullWeeks(m) == {d \in MonthDays(m) : WeekDays(ToMonday(d)) \subseteq MonthDays(m)}
MonthlyFullWeeks ==
  \A m \in DOMAIN monthly : <<"month", m>> \notin failed => monthly[m] = TruthOf(FullWeeks(m))

\* aggregateWeeklyToMonthlyForIP asks for "all weeks that start in the month":
\* the monthly row is their sum.
MonthlyHasItsWeeks ==
  \A m \in DOMAIN monthly : <<"month", m>> \notin failed =>
    monthly[m] = TruthOf(UNION {WeekDays(w) : w \in {ToMonday(d) : d \in MonthDays(m)} \cap MonthDays(m)})
=============================================================================
