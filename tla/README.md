# TLA+ models of animehot

animehot watches second-hand listings of anime IPs. A *scheduler* (in the analyzer process)
pushes crawl tasks to Redis. *Crawlers* pop them, fetch pages with a shared Chrome instance
and push results. The analyzer's *pipeline* pops the results, tracks every item's status in
Redis, folds the changes into hourly statistics in MySQL and adjusts how often the IP is
crawled. *Janitors* put stuck tasks and results back, and an *archiver* sums the hourly rows
into daily, weekly and monthly ones and deletes what is old. An HTTP API edits the IPs beside
all of that.

This directory holds specifications of the parts whose correctness depends on interleavings,
crashes, retries and rounding, the TLC models that check them, and TLAPS proofs of their
safety properties for every value of the constants.

## Inventory

| Part | Source | State | Modules |
|---|---|---|---|
| Task queue | `internal/pkg/redisqueue/client.go` | three lists, pending set, started hash | `TaskQueue`, `TaskLifeCycle`; proved |
| Result queue | same | three lists, started hash, processed set | `ResultPipeline`, `TaskLifeCycle`; proved |
| Pipeline, item state machine | `internal/analyzer/pipeline.go`, `state_machine.go` | workers, one hash per item | `ResultPipeline`, proved; phases 3 and 3.5 in `IntervalLoop` and `Schedule` |
| Hourly statistics | `internal/analyzer/aggregator.go` | one row per IP and hour | `HourlyStats`; proved |
| Archiver | `internal/analyzer/archiver.go`, `archiverLoop` | daily, weekly, monthly rows | `Archive`; proved |
| Interval adjuster | `internal/analyzer/interval_adjuster.go`, `internal/config` | weights | `Intervals`, `IntervalLoop`; proved |
| Scheduler, schedule store | `internal/scheduler/` | ZSET of next times | `Schedule`; proved |
| API handlers that write | `internal/api/ip_handler.go` | rows of `ip_metadata` | `Schedule`, `IntervalLoop`, `Archive` |
| Crawler worker, page loop, throttle, rate limiter | `internal/crawler/crawl.go`, `fixed_pages.go`, `page_fetch.go`, `adaptive.go`, `internal/pkg/ratelimit/` | tokens, counters, bucket | `CrawlTask`; proved |
| Browser life cycle, proxy mode | `internal/crawler/browser.go`, `proxy.go` | instance, lock, draining, cache | `Browser`; proved |
| Statistics and alert API, reply cache, parsing, stealth, metrics, wiring | rest of `internal/`, `cmd/` | none the others depend on | not modelled |

"Proved": every safety property the passing runs check of it is a theorem, two of them under
a hypothesis that *Proofs* names. `PROJECT.json` has the same list with notes, the hazards each part is exposed to, and for
every definition the lines it models.

## Modules

**`EntryLists`**: the Redis lists, as sequences of records with an id, and the removal by id
that the Lua scripts do.

**`TaskQueue`**: one step per Redis command or Lua script. `queue`, `processing`, `dead`,
`pending`, `started` are the Redis keys; `wpc`/`wtask` the goroutine of each semaphore slot;
`jpc`... the progress of each `RescueStuckTasks` call, with the replies it works from; `apc`
whether `IPScheduler.Start` is past `RecoverOrphanedTasks`. `PopTask` and `RecordStart` are
the two commands of `PopTask`; `TimeoutTask` is every way a goroutine leaves without
acknowledging; `CrashWorker` a process that dies. `acked` and `strayed` are history.

**`TaskLifeCycle`**: what both queues promise, without lists, janitors or processes: a task is
submitted once, waits, runs, may be recovered or tried again, and finishes once or is buried
after `MaxRetries` retries. `TaskQueue` implements it with the lists read as sets
(`waiting <- ToSet(queue)` and so on); the commands on the pending set, the start times and
the replies of the janitors are stutters. `ResultPipeline` implements it too, with results in
the place of tasks; what a worker does between `PopResult` and `AckResult` is a stutter.

**`ResultPipeline`**: `processOne` as the steps pop, record, check, count, read, write (one
HSET at a time), statistics, mark, acknowledge, each able to fail where the code handles an
error, beside `RescueStuckResults` and `RecoverOrphanedResults`. `inflow[i]` and
`outflow[i]` are what item `i` has added to the summed columns. The history variables
are `removed`, `finished` and `turned`.

**`HourlyStats`**: the upsert of `ip_stats_hourly`, one operator per assignment. The order
of evaluation is external: GORM sorts the keys of `clause.Assignments(map)`, and MySQL
evaluates `ON DUPLICATE KEY UPDATE` from left to right. (SQLite, which the tests use,
evaluates all of them against the old row.)

**`Archive`** composes `HourlyStats` with the jobs of `archiverLoop`. `slot` is the next job
of the day; a job that is missed, or fails, is not tried again (`Missed`). Tables are
functions from their key to sums; `Upsert` leaves a column alone where the new value is zero,
as GORM's `Assign(struct)` does. `RunCleanup` is four deletions, any of which may fail.
`truth` (what the crawls of a day added up to) and `failed` are history. `failed` names what
the properties excuse: a day or week whose job was missed or found rows missing, until
somebody repeats it with all rows still there, and the month of a week that was archived by
hand before its end.

**`Intervals`** has the arithmetic: `CalculateInterval`, the adjuster's thresholds and steps,
the rounding to minutes and to the `DECIMAL(5,2)` column (weights are integers, in
hundredths), the alignment to slots. **`IntervalLoop`** is the loop around it: read the
weight, adjust, write, schedule, with the API editing the weight in between.

**`Schedule`**: the ZSET and its writers, one Redis command or MySQL statement per step:
`initScheduleTimes`, `checkAndSchedule` with its batches and its wait for the queue,
`RefreshActiveIPs`, the handlers (create, update, delete, import, trigger) and phase 3.5. An
entry is the time left until it is due. `loop.lag` is the age of the `now` that
`checkAndSchedule` reads once. Each Redis or MySQL error the code goes on after is an action
of its own. `gap`, the time since the last accepted push, is history.

**`Browser`**: the mode switch (`getProxyState`, `ensureBrowserState`, `rotateBrowser`), the
draining protocol between a rotation and the pages (`trackPageStart` and `trackPageEnd`, each
in the steps in which they touch the flag, the count and the channel), and the health check.
`mu` is the writer lock. `excused` (history) names the tasks draining cannot protect.

**`CrawlTask`**: a slot is the pair of goroutines `StartWorker` creates for a task. The worker
may give up while `doCrawl` goes on. `doCrawl` runs through `ensureBrowserState`, the token
bucket, the jitter, the pages of two phases, and the judgement of an error. Shared by the
slots: statistics, `taskCounter`, the throttle, and in Redis the bucket, the failure count
and the cooldown. `lead` (history) is how far the bucket has granted ahead of its inflow.

Operators named `X_Something` are mutants of `X`: plausible mistakes that the properties are
shown to catch.

**Time.** In the queues timestamps are ages that saturate at `MaxAge`; the code only ever compares
`now - timestamp` with a threshold. `Tick` is always possible, so a crawl may be slower than
a janitor's threshold. The shipped configuration allows that (`JANITOR_TIMEOUT` 10m,
`BROWSER_TASK_TIMEOUT` 12m in `docker-compose.yml`).

## Runs

Passing:

| Run | Shows |
|---|---|
| `task_janitors` | two janitors, two slots, all faults: conservation, pending marks, deduplication, retry budget, refinement of the life cycle |
| `task_restart` | two restarts under running crawls: the life cycle is kept, and a recorded task leaves processing (fair) |
| `result_one_worker` | failing count, items, statistics, mark and ack, and a restart: refinement of the life cycle, removal only after processing, no double inflow; a recorded result leaves processing (fair) |
| `result_two_workers` | two results of one task, two workers, failing start records, checks, items and acks |
| `interval_loop` | the real constants: the next crawl stays within its limits, adjustments go their way in spite of rounding, a regression never past the base, and a steady market leads to the minimum, maximum or base interval (fair) |
| `schedule_handlers` | two concurrent requests, refresh, loop, pipeline, errors, restarts: active IPs are crawled again and again, inactive ones leave for good (fair), pushes keep their distance |
| `schedule_batches` | two due IPs in batches of one: the wait for the queue ends (fair) and costs no more distance than it lasts |
| `browser` | draining protects what it counts, no lost wake-up, no stuck draining flag; rotations end, the mode follows the cooldown key, a lost instance comes back (fair) |
| `crawl` | every task counted once, the throttle has a sleeper, the bucket's bound, the proxy only after timeouts |
| `archive` | the hourly row summarises its hour, nothing is deleted before its sum is kept, daily rows are final, monthly rows are the sums of their full weeks |

Violated, each with a finding in `PROJECT.json` that quotes the line it contradicts:

| Run | What happens |
|---|---|
| `result_lost_sale` | statistics fail after the hashes are written: the sale is never counted |
| `archive_month` | the week that straddles the end of a month is in no monthly row |

**Known deviations.** The models have these behaviours of the code, and the properties above
state what holds in spite of them:

- A janitor may rescue a task that is still running; its late `AckTask` then frees the IP and
  a second task of it is accepted, against `system-design.md:1102`. `DedupUnlessStrayed` excuses
  exactly those IPs (`strayed`).
- A task popped between a janitor's HGETALL and LRANGE is judged by `CreatedAt` and may be
  rescued at once.
- A crawler that dies between BRPOPLPUSH and HSET leaves a task that no janitor looks at while
  the started hash is empty (`client.go:410`). Hence *recorded* in `RecordedTaskMovesOn`.
- A slow result that is rescued may be processed by two workers at once and its new listings be
  counted twice. `InflowCountedOnce` is checked for one worker.
- The error result of a timed-out crawl marks the task processed, so the result of its retry
  is skipped. `RemovedOnlyIfFinished` counts the error result as processed. A result whose
  push fails is lost, because the task is acknowledged all the same.
- A first crawl interrupted half way is not recognised as one when retried, and counts the
  rest of its items as new listings.
- An item that slips from one page to the next between two fetches is twice in the result, and
  counted as two new listings if it is new (`OneListingEach` in the proof).
- In the second crawl of an hour `min_price_item`, `max_price_item` and `liquidity_index` are
  computed from columns the same statement has already changed. `RowSummarisesHour` is about
  the prices and sums only.
- A blocked page is skipped, and a crawl of blocked pages only is a success: blocks never lead
  to the proxy (`ProxyOnlyAfterTimeout`), whatever `detect.go:641` says.
- `trackPageStart` counts its page last, so a rotation may close the instance under it; the
  health check may restart a healthy instance because it tested the one before. Both are in
  `excused`.
- A day archived by hand for the first time after its snapshots were deleted gets a row
  without samples (in `failed`).
- A weekly archive by hand, after some daily rows were deleted or before the week is over,
  spoils the weekly or monthly row; both are in `failed`. A clean-up of snapshots that is
  missed leaves that day's snapshots for good.
- `RefreshActiveIPs` takes an entry it cannot read for a missing one and sets it to now; the
  handlers report success when the schedule write failed. `PushSpacing` excuses the former,
  the refresh makes good for the latter.

**Bounds.** Task queue: two tasks are enough for a second task of the same IP and a second
entry in every list (`task_restart` has one, for the liveness check, and two restarts); two
slots for a rescued task that runs twice; two janitors for overlapping listings; threshold 0
and `MaxAge` 1 for both sides of every comparison; one retry for both outcomes of a rescue.
Results: two of one task are what `AckResult` can confuse, one more of another task gives the
IP a past; two items are enough for a half-written batch. Intervals: minutes, steps,
thresholds and slot are the defaults, the weights of the API lie on both sides of zero and
of the range. Schedule: one IP with two requests at a time and two events of any kind (each a
request, an error or a restart); or two IPs in batches of one, so that the second waits.
Browser: two tasks, one to rotate and one to be rotated under, and one crash, failed launch
or Redis error beside unlimited changes of the cooldown. Crawl: two slots, three pages in two
phases, thresholds of two, a bucket of one request. Archive: days of two hours, weeks of two
days, months of three, so that weeks straddle months; retention as in the code up to scale,
with every deletion reached by day 6; two missed jobs, partial failures or requests. The
archive properties also hold with a third item, sold without a price (2.3 million states).
Slots and workers are interchangeable; the symmetry is used where no liveness property is
checked.

Deadlock is not checked in `Archive`, which stops at its last day, and in `IntervalLoop` and
`Schedule`, whose clock, market and loop can always move.

**Fairness.** Weak fairness of every goroutine's next step, of every janitor, of the
recovery, the refresh and the clock: these are loops, tickers and time. A handler that has
begun returns. In `Schedule` every task leaves the queue, which is what `TaskQueue` shows of
recorded tasks. In `Browser` the steps that take the lock are strongly fair, because Go's
`RWMutex` lets no waiter starve, and a crawl ends because its context does. No crawl has to
succeed and nothing has to be pushed. Faults, timeouts of the drain, restarts and requests
are never fair.

## Proofs

`TaskQueueProofs` proves, for any sets of tasks, IPs, slots and
janitors and any bounds that meet the ASSUMEs: `TypeCorrect`, `TasksConserved`,
`NoPendingLeak`, `DedupExact`, `RetriesBounded`, `RetryMonotone`.

The inductive invariant is `TypeOK` (which no run repeats) with four promises that need each other. That a
rescue doubles nothing needs ids to be unique per list (conservation); that removing an
entry may clear its IP's mark needs it to be the IP's only one (deduplication); and that
holds only for IPs not in `strayed`, which is why that history is kept. One lemma per kind of
move (pop, recovery, push, acknowledgement, rescue) carries the promises; `NextInv` goes
through the actions. `RetryMonotone` follows from it: an id determines its entry, and
only the rescue script writes a retry count; in the runs `KeepsLifeCycle` says as much. No assumption about time is used, so a janitor
may rescue anything at any moment.

The same module proves `ImplementsLifeCycle`: `TaskQueue` implements `TaskLifeCycle`
under the mapping above. One lemma per kind of move shows which abstract step it is. All
of them need the inductive invariant: a list read as a set forgets how often an entry occurs,
so removing one occurrence is a removal only because ids are unique.

`ResultPipelineProofs` proves `ResultTypes`, `ResultsConserved`, `RemovedAreFinished` and
`RetriesBounded` for any results, tasks, workers, items and bounds. `IndInv` is the types, the
promises of the lists (`ListInv`, from lemmas on lists as for the task queue) and
`FinishInv`: a worker that is about to mark or acknowledge has a finished task in hand.
Without the latter `RemovedOnlyIfFinished` survives neither `MarkProcessed` nor `AckResult`,
and without the former an acknowledgement by task id, which removes the first matching entry,
could remove another one. `ListingsCountedOnce` (`InflowCountedOnce`) has two hypotheses:
one worker (`OneWorker`; two may read an item's hash before either writes it), and no item
twice on sale in one result (`OneListingEach`, see *Known deviations*). Its
`CountInv` says that a counted item has a hash and that what the worker has read agrees.
`ImplementsLifeCycle` is the refinement of `TaskLifeCycle`, by the argument of the task queue.
It is sharper here, since an acknowledgement names a task and not a result: what it takes
out is some running result of that task, which then is the one that finishes.

`IntervalProofs` proves `SpacingAlwaysBounded` for any limits, weights (negative ones
included), slot length, clock and number of workers. The invariant adds that each worker
which is about to schedule holds an interval within the limits; the rest is arithmetic on
`Clamp` and `AlignToSlot`. `AdjustmentsKeepDirection` is `AdjustsInItsDirection`, for any base
interval, stored weight and flow, under the hypothesis `ExactLimits`: the weights of the two
limits, `BaseInterval / MinInterval` and `BaseInterval / MaxInterval`, have two decimals. This
is so in every configuration of the repository. Without it the column rounds the weight of
a limit, and the adjustment of an IP at that limit or beyond it can move it back by that much; a
regression (`RegressReturns`) does not need it. The proof follows the value through both
conversions: rounding the minutes keeps the side of every whole minute on which they
lie (`RoundKeepsSide`), and a larger weight never gives a longer interval (`WeightShortens`).

`BrowserProofs` proves `DrainsOnlyToRotate`, `NoLostWakeUp` and `DrainProtects` for any
finite set of tasks, with one invariant on top of the other. `LockInv`: a task is in a
rotation exactly if it owns `Service.mu`, the node drains exactly then, and then there is a
channel; hence one rotation at a time. `PageInv` adds that `activePages` is the number of
tasks that crawl: the last page to end sees 0, and a rotation that begins to wait has seen
more. `ExcuseInv` adds what a rotation may rely on when it takes the instance: once the channel
is closed or the wait is over, whoever still crawls with that instance is in `excused`.
`NoUseAfterClose` alone is not inductive: it says nothing of the instance that is
about to be closed. `PagesInRange` is the type invariant; that `activePages` never goes below
zero is a consequence of `PageInv`.

`CrawlTaskProofs` proves `BucketBounded`, `ThrottleNeverStuck`, `ProxyNeedsTimeout` and
`NoDoubleCount` for any finite set of slots, burst, cost, thresholds and number of pages.
`RateInv` bounds the units granted ahead of the inflow together with what the bucket holds
(`lead + Refilled =< Capacity`), which refilling, taking and the passing of time keep.
`SlotInv` knows where each doCrawl is and that one that probes the proxy has timed out.
`CountInv` adds the statistics: a step that ends a task counts at most one.
`CrawlCountersInRange` is the type invariant with its ranges: no page beyond the last, no
block or failure count beyond its threshold, no bucket above its burst (`PageInv`,
`ShareInv`, `BoundInv`).

`HourlyStatsProofs` and `ArchiveProofs`, which extends it, are about `Archive` and with it
`HourlyStats`, for any items, prices, calendar, crawls and number of faults. `RowIsSummary` is `RowSummarisesHour`: `RowInv` adds that an item
is sold once and that a row not inserted is empty, and one lemma follows the assignments of
the upsert in their order. The other three build one invariant on the other, each about one
table and needed by the next: `HourlyInv` (the hourly rows of a day are all there or none is,
and none goes before the night's job is over), `SnapshotInv` (the same of the snapshots),
`DailyInv` (a daily row never says too much, is right after its night unless noted, and stays
until the week is over), `WeeklyInv` and `MonthlyInv`. `DailyRowsFinal` is `DailyFinal`,
`ArchiveKeepsTotals` is `NothingLost`, `MonthlyRowsFull` is `MonthlyFullWeeks`. None of the
three is inductive: each speaks of one table, while the jobs compute it from the
table below, which the clean-up deletes. The proofs assume `RetentionAssumption`: snapshots
live for a day, daily rows for a week, weekly rows for more than a month (8, 90 and 365 days in
`RunCleanup`). The sums are `SumFunctionOnSet` of the community modules; that it does not
depend on the order, grows with its set and splits over a partition is proved from its definition,
with a smallest counterexample (`SmallestSet`) in the place of induction.

`ScheduleProofs` proves `ScheduleTypes` and `PushesAreSpaced` for any finite set of IPs, any
integer weights, batch size, wait and threshold. The type invariant bounds every entry by the
longest aligned interval, or by the spread of a first start. `LoopInv` counts the batches: the
`now` of `checkAndSchedule` is at most `k` waits old after `k` full batches, and a wait
follows only if IPs are left, hence `MaxLag`. `SpacingInv` ties an entry to the time since the
last push: it lies ahead by what is missing to `MinInterval`, except while the loop
has pushed and not yet written, and what the loop has read as due stays due.

**Model-checked only.** The liveness properties, which need fairness and ENABLED, and the
two violated runs.

## Not modelled

- The reply cache (`cache.go`, `stats_handler.go`) and the read-only handlers: a reader that
  fills the cache after its invalidation leaves a stale reply until its TTL ends, and the
  boards of 2 to 23 hours are never invalidated; nothing in the system reads them back.
- Parsing, detection, humanising and stealth: text and browser I/O whose outcomes are
  choices in `CrawlTask`. Cookies, whose saving and clearing may race, change nothing but
  what the site shows. The pages of Chrome one by one: a page created after
  `pageCreateTimeout` is never closed.
- Alerts, metrics, logging, configuration and wiring.
- Clock skew between processes; entries that do not parse; an error reply to a janitor's
  own script call (it skips the entry, a step that changes nothing in Redis).
- `PushTaskForce`, `DeduplicateQueue`, `RemoveFromPendingSet`: called by tests only.
  `DiffEngine`: constructed and not used.
- Expiry of the processed set and of item hashes; prices in the state machine; `sold_at` of
  an item first seen on sale, which the upsert never sets.
- A MySQL commit whose reply is lost.
- Average, median and deviation columns: each upsert overwrites them.
