# Formal model of the trading-analysis bot

The repository keeps four successive copies of one program: the first bot
(`src/`, below **first**), `src/gpt/v3` (**v3**), `src/gpt/anewme_bot` (the
**release**) and `src/gpt/test/anewme_bot` (the **test copy**: the release with
scheduled batches and an audit trail added). It is a Telegram bot that reads
prices from MetaTrader 5, asks a language model for a verdict (TRADE, WATCH or
NO_TRADE), follows the *watches* and *signals* that come out of it, and never
places orders.

The release is the program modelled. Paths without a prefix are the release's.
What only the test copy has is modelled from there and said to be so: the
batches (`ScheduledBatch`, the actor `batches` of `WatchRuntime`), and with them
a second thread that analyses (`OpenRisk`). v3 and the first bot differ from the
release in how they run, and have a module each.

One process runs the loops over one SQLite database: the watch monitor, the
analysis worker, the delivery of messages and the tracking of signals (and the
batches); Telegram handlers put requests in a table. Analyses run in threads.
All that survives a crash is in the tables.

## Inventory

| Component | State | Operations | Interaction | What makes it correct |
|---|---|---|---|---|
| Watch life cycle (`watch/watch_manager.py`, `watch/monitor_loop.py`, `storage/db.py`) | table `watches`: `close_status`, `pending_event`, a cursor per timeframe, expiration | create, read candles, trigger, invalidate, expire, close | ends by a conditional UPDATE, races with analyses; a trigger inserts a job | ends once, in time, with evidence; each candle once; a job exactly for a trigger |
| Analysis worker (`core/worker.py`, `storage/work_queue.py`) | table `analysis_jobs`; the job in hand | enqueue, claim, run, finish, recover | runs the service in a thread; writes the answer to the outbox | every job answered, none run twice |
| Analysis service (`core/analysis_service.py`) | a lock per symbol; tables `analyses`, `watches`, `trade_tracking` | initial analysis, recheck, finalisation | called by the worker (and the batches) | the answer still holds when it is stored; one active watch per symbol; one transaction for result, watch, signal and answer |
| Outbox and delivery (`storage/work_queue.py`, `telegram_bot/delivery.py`) | table `outbox`; the rows of a tick | queue, fetch, send, settle, postpone | every loop queues; Telegram may lose the reply | per-chat order, nothing dropped or repeated unexplained |
| Scheduled batches (test copy, `core/scheduled_analysis.py`) | tables `scheduled_runs`, `scheduled_charts`, `scheduled_health` | claim a slot, read data, receipts, final analyses, cancel, probe, daily report | calls the service, queues messages | all or nothing, once per slot, breaker respected |
| Signal tracking (`watch/trade_tracker.py`) | table `trade_tracking` | poll: expire, fill, win, lose | rows come from the service; open rows count against the open-risk cap | a verdict rests on a price of the right side and moment; every signal ends; the cap |
| Price conditions, candles (`watch/conditions.py`, `broker/candle_utils.py`) | none | parse, match, compare scenarios, closed-candle filter | used by the monitor and the service | trigger and invalidation disjoint |
| Validation and sizing (`core/validator.py`, `core/risk_manager.py`) | none | price validation, reward/risk, volume, cap | used by the service | the volume loses no more than the risk |
| Model client (`core/ai_client.py`) | cache of descriptions, per-thread attempts | describe, decide, retry | used by the service | at most three attempts, none after a permanent error |
| Start, stop, lock (`main.py`, `core/runtime.py`) | lock file, tasks | start, recover, gather, stop | owns the loops | one process, recovery before the loops |
| Telegram commands (`telegram_bot/handlers.py`) | none | request an analysis, reports | writes `analysis_jobs` | a busy symbol is refused |
| Bot of v3 (`src/gpt/v3`) | the tables, without queue and outbox | monitor ends watches and rechecks them itself; commands analyse | two threads, one UPDATE per claim | each candle judged once; each recheck accounted for |
| First bot (`src/`) | flags `locked`, `triggered`, `closed` per watch | the same on one asyncio thread | coroutines interleave while they send | no watch disabled for ever without cause; the release repairs its tables |
| Broker, charts, parser, audit and replay | none / files | I/O, rendering, records | environment | see below |

What is hard here is less the arithmetic than the schedules: a row read before a
broker call and used after it, two loops ending the same watch, a crash between
two transactions, a reply lost after the effect, a model call that outlives the
candle or the scenario it was asked about. `PROJECT.json` lists these hazards at
their lines.

## Modules

| Module | Models |
|---|---|
| `WatchPromise` | abstract: a watch opens when its symbol is free, ends once, is answered only after a trigger and once |
| `WatchRuntime` | monitor, worker, service (threads and lock), batches' analyses, requests, crash and recovery |
| `WatchCheck` | `check_trigger`: closed candles of three timeframes, their cursors, polls that fail, late candles, crashes |
| `FinalCheck` | one analysis from its first look at the account to its last transaction, while the market moves on |
| `Courier` | abstract: a queue per chat, the oldest message repeated until settled |
| `Outbox` | the outbox table and the delivery loop; its events come from `WatchPromise` by `INSTANCE` |
| `ScheduledBatch` | slots, data, receipts, final analyses, announcements, service health, probe, crash |
| `TradeTracker` | one signal under the tracker's polls, beside the true path of prices |
| `OpenRisk` | the open-risk cap: two threads that weigh, then insert, signals of different symbols |
| `Conditions`, `TradeRules` | the release's pure rules: conditions, comparison of scenarios, validation, volume, cap |
| `OlderRules` | the same rules as v3 and the first bot have them |
| `ClaimedBot` | v3 on one symbol: monitor and chat |
| `FirstBot` | the first bot on one symbol, and the migration of its table by the release |
| `...Proofs` | theorems about the module of that name; `SignalProofs` is about `TradeTracker` and `OpenRisk`, `FinalCheckProofs` also about the release's rules, `FirstBotProofs` about the older ones |

`FinalCheck` and `WatchCheck` use `Conditions`, `FinalCheck` also `TradeRules`,
`ClaimedBot` and `FirstBot` `OlderRules`. Otherwise each detailed module stands on its own tables; they
meet where one writes what another reads, and there each says what it takes from
the other. `WatchRuntime` sees a candle's evaluation as one step of one
timeframe, which `WatchCheck` opens up, and an analysis as a verdict, which
`FinalCheck` opens up. `OpenRisk` takes the insert from the last transaction of
the service and the end of a signal from `TradeTracker`. `Outbox` carries the
messages all of them queue.

Operators whose comment begins with "Slip" are no part of the system. Each is a
plausible mistake in the operator it precedes; replacing the operator by its slip
makes the property named beside it in `PROJECT.json` fail.

### Correspondence to the code

**WatchRuntime.** An action is one database transaction, or a stretch of one
thread between two points where others can look. `status` is `close_status`,
`event` is `pending_event`, `seen` the candle cursor (one timeframe: a tick of
`clock` is one M5 close), `notice` the outbox row `watch-end:<id>`, `job`,
`order`, `answer` the row of `analysis_jobs` and its result text, `signals` the
rows of `trade_tracking` that came from a job. `pc`, `place`, `verdict`,
`target` are the locals of a running analysis. `CheckBegin` keeps the order of
`check_trigger`: expiry, openness, stored decision, and only then the broker.
`Evaluate` is the candle's transaction, `Apply` the transaction of `_tick`,
`Commit` the last transaction of `_finalize`, with the job's answer inside.
`Restart`, `RecoverJob`, `Recovered` are `recover()`. Jobs are named by what
makes them, so `INSERT OR IGNORE` on the job's key is `job[w] = "none"`.
A batch's TRADE and NO_TRADE touch no table of this module and are part of
`Abandon`; they are told apart in `ScheduledBatch`.

**WatchCheck.** Time counts closes of M5; a candle is named by the time it
closes. `bars` are the candles a poll still has to judge, `cursor` the column
`candle_cursors`; `Evaluate` is the transaction of one close time. `now` and
`after` are read before the calls of the broker, the row again inside the
transaction. `FetchLate` is a broker that does not show the newest candle yet.
`checked` and `served` record what was judged and which polls saw everything.

**FinalCheck.** A unit of time is a fraction of the shortest candle, so that a
quote may be older than a close. `snap` is the last moment the first snapshot
knows, `fresh` the same of the second. `Describe`, `FromCache`,
`TransientFailure`, `PermanentFailure` and `Decision` are the client's requests.
`SecondAccount`, `CheckTrade`, `CheckCap`, `Compare`, `Register`, `Commit` are
`_finalize` in its order. `past` is the triggered parent, or the last closed
watch the new scenario is compared with.

**Outbox.** A row of `outbox` is a record; a position is its rowid. A message
takes one row per recipient and part. `Fetch` is `pending_messages`: the first
`Limit` due rows, one per chat, treated in rowid order (`Current`). `Arrive` is
Telegram taking a message, `Delivered` the bot writing it down; `Fail` before or
after the arrival is a lost request or a lost reply. `resting` says
`next_attempt` is in the future.

**ScheduledBatch.** `at` is where `process()` stands, one step per transaction.
`resting` says `next_probe_at` is in the future. Retries of the client are
inside one `Receive` or `Ask`; a TRADE that falls short only of the reward to risk
is the WATCH of `Ask` that saves no watch. Reading the charts' data, the receipts and the
verdicts are choices of the environment. The messages about a change of health
take part in no decision and are left out.

**TradeTracker.** `bids` is the market, one bid per unit of time; a candle is
`Bar` units and knows the extremes of the bid. `PollBegin` is the row and `now`
read at the start of `_check_one`; time then passes in the broker calls, and
`PollAnswered` is the rest of the handler, one UPDATE or none. The price comes
after `now`, so it may be of a moment after the expiration although `now` is
before it: the history `looked` keeps the moments at which a poll begun in the
order's life got its price, and `ExpiryIsReal` compares them with the expiration
and the true path. Where direction
and order type are tested by string, `kind` is a record. An expiration that does
not parse is not modelled: validation refuses it.

**OpenRisk.** Risk is counted in parts of the balance, and the sum of the open
rows is the number of their parts. `Begin` takes the lock of the symbol, `Weigh`
is the sum and the test against the cap, `Insert` the last transaction; `Drop`
is every other end. The account's own risk changes at will (`AccountMoves`).

**ClaimedBot.** `desk` holds the locals of the two threads, `pc` names the
transaction or call that comes next. `ClaimCandle` and `ClaimTrigger` are the
conditional updates of the same names; `Track`, `Create` and `Save` are three
transactions there. `checked` is `last_checked_candle`. A write is a change of a
row and then an event logged in a transaction of its own, so a failing one may
have changed the row or not: `EvaluateFails`, `CloseFails`, `ClaimTriggerFails`,
`AnnounceFails` and `StartFails` are those outside the monitor's `try`, which end
its tick; `CompleteFails` and `ReportFails` are those inside it, answered by the
except branch with ERROR (`Excepted`). `excused` and `cut` are histories: the
candles and the analyses that such a failure or a crash lost. v3 takes every number of
a text for a level, the one in "M5" too (`ClaimedLevels`).

**FirstBot.** A coroutine gives way only at an `await` that sends or sleeps
(`Awaits`). The broker is asked for candles from position 0, so the last one is
still forming, and is judged once, at first sight (`TakeCandle`). `Upgrade` is
the part of the release's `init_db` that mends the first bot's watches, with the
death of whatever the old process was doing. The bot may find any of the tables
in `Legacy`; `lost` and `cut` then begin with the rows an earlier run left.

**Rules.** Prices are naturals in points, a risk in hundredths of a percent, a
volume in lot steps. The code computes with floats and a tolerance for their
rounding; the exact quotients stand here. A text is what the regular expressions
find in it.

## Runs

| Run | Question | Bounds |
|---|---|---|
| `watch_runtime` | safety of the runtime, refinement of `WatchPromise`; jobs are answered, watches end | 1 symbol, 2 watches, 1 request, 1 batch, 3 candle closes, 1 crash |
| `watch_check` | each candle once and in order, decisions earned, skips explained | 3 timeframes of 1, 2 and 4 closes, 4 scenarios, a few closes, one failing poll, one crash |
| `final_check` | a stored TRADE or WATCH still stands, a closed scenario does not come back | candles of 3, 6 and 12 units, grace 1, 7 units, 10 answers, 5 pasts |
| `outbox` | order, accounting, duplicates, refinement of `Courier`, settlement | 2 chats, one deaf, a result of 2 parts, 1 report, 1 fault, 1 crash |
| `scheduled_batch` | all or nothing, once, truthful, no orphan, breaker | 3 slots, 2 symbols, TRADE, a WATCH that is saved or not, failure, the configured threshold (2), 1 failed probe, 1 crash |
| `trade_tracker` | fills, outcomes and expiry against the true path; every signal ends | 4 kinds of order, 3 prices, spread 1, 6 units of time, candles of 2, lifetimes 0, 2 and 5 |
| `open_risk` | how far the cap can be passed | 4 signals on 2 symbols, risks 1 and 2, cap 3, 1 crash |
| `claimed_bot` | v3: endings, rechecks, one scenario | 2 commands, 3 closes, 4 answers, 2 failures, 1 crash |
| `first_bot` | first bot: stuck watches, trades, the upgrade | a new table, two open watches or what a crash left, 1 command, 2 answers, 3 prices, 1 failure or crash |
| `closed_claim` | finding: the sentence about the closed watch | 1 watch |
| `open_risk_cap` | finding: the cap can be passed | as `open_risk` |
| `claimed_deferred` | finding: a deferred recheck is not made later | 1 command, 3 closes, no failure |

Why the bounds are enough. One symbol makes every actor compete for the same
row; a second watch lets one be created after the other has ended, while its
job still runs. The request and the batch are the two threads that meet at the
lock; a second batch would only repeat one of them, and the proofs of the safety
properties have any number. Three closes put a watch
created at 0 or 1 through a candle, its expiry and a late check. One crash at
any point reaches every state recovery must handle; a second one only repeats it
from a state of the same kind, and the proofs cover any number. `watch_check`
has scenarios whose trigger and invalidation share a timeframe and whose
timeframes differ, in both orders, a zone, and a row that does not parse; its
clock lets two longer candles close, one of them missed. In `final_check` the
unit of a third of a candle lets a quote be older than a close by less and by
more than the grace, and the clock crosses an M5 close before, between and after
the two snapshots; the answers hold one of each kind the code tells apart. Two
chats and two parts separate the order of a chat from that of the table; with
`Limit` 2 both rows of a tick are taken in one fetch. Three slots with threshold
2 take the service through DEGRADED to DOWN in two batches and put a third
before an open breaker, or after a success that reset the count; a NO_TRADE would
be another answer that is told and saves nothing, as is the unsaved WATCH. The tracker's
prices around its levels with a spread of 1 put the bid and the ask on different
sides of every level; six units hold a candle before the signal, one across its
insert and one after; the lifetimes hold an order that expires at once, one that
a single late poll can miss, and one that lives through every candle. The cap's
scale is reduced: with four signals of up to two parts and a cap of three, both
threads can be cleared at once and the table refilled after signals end. In
`claimed_bot` an M15 candle of two closes can be older than the watch that waits
for it, and two commands let one scenario follow another; the second failure can
fall in the except branch of the first. Three closes hold a trigger whose time
runs out before it is claimed, a watch that lost a candle and meets the next, and
a second watch with a recheck of its own. `first_bot` has a forming candle whose price moves after it was judged,
the two open watches of one symbol that the comment at `storage/db.py:212`
expects, and a table with a watch that is stuck, one closed without a trigger and
one that goes on. Deadlock is checked for `WatchRuntime` and `OpenRisk`; the other modules
stop when their bounds are used up (or, `FinalCheck`, when the analysis is over)
and say `CHECK_DEADLOCK FALSE`.

### Fairness

`WatchRuntime!FairSpec`: each loop is an asyncio task that polls for ever, a
model call returns or times out (the client's timeout), and a stopped process is
started again; users, batches and crashes owe nothing. The scheduler's fairness
is only for an analysis already begun. `Outbox!FairSpec`: the delivery tick runs
every second, every send returns or raises, and the waiting time of a row passes;
nothing makes a chat accept a message. `TradeTracker!FairSpec`: time passes, the
loop polls every 30 seconds, and the broker answers a poll now and then (strong
fairness of `PollAnswered`: polls may fail without limit, but not all of them
for ever). The other modules promise safety only. That every run of a batch ends
is stated as safety, `NoOrphanRun`: outside a batch in progress every claimed run
has its final status, but for one per crash, because nothing in the code finishes
a run left COLLECTING.

## Findings

* `closed_claim`: `run_initial_analysis` tells the user the active watch was
  closed as invalidated without looking at the result of the close; the monitor
  can have triggered or expired it in between.
* `open_risk_cap` (test copy): the cap on the open risk is tested before and the
  signal inserted after, under the lock of its own symbol only; the worker and a
  batch, analysing different symbols, both pass the test. `OvershootTheorem` says
  by how much at most. The release has the same two transactions but only its
  worker analyses, so there the cap holds between analyses.
* `claimed_deferred` (v3): when the market is closed `run_watch_recheck` defers
  the recheck and says (lines 169-171) the watch is not closed but freed for a
  later check. The monitor has closed it as TRIGGERED before, the suppressed WATCH
  is recorded as the recheck's answer, and no loop looks at the row again.

Met while modelling and kept in the models as the code has them, without a run
of their own:

* Test copy: a TRADE rejected only for its reward/risk becomes a WATCH after a
  trigger too, although its `README.md` (line 107) and `RELEASE_FA.md` (line 40)
  say such an answer becomes NO_TRADE (`WatchRuntime!Permitted`).
* Test copy: the message of a batch's result is a later transaction than the
  result, against `RELEASE_FA.md` line 48; `AnnouncedTruth` says that only a
  crash between the two leaves a result untold.
* v3: the digit in the name of a timeframe counts as a level
  (`OlderRules!ClaimedLevels`); the writes of the monitor outside its `try` leave,
  when one fails, a triggered watch that is never rechecked, and one that fails
  inside it puts ERROR over a stored result, TRADE too (`RecheckAccounted` names
  exactly these excuses).
* First bot: a candle is judged while it forms and not again, although the
  comment at `watch/watch_manager.py:139` speaks of closed candles; a recheck
  that finds the account busy leaves its watch locked for ever, although the
  comment at `watch/monitor_loop.py:83` promises another try
  (`StuckExplained`); the volume is rounded to the nearest step
  (`FirstVolumeOvershoot`).

## Proofs

Every theorem holds for every value of the constants its module's assumptions
admit: any number of symbols, watches, recipients, slots, candles, failures and
crashes. In each module `Inductive` (`Established` in `FinalCheckProofs`,
`RiskInductive` for `OpenRisk`) proves one inductive invariant, and the theorems
named for properties of the runs follow from it.

**WatchRuntimeProofs** (from `RuntimeAssumption`: disjoint finite sets, every job
has a symbol). `IInv` is the conjunction of types, `WorkerBound`, `JobStory`,
`MonitorHolds`, `EndingStory`, `FirstRun`, `NoOrphanJob` and `LockHolds`. Types
alone are not inductive, since `Commit` indexes the tables by `workerJob`:
`WorkerBound` says a busy worker holds a RUNNING job. `MonitorHolds` says what
the monitor's stale locals still guarantee (a trigger it is about to apply is
stored, a watch it is about to invalidate has no trigger stored, an expiry it
decided has passed); `FirstRun` that a job not yet begun has
never called the model; `LockHolds` that the symbol of an analysis past its check
has no active watch until it creates one, which needs the mutual exclusion of the
lock. Proved: every invariant of the run `watch_runtime`, one theorem each, and
`Refinement`, `Spec => ImplementsPromise`. `WritesAreFew` says once which steps
write the tables of a part, so that the others need no case.

**OutboxProofs** (from `OutboxAssumption`). `TableInOrder`: the rows of a watch
stand in the order of its story, because an event and its row are one
transaction and `WatchPromise` orders the events. `BatchLeads`: every row of a
tick is the earliest unsettled one of its chat and stays so, as rows are only
added behind. `InboxInOrder`: what a chat has seen is ascending, and nothing
before it waits. `Repeats` counts: messages seen are at most different messages
plus lost replies plus crashes, and one less while a row the chat has seen is
still pending. Proved: `StoryInOrder`, `Accounted`, `DuplicatesExplained` and
`Refinement`, `Spec => ImplementsCourier`; the head of a line is the oldest
message of its chat (`HeadIsOldest`), so a settled row is `Settle` and an
arrival is `Hand`.

**ScheduledBatchProofs** (from `BatchAssumption`: symbols in a sequence without
repeats). The invariant says how far each slot has come for the place where the
loop stands: charts before the current symbol received, those after it not asked;
requests counted per slot and symbol; and what of a result is saved and told. Runs
left open and results left untold are counted against the crashes. Proved: types,
`AllOrNothing`, `NeverTwice`, `AnnouncedTruth`, `NoOrphanRun`, and the action
property `BreakerHolds`.

**WatchCheckProofs** (from `WatchCheckAssumption`: M5 is the unit, scenarios
expire at a number). The cursors never pass the clock, every candle judged is at
or behind its timeframe's cursor, the candles a poll holds are the last closed
ones at its `now`. `ReadOnceInOrder` and `DecisionEarned` follow. For
`SkipsExplained` a second invariant, `ServedInv`, stands on the first: a cursor
that is not at its start stands at a candle that was judged; a poll in which no
call failed has each timeframe's last close in hand or judged already; and so
every poll in `served` has seen the last close of every timeframe. A candle that
was passed over is then none of these.

**SignalProofs** (from `TrackerAssumption` and `RiskAssumption`: no risk above
`MaxRisk`). For the tracker, a status rests on a moment of the path of prices; the
invariant keeps the moments of insert, fill, poll and end in order, and that a
pending order has seen its entry at no moment in `looked`. Proved:
`FillIsReal`, `OutcomeIsReal`, `ExpiryIsReal`. For the cap, the bound alone is not
inductive: a thread cleared long ago inserts into a table that has grown
meanwhile. `RiskInv` adds that a cleared thread has room up to `Cap + MaxRisk`,
and that of two cleared threads one has room within `Cap`, the one that weighed
last; when either inserts, the other keeps its room. Proved: `OvershootBounded`,
types.

**FinalCheckProofs** (from `FinalCheckAssumption`: whole candle lengths that are
multiples of the shortest, a grace shorter than it, one close per candle before
the start, a parent whose words parse). The properties speak of the end alone, so
none is inductive. `IInv` says where each part is established: `SoundTrade` from
the second snapshot on, `Differs` from the comparison on, `Stood` (some snapshot
showed a last candle young enough that had not invalidated the scenario) from the
registration on, and each survives `Tick`, which only adds closes. `StoodMeans`
is the arithmetic: a last candle no older than its length and the grace is the
last one before the grace. Proved: `TradeStillStands`, `BornStanding`,
`NotARepeat`. Three theorems are about operators alone: `NeverBoth` (no close
meets both conditions of a scenario that parses), and `VolumeWithinRisk` and
`LossWithinHardCap` (the release's volume), which `TradeStillStands` rests on.

**ClaimedBotProofs** (from `ClaimedBotAssumption`: M5 is the unit, the parser
gives one of three statuses). `IInv` has five parts. `Typed`, with what the row
numbers and times of a desk refer to; `OneScenario`; `Alone`: while the chat
analyses no watch is open, for only the chat opens one while none is, and a
recheck works on a watch that is already triggered; `RecheckInv`: an analysis
under way has stored nothing, the row the monitor is at agrees with the phase of
its work (`InHand`), and every other row with what was stored, tracked or cut
short (`Behind`, `Agrees`); `FailingWriteIs` says once for all failing writes that
the rows are as before or as the write would leave them; `EndingInv`: what the monitor is told of its watch is so
(`Grounds`), and a candle once claimed was acted upon, excused, or is in hand
(`Acted`). The last needs that a claimed candle is never claimed again, so nobody
else can make up for it. Proved: `OneScenario`, `RecheckAccounted`,
`EndingExplained`.

**FirstBotProofs** (from `FirstBotAssumption`: statuses as the parser gives them,
integer numbers, tables of typed rows in which a locked open row is triggered, as
`Mark` comes before `Lock`). `IInv` is types, `WatchInv` and `TradeInv`.
`WatchInv` holds while the first bot owns the table: every disabled open row is
in the monitor's hand or in `lost`, every row closed without a trigger in `cut`
(`RowExplained`), and the flags of the row in hand are known for each phase
(`RowHeld`), which is what a crash at that point leaves behind. `TradeInv`
follows each analysis: its row in `trade_tracking` exists exactly for a TRADE
that was not suppressed, from the step that tracks it on (`Handled`), and numbers
are never shared, so a row is explained by its own analysis and no other
(`Numbered`). Proved: `StuckExplained`, `TradesAccounted`, and the action property
`UpgradeRepairs`: `WatchInv` before the migration says which rows it will find,
`UpgradeHolds` what `Upgraded` makes of them; that some watch survives it takes
the newest open one, which exists because the numbers of rows are well-founded
(`Newest`). About operators alone: `FirstVolumeOvershoot` (the volume passes the
risk by at most half a step's loss, whatever the sign of the risk that was read)
and `StricterEachTime` (what the release accepts, v3 and the first bot accept).

Only model-checked: the liveness properties (`JobsAnswered`, `WatchesEnd`,
`Settled`, `PendingEnds`), which rest on fairness and ENABLED and are out of the
prover's reach. Every invariant and every action property a passing run checks is
a theorem.

## Not modelled, and why

Charts are rendering. The protocol of the broker's terminal and of Telegram are
I/O: what they answer is the environment's choice in every module. Regular
expressions, prompts and wording are data; the parser is modelled by what it
accepts. The consistency notes are text that decides nothing. Audit and replay
(test copy) record a decision after it is made; only the rule that their failure
never changes it is used. History and statistics queries, the daily report, the
lock file and the orderly shutdown's waiting (a crash at any point covers the
states they leave) are left out, as are `lock_watch`, which the release never
calls, and the trackers of v3 and of the first bot, which are `TradeTracker` in
an earlier form. What a candle that nobody read in an outage would have decided
is not held against the tracker: its header calls the result an estimate.
