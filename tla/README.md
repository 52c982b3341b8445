# MarketSentinel: TLA+ specification

MarketSentinel watches a list of symbols, polls a market data provider at an
adaptive rate, turns quotes into features, features into events, events into
signal episodes, and episodes into alerts. Optionally a language model annotates
episodes. A Python core runs as a stdio daemon (driven by an editor extension)
or as an MCP server. Nothing in it places orders.

Source paths below are relative to `src/src/market_sentinel/`.

## Inventory

| Component | State it keeps | Operations | Interacts with |
|---|---|---|---|
| Event rules, detector (`events/`) | none | `evaluate` | called by the pipeline |
| Deduper (`signals/dedupe.py`) | last event per key | `accept` | pipeline |
| Composer (`signals/composer.py`, `cluster.py`, `copy.py`) | accepted events, active signals, traces, homes of events | `consume_batch`, `prune` | pipeline; shared by all symbols |
| Cooldown gate (`signals/cooldown.py`) | last alert per signal id | `allow` | pipeline |
| Cluster tracker (`telemetry/contract.py`) | events reported as clustered | `newly_clustered` | pipeline |
| Engine (`runtime/engine.py`) | symbols fetched in the tick | `tick` | drives everything below, awaits the provider |
| Feed health (`health/`) | last success, failures, latency per symbol | `observe`, `keep_alive`, `status` | engine |
| Scheduler (`scheduler/`) | level, last change, last fetch per symbol | `set_level`, `due_symbols`, `mark_fetched` | engine, warming policy |
| Watchlist (`watchlist/`) | items, file | `replace`, `add`, `remove`, `enable`, `disable` | daemon commands, engine |
| State store, buffers (`market_data/`) | what hosts see; recent quotes | `update_latest`, `apply_runtime`, `append` | engine, daemon |
| Intelligence (`intelligence/`) | queue, workers, per-episode counters, annotations | `start`, `observe_tick`, worker loop, `shutdown` | called at the end of a tick; own tasks on the same event loop |
| Daemon (`ipc/daemon.py`) | phase, lock, two tasks | stdin loop, tick loop, `run` | host process over stdin and stdout |
| Telemetry (`telemetry/`) | open file, backups, run id | `emit`, `record_feedback`, `write`, rotation, repair at open | everything emits into it |
| Provider, normalizer (`providers/longbridge.py`, `market_data/normalizer.py`) | SDK context, lock | `fetch_quotes` | engine; the vendor's service |
| Features (`features/`, `market_data/session.py`) | none | `compute` | engine, rules; reads the buffers |
| MCP runtime (`mcp_server/`, `capabilities/`) | engine, tick task, recent events | `start`, `stop`, tools | its own tick loop |
| Offline evaluation and tuning (`evaluation/`, `tuning/`) | none | `evaluate`, `compare_artifacts`, `build_tuning_feedback_dataset` | reads the telemetry files |
| Extension host (`apps/cursor-extension/src/host`, `ipc`) | process manager, generation, retry count, feedback targets | start, pause, resume, restart, shutdown, reconnect, feedback | daemon over the pipe |

What is hard in it:

* **Identity over time.** A signal id survives recomposition, moves from an
  undirected episode to a directional one, expires with the look-back, and is
  the key of cooldowns, annotations and call budgets elsewhere.
* **Several clocks.** Episodes live on market time (per symbol, from the data),
  cooldown, health and scheduling on the monotonic clock.
* **Work outliving its reason.** A model call is queued and awaited while its
  episode may be retired, and even return.
* **A tick that awaits.** The daemon's tick holds the lock across the provider
  call; commands, pauses and the shutdown arrive meanwhile.
* **Unreliable sources.** Fetches fail, quotes are missing, old or late, replays
  end, the host closes the pipe.
* **Crashes.** The process may be killed inside a record, a rotation or the repair
  of the file; the daemon may die at any moment of the extension's reconnect.
* **Callbacks of the past.** The extension replaces process managers while
  requests, pushes and exits of old ones are still under way.
* **Views of one log.** Totals, lines per run, dates, symbols and differences are
  computed separately from the same rows.

What makes each component correct is listed with the runs below; `PROJECT.json`
lists every hazard at its line with the properties that would catch it.

## Modules

| Module | Models | Actions |
|---|---|---|
| `SignalPipeline` | rules to alerts for any number of symbols | `Process` (one `SignalPipeline.process` call), `AdvanceClock` |
| `IntelligenceCoordinator` | `intelligence/coordinator.py` | `start`, `observe_tick`, `StartCall`, `DiscardStale`, `CallReturns`, `CallCancelled`, `shutdown`, `WorkerExits`, `ShutdownCompletes` |
| `MarketEngine` | the tick with watchlist, scheduler, health, state store | `TickBegins`, `TickWithoutFetch`, `FetchRaises`, `FetchEnds`, `replace`, `AdvanceClock` |
| `MarketDaemon` | the two tasks of `ipc/daemon.py` and its exit | `ReadLine`, `Dispatch`, `ReadFails`, `TickLoopWakes`, `TickLoopLocks`, `TickReturns`, `TickRaises`, `TickerAwaited`, `CleanUp`, `HostVanishes` |
| `QuoteFeed` | the Longbridge provider, the quote buffer, features and the rules that read them, one symbol | `Begin`, `Acquire`, `ContextCreated`, `CreateFails`, `RequestBreaks`, `RequestRefused`, `RequestAnswered`, `Cancelled` |
| `StandaloneRuntime` | the MCP process: the loop around `MarketEngine`, which it extends, and the tools | `start`, `StartFails`, `TickStarts`, `TickFinishes`, `TickFails`, `Wakes`, `ClientLeaves`, `TaskCancelled`, `StopEnds`, `TimePasses` |
| `TelemetryLog` | abstract: what readers are promised of the log | `Open`, `Grow`, `Forget`, `Stop`, `Lose` |
| `JsonlSink` | `telemetry/jsonl.py`, its collectors and its reader, on a failing file system; implements `TelemetryLog` | `OpenClean`, `RepairBegins`, `RepairEnds`, `StartUnavailable`, `WriteBegins`, `FlushReturns`, `FlushRaises`, `RotateStep`, `RotateEnds`, `RotateRaises`, `close`, `Crash`, `RepairCrashes` |
| `Evaluation` | what may be written to the log, and every offline reader of it | `emit`, `record_feedback`, `left_by_others`, `feedback_left_by_others` |
| `ExtensionHost` | `host/controller.ts`, `ipc/process.ts` | the commands `start`, `pause`, `resume`, `restartCore`, `shutdown` and the continuation of each after its awaits, `BackoffOver`, `ChildExits`, `Push`, `pickSignal`, `submitSignalFeedback` |
| `StandaloneRuntimeProofs`, `MarketDaemonProofs`, `SignalPipelineProofs`, `IntelligenceCoordinatorProofs`, `QuoteFeedProofs`, `JsonlSinkProofs`, `ExtensionHostProofs`, `EvaluationProofs` | theorems about the module each extends; `StandaloneRuntimeProofs` about `MarketEngine` too | |

`MC*` modules only name constant values for the configurations. An operator
whose comment begins with "Faulty variant" is a wrong version of the definition
that follows it; no specification uses it. It documents which mistake a property
catches: with the variant in place of the definition the property is violated.

**SignalPipeline.** One step is one whole call of `process`, since nothing in it
awaits. The variables are the maps of the deduper, composer, cooldown gate and
cluster tracker. Events are identified with their contents (the deduper never
accepts two equal ones), member lists with sets (their order only matters for
wording, and for the timestamp of the last member, which is the newest), ids
with a counter. The rules are an arbitrary choice within what each can return;
the expansion event is bound to the move and the volume event as in the code.

**IntelligenceCoordinator.** All code runs on one event loop, so an action is the
code between two awaits: `observe_tick` is one action, taking work and ending a
call are separate ones. A call ends with an answer, with an error or its timeout
(`CallReturns`), or by cancellation. Absent keys of the per-id maps are zeros.
`orphan` marks work whose episode was retired after its submission and is read by
a property only; `model_calls` and `departed` are history.
`Reactivation` says whether an id may return to the active set after it left it
(a symbol taken off the watchlist and put back).

**MarketEngine.** A tick with due symbols awaits the provider; the rest of it is
one step. Timestamps are kept as ages, which stop at `AgeCap`; since no policy
threshold exceeds it, an age at the cap behaves like any larger one and the model
stays finite without bounding the run. The failure count stops at the threshold,
its only use. The warming policy may ask for any level; features or the pipeline
may raise. `quote_age` and `down_age` are history.

**MarketDaemon.** `asyncio.Lock` is first come first served, so the lock is the
queue of tasks. The engine's tick is the time between `TickLoopLocks` and
`TickReturns`. Messages are reduced to what they tell the host: whether the daemon
runs, is paused or closed, and the parity of tick messages and other messages,
which suffices to say that one was written. An exception of the engine's tick, of the
mapping or encoding of its result, or of a write ends the tick task (`TickRaises`)
while the command loop goes on; an exception of `readline`, as of bytes that are no
text, ends the command loop and cancels a tick in progress (`ReadFails`). A
`KeyboardInterrupt` is not modelled.

**QuoteFeed.** `fetch_quotes` runs under a lock and awaits twice, the creation of
the SDK context and the request; the other actions are how these can end. `using`
remembers whether the context of a request is still the provider's. A vendor quote
may lack any field; what the two checks let through is appended to the buffer, and
the whole history is kept beside it (`seen`) for comparison. Features are fractions
of integers, so the thresholds of the rules are exact. Market time is in seconds, so
the newest 4096 quotes reach further back than the retention of 3600 s, and the
eviction by number never happens (`FeedAssumption`).

The vendor may send any price with any range, also a price outside its own range or a
range that shrinks within a session: neither `longbridge.py` nor `normalizer.py` checks
that. `session_extreme_high` and `_low` take the price and the range together, which
keeps `BreakoutExact` exact about the quotes within the retention. About those evicted
it can only be exact when the extremes widen, since then the later quotes carry the
forgotten ones; when they do not, a forgotten extreme is broken again, and the property
says so.

**StandaloneRuntime.** Extends `MarketEngine` and drives its actions from the loop
of `mcp_server/runtime.py`. Tools do not await, so a tool is an expression over the
state and is asked in every state by the invariant. `TickFails` is an exception at any
point of a tick, also of one that fetches nothing: `Reached` says how far each symbol
had come (quote buffered, health and fetch recorded, processed, projected), `Left`
what that leaves. The task ends silently and the tools are served on until `stop`.
What they say then differs. `get_feed_health` and the aggregate of `get_market_state`
ask the health tracker anew and stay true. The status of one symbol, in
`get_symbol_state` and in the list of `get_market_state`, is what the last tick
published (`mapping.py:78`): after the loop's death it may stay LIVE for ever, although
the aggregate beside it says DISCONNECTED. `ToolsHonest` ties it to the health at the
end of the last tick while the loop lives (`shown_age` is the age of that tick), and
`DeadFeedTold` says that it is told in the end; both except a loop that has died.
An exception between the two calls on buffers and state, or between the health and
the scheduler, which are plain assignments, is left out.

**JsonlSink and TelemetryLog.** A file is its complete lines and what follows the
last newline; records have one size. Every file operation is a step, every step may
be the last of the process, and any prefix of a buffer may have reached the file.
The refinement maps the log to what `TelemetryReader` would load, reading the bytes
of a repair in progress as already written, and `up` to a process that is past its
repair. The abstract log has no files, rotations or fragments. A repair rewrites the
file in place, and a crash inside it (`RepairCrashes`) leaves any beginning of what was
to be written, a torn line included. When closing the handle for a rotation raises, the
closed handle stays and no later record is written (`RotateRaises`).

**Evaluation.** The readers are functions of the rows, checked in every state of a
log that grows row by row, against definitions that count in another way (half
hours of trading one by one, alerts by episode, all permutations of feedback).
Rows a version of the program with other rules left behind are included, as are
priorities in lower case, which only the comparison of tuning counts.

**ExtensionHost.** An action is what one asynchronous call does between two awaits,
and calls interleave at every await. `current` stands for `managerGeneration`. The
number of a manager also names the run of its child. That stdout of the child closes or
the child reports an error runs the same clean-up as its exit (`process.ts:305-323`) and
is taken for its end, though the child may then still live. `overlapped` records that two
calls were connecting or disposing at the same time, or that a `resume` awaited its
answer when the extension was shut down; the controller does not serialize its calls,
and then it is possible that

* the second `spawnAndStart` overwrites `manager` and leaves the first child
  running (`controller.ts:539`);
* the `get_state` answer of a replaced manager becomes `lastMarket`
  (`controller.ts:545`, no generation check), so that feedback on its signals would
  go to the new run;
* `failStart` drops the child `shutdown` of the same manager is about to kill
  (`process.ts:195`);
* the waiting `resume` loses its client in the shutdown and connects anew, since it
  does not ask whether the controller is disposed (`controller.ts:335-352`): a child
  is spawned after the shutdown. This takes four commands (start, pause, resume,
  shutdown); it was the proof of `NoOrphan` that failed on it.

`NoOrphan`, `FeedbackReachesItsRun` and `CrashAnswered` are about all other runs.

## Runs

| Run | Result | Shows |
|---|---|---|
| `compose` | pass | ids name one episode, stay with it and are never reused; traces match signals; an accepted directional event has a live episode for its whole look-back; escalations pass the cooldown at once |
| `none_copied` | violation | an undirected event becomes a member of both directional episodes |
| `lookback` | violation | a symbol ahead in market time ends another symbol's episode inside its look-back |
| `sidecar` | pass | counters exact, stale work never valid again, retired ids forgotten and their calls cancelled, statuses backed by live work, the call budget kept while an episode stays active, every announced answer settles, shutdown terminates |
| `engine` | pass | feed status honest, newest quote shown, each enabled symbol shown as it is after every tick, downgrades spaced, fetching never stops, a dead feed is shown dead |
| `daemon` | pass | a tick works on one watchlist, frames only while running, the shutdown acknowledgement is last, commands are served, shutdown exits and cleans up, tick messages keep coming; the last two until the tick task has died of an exception |
| `telemetry` | pass | no malformed line ever, acknowledged records kept as far as rotation promises, the reader's view implements `TelemetryLog` |
| `evaluation` | pass | a rate is exact or absent; the parts of a report add up; tuning does not depend on the order of feedback |
| `feed` | pass | no request on a discarded context; eviction is invisible to the rolling features and rules; breakouts are exactly the new extremes of the session as far as it is retained, and of the whole session where the vendor's extremes widen |
| `mcp` | pass | the tools that ask the health tell the truth in every state, also after the loop has died; the published status of a symbol is that of the last tick while the loop lives, and a dead feed is told in the end unless it has died; once the client has left, the process ends and no tool answers |
| `host` | pass | no child left behind, feedback only to the run of its signal |
| `crash` | violation | a daemon that dies late in a reconnect is neither restarted nor shown as disconnected |

The three violations are findings in `PROJECT.json`, each with the line of the
repository it contradicts.

`BudgetWhileActive` is about episodes that stay active. An episode whose symbol is
taken off the watchlist and put back inside the look-back keeps its id in the
composer, but the coordinator has forgotten its calls (`coordinator.py:321`), so it
may be called again; `docs/architecture/intelligence-contract.md:57` promises one
call per `signal.id` by default.

### Bounds

* `compose`: moves in both directions, volume spikes and their conjunction give all
  directions, families and priorities that rise; market time spans two look-backs,
  so episodes are created, continued, taken over, expire and are created again;
  the monotonic clock reaches the cooldown. `none_copied`: breakouts in both
  directions, which one tick may hold, over two look-backs.
  Time to live is not longer than the look-back for directional events, as in the
  code, so repeats are both dropped and accepted.
* `lookback`: two symbols, times 0 to 2 with a look-back of 1: one symbol can be a
  full look-back ahead.
* `sidecar`: two ids, a queue of two, two workers and two priorities, so two works
  of one id are outstanding and the queue overflows. `MaxGeneration` 3 bounds
  submissions and retirements of an id between two shutdowns; restarts are unbounded.
* `engine`: intervals 1, 2, 3, staleness 2, disconnect 3 and downgrade dwells 3
  and 4 under a cap of 4 distinguish all thresholds; two market times give older,
  equal and newer quotes. Runs are unbounded. Symbols share nothing but the tick;
  two symbols are in `mcp`, and the proofs are for any set of them.
* `daemon`: two watchlists, any sequence of commands; unbounded.
* `telemetry`: ten records, two to a file and three backups, so the oldest file is
  dropped; three faults, so a repair can crash after a crash, and a rotation can be
  interrupted twice.
* `evaluation`: four rows, of two runs on a Friday and a Monday, at the lunch break
  too, one symbol of another market and one host row; two opinions with two times.
* `feed`: a session of seven seconds with a retention of five, which is more than the
  look-back of the longest window and its lags (`FeedAssumption`; the code has one
  hour against about 26 minutes), and times beyond the session. Histories have up to
  three quotes (the constraint `Bound`: a longer history is not begun). Three reach
  a sample of a volume ratio, a gap, and an extreme that is evicted and exceeded
  again; a fourth adds none of these cases. Every quote has any of two prices, highs
  and lows. The two callers are interchangeable and all properties are invariants, so
  they are a symmetry set.
* `mcp`: two symbols, one level HOT against COLD, intervals 1 and 2, staleness 1,
  disconnect 2 or one failure; three events for a buffer of two. Late quotes are left
  to `engine`.
* `host`: two calls and the reconnect loop, two managers, four commands, one retry:
  a start, a pause, a resume and a shutdown meet in any order. The proofs are for any
  number of each. `crash`: two retries, so the violation is not the end of the retries.

Severity is one value in all pipeline runs; priorities still differ through the
families (`compose_priority`). The two callers of `host` are interchangeable and it
checks only invariants, so it uses them as a symmetry set.

### Fairness

* `IntelligenceCoordinator`: weak fairness of each worker and of the completion
  of a shutdown. The event loop runs every ready task, and `wait_for` bounds each
  call. Ticks, start and shutdown owe nothing.
* `MarketEngine`: weak fairness of the clock, of ticking and of the end of a
  fetch: the daemon's loop ticks, providers answer or time out.
* `MarketDaemon`: weak fairness of both tasks and of the exit path. The host owes
  nothing: it may never send a line and may close the pipe at any time.
* `StandaloneRuntime`: weak fairness of the tick task (`LoopRuns`: the event loop runs
  it, sleeps end, the provider answers or times out), which may still die; of the
  clock; of the delivery of a cancellation and of the rest of `stop`, both steps of
  ready tasks of the event loop.

Deadlock is not checked where the system may really stop: in the pipeline, the log
and the evaluation, whose bounds end them, in the sink after an unusable start, in
the daemon after its exit, and in the host when its commands are used up.

## Proofs

The first part of `StandaloneRuntimeProofs` is about the engine alone. It proves, for
every set of symbols, every policy and every cap satisfying `EngineAssumption`
(thresholds positive and within the cap, the stale age not above the disconnect age),
that `MarketEngine!Spec` implies `TypeOK`, `FreshnessHonest`, `PublishedQuoteIsNewest`, `PipelineTimeMonotone`
(the pipeline never runs with an older market time than before), `ProjectionCurrent`
and `DowngradesSpaced`.

None of them is inductive alone. `EngineInv` adds

* `TickInv`: the tick in progress fetches only enabled symbols, its enabled
  symbols are those of the watchlist, and the source is not exhausted. This makes
  `ProjectionCurrent` true (the symbols projected are the enabled ones) and
  separates failures from the end of a replay;
* `FreshnessInv`: the recorded success is as old as the newest accepted quote,
  and younger only after the end of the source and without failures. A failure
  can only be counted while a fetch is in progress, hence before the end, which
  is why `keep_alive` cannot hide one;
* `DwellInv`: the last level change is not older than the last downgrade, so the
  dwell that set_level measures from the last change bounds the distance of
  downgrades.

There is one lemma per action, and lemmas on the operators of health and
scheduler (`HealthType`, `StatusType`, `SchedType`, `SetLevelDwell`,
`FoundOutcome`).

`MarketDaemonProofs` proves, for every set of watchlists that `NoWatchlist` is not
one of, that `MarketDaemon!Spec` implies `TypeOK`, `WatchlistStableInTick`,
`CleanExit`, `FramesOnlyWhileRunning` and `ShutdownAckIsLast`. `DaemonInv` adds

* `LockInv`: each task is in the queue of the lock exactly while it asks for the
  lock or holds it, and a tick runs only at its head. A command is handled only at
  the head too, so never during a tick: the watchlist stays, and the phase cannot
  leave RUNNING between the start of a tick and its message;
* `PhaseInv`: in the phase RUNNING the host was last told so, a tick runs only in
  that phase, and the end is told only when the commands have ended, after which
  neither task writes;
* `CleanUpInv`: how far the clean-up has come at each point of the exit, and that a
  failed tick task skips it. The task may fail of any exception in its tick, so
  `CleanExit` is an equivalence: cleaned up exactly when the task had not failed.

Two lemmas (`JoinQueue`, `LeaveQueue`) say what joining and leaving do to the
queue; then there is one lemma per action.

`SignalPipelineProofs` proves, for every set of symbols, every set of rules and all
windows, that `SignalPipeline!Spec` implies `TypeOK`, `EpisodeIdsUnique`,
`TracesMatchActive`, `AlertCoversPriority` and `IdentityStable`.
`PipelineInv` adds that every id in use was drawn from the counter (`IdsDrawn`) and
that no accepted event is newer than the market time of its symbol
(`AcceptedInTime`). A call composes one key after the other; `Composed(c, K, t)` says
what the composer `c` satisfies when the keys `K` have been composed, and each key
composed keeps it. Uniqueness needs the traces: a directional episode that takes over
the id of the undirected one removes that episode in the same composition, and a
fresh id is above all drawn ones. `RecentEventHasEpisode` is proved for one symbol
(`OneSymbolKeepsEpisodes` has that hypothesis in its statement); for two it is false,
which the run `lookback` shows, so one symbol is the strongest true form.

`IntelligenceCoordinatorProofs` proves, for every set of ids and workers and every
queue size and budget, `TypeOK`, `OutstandingAccounted`, `StaleWorkStaysStale`,
`RetiredIdsForgotten`, `StatusHonest` and `BudgetWhileActive`, and
`RetiredCallsCancelled` where the budget allows a call at all (`CallBudget >= 1`; the
default of `max_calls` is 1, and with 0 there is no call). `CoordinatorInv`
adds

* `GenerationsAhead`: no outstanding work is ahead of the counter of its id and orphans
  are strictly behind. The counter is forgotten only when nothing is pending, and by
  `OutstandingAccounted` then nothing is outstanding: so forgetting it cannot make an
  orphan valid, which is the whole argument of `StaleWorkStaysStale`;
* `CancelledAreOrphans`: outside a shutdown only calls of retired episodes are
  cancelled, so a status RUNNING keeps its work;
* `BudgetKept`, `RegisteredRun`, `UnregisteredSpent`, `RetiredSpent`: outstanding work
  was paid for, and a retired id whose calls run has one cancelled or one that ended.

`QuoteFeedProofs` proves `RequestsOnKeptContext` for any set of callers, and
`EvictionInvisible` and `BreakoutExact` for every history of quotes, consistent or not,
every retention that `FeedAssumption` allows and every number of quotes. `ProviderInv` says that the
queue of the lock holds waiting callers once each, and that its holder is the one
caller that creates or requests. `QuotesInv` says that the buffer is exactly the part
of the history within the retention of the newest quote (`KeepsRecent`) and that its
quotes are well formed. The rolling features then look at times that eviction has kept.
For the breakouts, `HighestOf` and `LowestOf` say of what the session references are the
extremes (`Extremed`, `RefsAre`); where the vendor's extremes widen, the latest earlier
quote has the extremes of all that were forgotten (`Remembered`).

The second part of `StandaloneRuntimeProofs` proves `ToolsHonest`, and that `FreshnessHonest` and
`PublishedQuoteIsNewest` of the engine hold under this loop too, for every watchlist,
policy and buffer size. It reuses `EngineInv`: an abandoned tick (`AbandonedTick`) and
one that an exception left after any part of its work (`BrokenTick`) are the steps the
engine's specification does not have. Added are `AsShown` (while the loop lives, the
status shown of a symbol is its health at the end of the last tick, to which only time
has been added since) and `NewestBuffered` (the buffer holds the newest events,
numbered without a gap). A step that kills the loop ends `AsShown` and has to keep the
rest: nothing that `get_feed_health` reads depends on what was published.

`JsonlSinkProofs` proves, for every number of backups, size of files, records and
faults, `NeverMalformed`, `AckedKept` and `ReaderSeesLog`: the sink implements
`TelemetryLog`, each step being one of its steps or a stutter. There are four layers.

* `SinkInv` says where the fragment of a record can be: at the end of the current file
  only, and while the sink is open only of the record the handle writes next
  (`NextCompletes`, which needs that Python's writer keeps what it could not write),
  and never during a rotation.
* `LogInv` adds what makes the refinement true: an absent file has no lines, and during
  a repair the records are in the bytes to be written back (`Shapes`); records are
  newer the later they are on their way, from the files through the fragment to the
  handle (`Fresh`); a rotation moves a file only to a free place (`Vacated`), so no
  rename overwrites records; the handle's file exists (`Present`).
* `LogOrdered` (theorem `ReaderFindsOrder`): what the reader loads is strictly in the
  order of writing. It follows from the refinement, as the abstract log grows only by
  newer records. `LogInv` needs it in turn for one step: a crash inside a repair leaves
  a beginning of the file, which has its newest records missing only because the file
  is in order. So the two are proved together (`LogAlways`).
* `KeptInv` counts what may be lost: every backup was full when it was rotated
  (`FullBackups`), each gap among the backups was left by an interrupted rotation or is
  the one just opening (`GapsCounted`), and what is lost is older than what is found
  (`LostOlder`). If a record is gone, `BackupCount` places hold full files of newer
  records, less the gaps.

The reader is a recursive function over the files, and what it returns is proved by
induction over naturals in set form (a set of naturals that is not empty has a least
element), since the library's induction theorems cannot be instantiated.

`ExtensionHostProofs` proves `NoOrphan` and `FeedbackReachesItsRun` for every number
of commands, managers, retries and callers. `HostInv` says where the one call that
connects or disposes waits and what the controller's fields are there (`InFlush`,
`InDispose`, `InConnect`), to whom a running child belongs (`Accounted`), that nothing
connects after a shutdown (`Disposing`), and that the feedback targets are the
manager's (`TargetsOwn`).

`EvaluationProofs` proves `FeedbackOrderIrrelevant`, `RateFailsClosed` and
`ReportAddsUp` for every set of runs, signals and symbols and every log of rows, also
of rows that others wrote. `EvaluationAssumption` says that rows have the fields of the
contract, times and ids are naturals, and None is no run, signal or symbol. The
invariants are about the inputs (`RowsInv`: the log is a finite bag of rows;
`FeedbackInv`: feedback ids are distinct and feedback of a run names a signal);
the work is in what the readers compute from them.

* Sums are folds over a set in an order nobody chose. `Sums(f, S, H)` says that H is
  what f sums to over every part of S; such an H exists, is what the fold returns, and
  is additive over disjoint parts (`PartByPart`, `SumExists`, `SumIs`, `SumsJoin`). A
  count of rows is the `Weight` of a part of a bag.
* `FeedbackOrder`: a permutation of the rows carries the valid, joined and winning
  ones to their images, and of the rows on one target exactly one wins (`WinnerIs`), so
  the winners are as many as the targets.
* `RateFailsClosedAlways`: the overlap of a span with the trading windows is the number
  of half hours of trading in it (`OverlapCounted`), summed window by window and day by
  day; the denominator counts the pairs of a run and a half hour it traded
  (`RunHours`), and the dates' hours are disjoint parts of these (`DatesClaim`).
* `ReportAddsUpAlways`: the report of a run is the report over that run's rows
  (`OwnLine`); an episode's alerts are its first and its extra ones (`ExtraCounted`);
  each count of a log cut in two is the sum over the halves (`HalvesTogether`), and the
  delta of sums is the sum of deltas (`DeltaOfSums`).

Each inductive invariant was also checked with TLC, on the instance of its module's run.

Only model-checked: all liveness (`KeepsFetching`, `DeadFeedShown`, `AnswersSettle`,
`ShutdownTerminates`, `CommandsServed`, `ShutdownExits`, `KeepsTicking`,
`StopIsFinal`, `DeadFeedTold`), which the proof system does not cover. Every safety property of a
passing run is proved, `RecentEventHasEpisode` for one symbol.

## Not modelled

* EMA, RSI, VWAP and the VWAP cross (floating point); the thresholds of the warming
  policy: choices in `SignalPipeline` and `MarketEngine`.
* Requests to the language model, prompts and parsing of its output: a call ends
  well or badly, a choice of `IntelligenceCoordinator`.
* The replay provider apart from its end, the diagnostics counters, encoding of
  messages.
* The file of the watchlist: the daemon and the MCP runtime keep the watchlist in
  memory; only one-shot commands save it.
* Two processes with one data directory: the sink takes no lock on its files.
* In the extension: the chain of watchlist commits, the badge, the alert hold, and
  rendering.
* The validation of tuning configurations and their files, the replay behind a
  comparison (a run of the engine with other thresholds), rendering of reports, the
  command line, and the probes under `tools/`.

The entries of `_home` (`composer.py:191`) and `_last` (`cooldown.py:27`) are never
removed, so there is no bound on them to check; neither is read again once the
episode is gone.

## Plan

1. Done: the modules above, the refinement of the log, and the proofs of every safety
   property.
2. The extension's watchlist commits and the serialization of its calls, once the
   controller has one.
