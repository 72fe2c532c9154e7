# Verification of quantoxide

TLA+ models, TLC runs and TLAPS proofs for quantoxide, a Rust framework that
synchronises price data of an exchange (LN Markets) into PostgreSQL, evaluates
signals, and runs trading strategies against recorded data or live with real
funds. The models are translated from `src/`; `PROJECT.json` maps every
definition to the lines it stands for.

## 1. The system

A live deployment is one process with several tokio tasks:

| Part | State it keeps | Operations | Talks to |
|---|---|---|---|
| Sync engine (`sync/engine.rs`, `sync/state.rs`, `sync/process/`) | `SyncStatus` behind a mutex, a broadcast channel of `SyncUpdate`s (1000) | `start`, `shutdown`, `until_stopped`; a recovery loop around one of four modes (backfill, live, live with lookback, full) | REST and stream clients, the database; readers subscribe to its channel |
| Price history task (`sync_price_history_task/`) | the `ohlc_candles` table with its `gap` and `stable` flags | `backfill`, `live`: download pages of candles backwards, flag and remove gaps | REST, database |
| Funding settlements task (`sync_funding_settlements_task/`) | the `funding_settlements` table | `backfill`: find missing settlements on the 8-hour grid and download them | REST, database |
| Real-time collection (`real_time_collection_task/`) | stream subscription, `price_ticks` table | receives ticks, stores and forwards them | stream client, database, shutdown channel |
| Live signal engine (`signal/`) | status, evaluators and their last results | a loop that evaluates candles per evaluator and broadcasts signals | sync reader, database |
| Live trade engine and process (`trade/live/engine.rs`, `trade/live/process/`) | `LiveTradeStatus`, the running operator | `start`, `shutdown`; recovery loop; runs raw or signal operators | executor, sync reader, signal receiver |
| Live executor (`trade/live/executor/`) | status, trading session behind one async mutex | the `TradeExecutor` methods, `launch`, `shutdown`, a sync processor task | sync reader, REST, `running_trades` table |
| Live trading session (`executor/state/live_trading_session.rs`) | running and closed trades, funding fees and snapshot, balance, price trigger | register, close, reevaluate, rebuild | REST, `running_trades` |
| Backtest executor (`trade/backtest/executor/`) | balance, trades, cross position, price trigger | the `TradeExecutor` methods against a market price; candles, settlements | the engine and the operators call it |
| Backtest engines (`trade/backtest/single/`, `parallel/`, `operator.rs`, `consolidator.rs`, `state.rs`) | a time cursor, a buffer of minutes, consolidated candles, queued settlements, status | `start`, `run`; `abort`, `until_stopped` of the controller | database, backtest executor, operators |
| Trade core (`trade/core.rs`) | value types: trades, price triggers, stop losses | pure functions | |
| Date grids (`util/dates/`) | none | floor, ceil, step on candle and funding grids | |
| Terminal interface (`tui/`) | views of the updates | rendering, key handling, a shutdown call | controllers |

### How the parts meet

* The sync engine *stores* its status under a mutex and *then* sends it on the
  broadcast channel. Readers that need both take a receiver first and a snapshot
  second. The channel is bounded; a slow reader is told `Lagged`.
* The executor's sync processor turns that feed into the executor's status. It
  and every `TradeExecutor` method take the same async mutex; a method goes on
  only when the status is `Ready`, and keeps the mutex across its REST and
  database calls. `shutdown()` writes its first status, aborts the processor,
  cleans up, and writes the final status.
* An operation on a trade changes the exchange first, then the
  `running_trades` table, then the session in memory. The exchange moves by
  itself: stop losses, take profits, liquidations and funding settlements.
* The recovery loops of the sync, signal and live processes each run the work
  in a `select!` with the shutdown signal: whatever future is running is dropped
  at its present `.await`.

### What is hard

* **Interleaving** on the executor's mutex: status writes of the processor, of
  `shutdown()` and of a method that began earlier.
* **Lost updates**: the broadcast channel overwrites its oldest element.
* **Partial failure**: an exchange call took effect and the database call that
  follows failed, or the future that awaited it was dropped, or the process
  crashed and started again.
* **Two sources of truth**: a closure is noticed by a local price range, by a page
  of recently closed trades, or by comparing maps at the hourly rebuild; funding
  fees move at each of them.
* **Ordering and staleness** of the candle and settlement tables between the
  pages of a download and the flags that steer the next one.
* **Books**: balance, realized profit and fees are moved by a dozen calls, simulated and
  live, from several places, and read back from an exchange that moves meanwhile.
* **Replay**: a backtest advances by one clock over tables with holes, buffers that are
  refilled and windows of several resolutions, and must show what the live engine shows.
* **Liveness**: an executor that is `Failed` must get another refresh; a
  `shutdown()` must return; who waits for an end must be told.

`PROJECT.json` lists the hazards at the lines where they bite, with the property
that covers each or a note why none does.

## 2. Modules

| Module | What it is |
|---|---|
| `LiveExecutor` | the readiness protocol of the executor: sync engine as its readers see it, sync processor, callers, shutdown, mutex |
| `LiveSession` | one executor's trades at the exchange, in the table and in memory |
| `LiveAccount` | the money of the session: balance, margins, realized profit, cross position |
| `LiveProcess` | the live trade process: operator, executor, signal and sync engine, their restarts and their shutdown |
| `SyncEngine` | the sync engine's process, its real-time task, its controller and who waits for it |
| `PriceHistory` | the price history task and the candle table with its flags |
| `FundingHistory` | the funding settlements task and its table |
| `SettlementGrid` | the grid of settlement times, which changed twice (operators) |
| `SignalProcess` | the live signal process: when it calls its evaluators, its wait for sync, its shutdown |
| `Contract` | the futures contract: constants and what is assumed of them |
| `IsolatedTrade`, `CrossPosition` | one isolated trade; the cross account; their estimates (operators on `Contract`) |
| `BacktestExecutor` | the simulated exchange of a backtest |
| `Replay` | what a backtest promises its operators (abstract) |
| `BacktestEngine` | the engines of backtests, which implement `Replay`; consolidator, status and controller |
| `SetLemmas` | finite sets: induction, least and greatest elements, sums over a set that changes |
| `...Proofs` | theorems about the module before `Proofs`; `LiveExecutorProofs` is about `LiveSession` too, `LiveTradeProofs` about `LiveProcess` and `LiveAccount`, `SyncEngineProofs` about `FundingHistory` too |
| `MC...` | instances for TLC: symmetry, constants that are functions, environments restricted for a liveness run |

Each module stands for one part; where it needs another one it has that part as its
environment, as weak as the properties allow: the sync engine is a status and a
feed for `LiveExecutor` and `SignalProcess`, a history task is an await with an
outcome for `SyncEngine`, and `LiveProcess` has the executor, the signal process and the
sync engine as the status they show. Where one module relies on another, a property says
what it relies on: `LiveExecutor` shows that operations and refreshes exclude each other
(`RefreshExcludesActions`), and `LiveSession` and `LiveAccount` therefore have whichever
of them holds the mutex as a single control point; `SignalProcess` and `SyncEngine` show
that they end when told to, which `LiveProcess` awaits.

Specifications that share a module of proofs share no names: hence `SessionInit`,
`AccountNext`, `FundingTypeOK` and the like.

A name with a comment "Mutant of X" is a plausible mistake in the code behind X. No
specification uses it: with it in the place of X, TLC must find the property that
`PROJECT.json` names violated.

### LiveExecutor

The variables are the fields of the code (`status`, `hasSession`, `isSynced`,
`shouldRefresh`, `syncStatus`), the channel (`feed`, `lagged`), the mutex
(`owner`, `waiting`) and a control point per task. An action is what a task does
between two suspension points, except where shared state is read or a mutex
let go in between (`SyncStore`/`SyncSend`, `ProcSubscribe`/`ProcSnapshot`).
Taking a free mutex does not suspend the task (`ProcSetNow`), a held one does
(`ProcSetQueue`, `ProcSetGranted`); the difference matters because `abort()` takes
effect only at suspension points (`Suspended`). A caller may leave at any
point (`ClientLeaves`): its future is dropped by the live process's `select!`.

The session's content is reduced to present or absent. In a live process the
sync engine is stopped after `executor.shutdown()` returned; its status has one
writer here, and the case of two writers (its controller and its process) belongs
to the model of the sync engine. `RecvError::Closed` cannot happen while the
executor holds the reader and is left out, as is the broadcast of executor
updates to observers.

### LiveSession

`exch`, `log` and `funding` are the exchange: the state of each trade, the order in
which trades closed, and what each has paid. `rows` is the table, `sess` the stored
session (`running_map`, `closed_history`, `funding_fees`, the funding snapshot and
whether it expired), `work` the one being built. `pc` says which operation holds
the mutex and how far it is. Every step ends at an `.await`; at each of them
the exchange may move, the operation may end early (`Abandon` for methods,
`RefreshFails` for refreshes), and the process may crash and start again
(`Restart`).

`RecentlyClosed(n)` is the single page of closed trades the code asks for: the last
n closures. `Reevaluate` takes any subset of the registered trades as "what the local
price range says has closed", which is what it can be for some prices.
Balance, realized profit, margin changes and the cross position are `LiveAccount`'s; here
the cross position is the boolean that makes `shutdown()` clean up.

### LiveAccount

`free`, `exch` and `cross` are the account at the exchange, `sess` is the session: its
balance, the stored margin and cashed-in profit of each trade, `realized_pl` and the
`LiveCrossPosition`. The mutex makes a method, or a reevaluation, one step; whether its
answer reaches the session is a parameter (`told`). A balance or a margin that the session
cuts off at zero no longer follows the account, as if an answer had been lost (`behind`). Two things take several steps, because
the exchange moves in between: the rebuild, which asks for the balance, the cross position
and the trades one after the other (`RebuildUser`, `RebuildCross`, `RebuildTrades`), and
the cross order, which is sent and whose position is then fetched (`Filled`,
`CrossOrderRegistered`, `CrossOrderLost`). Where the code saturates at zero the model does.
The session derives a cashed-in profit from the two entry prices; the model takes that
derivation as exact (the code rounds as it has observed LN Markets to round). Every
"margin" includes the maintenance margin. That the executor waits for sync keeps the
operator out, who need not call anyway, and is left out. A trade begins with startup recovery on.

### LiveProcess

`pc` is where the process's future is suspended: launching, at an await of the operator's
run (for signals: the channel, the executor's state, the operator itself; for a raw
operator: its interval, the wait for sync, state and candles), in the pause after a
failure, or at one of the three steps of its shutdown. The three parts below move on their
own. The channel of signals is real (`feed`, `feedLag`), because what a lag or an
unheard update does to the operator is the point; the executor's updates are forwarded to
the status by a task of its own (`UpdatesLag` and the status changes of `ExecutorMoves`).
The controller's `shutdown` may time out at any moment (`CtlGivesUp`).

### SyncEngine

`SyncStatusManager::update` stores under a mutex and sends after it; `out` has, for
each of the two writers (process and controller), what was stored and not yet
sent. `pc` is where the process's future is suspended: in the first history or
funding task of its mode, connecting, in the stream loop (`feed`), in a resync or
poll, in the pause after a failure. An abort takes effect at the next suspension
(`aborted`: "polling" while the task is being polled). `due` is the tick interval
timer, split by whether a tick was waiting unread when it elapsed: `select!` may
take the timer although a tick is ready. Ticks are counted (`ticks`, `pending`,
`inFlight`) and not told apart. `rt` is the real-time collection task, including
the time between the drop of its handle and its end. `until_stopped` takes its
receiver, then a snapshot, then listens. A panic of the process is not modelled.

### PriceHistory

The table is three sets: `stored` rows, those with `stable`, those with `gap`. All
else that a download needs is read off them, as in `PriceHistoryState`. The control
points are: reading the state, a request, saving its page in one transaction,
removing a flag, `flag_missing_candles`. A page is the newest `limit` candles
strictly below the upper end of the request: the task takes the exchange's `to` for
exclusive. Between any two steps time passes, candles appear, and the download may
fail or be dropped (`Fail`); the next `Start` goes on from the table. The exchange
may lack minutes (`avail`) and supply them late; it answers with nothing only for a
gap, since with nothing for the latest candles there is nothing to do and below the
history that is the fatal error of `SaveNothing`. `skipped` and `savedAt` are
history variables: which minutes the exchange was asked for and did not have, and
when the upper end was last saved. Times are minutes; the code's 60 minutes until a
candle is stable, 66 candles at least per request and 5 rows around a hole are the
constants `StableAge`, `MinPage` and `Buffer`.

### SignalProcess

A round is: sleep until `nextEval`, read the clock, look at the sync status (and wait
for it), load candles, call the evaluators that are due, those with lookback first.
The process reads the clock twice around the sleep, and the clock moves in between; a
negative difference panics (`pc = "panicked"`). The receiver of sync updates is
created after the snapshot said `NotSynced`. The sync engine is the environment; its
store and its send are one step, because a reader between them is in a state the
model has anyway. The order of evaluators within a round is left open. The clock is
never set back. The controller's `shutdown()` is modelled; `until_stopped` is, line
by line, that of the sync engine, and is modelled there.

### FundingHistory, SettlementGrid

Times are hours. The grid has the three phases of the exchange's schedule, with other hours
of the day in each, between them stretches without settlements; `GridPoints`, `Floor`,
`Ceil` and `IsValid` are the functions of `util/dates`. A run of the task reads the state,
requests a page, saves it, reviews what is missing, perhaps cuts the scan short
(`exclude_missing_after`) and scans again; each of these ends at an `.await`, at which the
clock moves, a late settlement arrives, or the run fails. `Wake` is the timer of the process
that runs the task again. `refused` and `opened` are history variables: what a page spanned
and did not bring, and what a page left out after the scan had been cut. `OddTimes` are any
other times that the exchange may report: one that fails `IsValid` ends the process, one
that passes is stored (`Storable`).

### Contract, IsolatedTrade, CrossPosition, BacktestExecutor

The formulas of the contract (profit, fees, liquidation, margins) are those of the external
crate `lnm_sdk`. They are constants of `Contract`, `IsolatedTrade` and `CrossPosition` with
named assumptions; the instance is a linear contract with small numbers, the theorems hold
for every contract that meets the assumptions. What the repository itself does with prices
(rounding, steps of trailing stops, triggers, ranges) is translated, and so is the
arithmetic of the cross position, split by increase, close, reversal and reduction as in
`with_market_order`.

The variables of `BacktestExecutor` are the fields of `SimulatedTradeExecutorState`; its
mutex makes each call one action, and a call that returns an error changes nothing and is
no step, but for `CandleUpdate` and `ApplyFundingSettlement`, whose error ends the backtest
(`failed`). `CashIn` credits the amount and books the profit that the new, rounded entry price
stands for (`BookedPl`); `RoundingAssumption` says that this price stands for both parts of the
profit to within `Slack`, as the tests of the executor allow, and the instance rounds so that the
books do differ. It drops a stop which the new liquidation has passed (`CashedIn`) and leaves the
trailing percentage in the map (`Stopless`). `Settle` is the loop that closes some trades and rebuilds map and trigger from the rest, which
`candle_update`, `apply_funding_settlement` and `close_running` each have. `moved` and
`crossIn` are ghosts: the trades cashed in since the trigger was built, and what the cross
account was given. Requests are those the builders of `IsolatedOrderRequest` accept.
`NewStoplossOnRange`, `EstMaxCashIn` and the estimates of `CrossPosition` are not called by
the executor: they are what live sessions and operators compute, and properties compare
them with what the executor does.

### BacktestEngine, Replay

`Replay` is the contract with an operator: candles from the start, each once and in order;
settlements once, in order, before the candle of their minute (those up to the minute of the
first candle, at which the accounts open, after the decisions at that candle); a decision
whenever, and only when, an interval has passed. It has no buffers, no windows, no status.

`BacktestEngine` is `parallel/engine.rs`, of which `single/engine.rs` is the case of one
operator. `pc` and `k` say where the task is: load, iterate operator k, report, advance,
settle operator k, update operator k. The cursor, the buffer, the index into it (here the
number of candles up to the cursor) and the consolidated windows are those of the code;
`StartRun` to `Exit` are `start` and `run`. `Replayed` is `Replay` with its variables given
by the engine's `history`, `at`, `settled` and `decided` (`INSTANCE ... WITH`): a step of the
engine is a step of `Replay` or a stutter. The controller (`Abort...`, `UntilStopped`,
`Snapshot`, `Receive`, `Lag`) runs beside the engine and both write the status.

A bucket is its time, the minutes in it and its flag `stable`. `Unstable` are the minutes whose
rows are not stable. `Consolidated` is the query of the live engine: a bucket is stable if its rows
are and its time has elapsed, and of one minute the rows are returned as stored. The consolidator
closes a bucket when a candle of a later one is pushed, and has one branch of its own for one
minute: the rows it begins with are taken as stored, and any later one is an open bucket until the
next. `Promised` therefore is the query, except for the flag of the last row of one minute after the first
push, and `WindowsAgree` compares it with what the evaluator is called with, flags included.
The rows are those of the table as it is when the backtest runs; live, rows younger than an hour
were not stable yet, and their buckets had another flag (section 3, Seen).

## 3. Runs

Bounds are constants of the modules or of the instance. They are enough for the
cases the properties are about: a channel of one or two elements overflows; one
caller is enough to overlap with each of the other parties (its actions are the
same for every caller; that two callers exclude each other is proved for every
set of callers); two trades give every combination of one that closes and one that
runs; two settlements give a trade that paid before and after a snapshot; seven
minutes hold a stable and an unstable stretch with two holes and several pages;
two evaluators with intervals 2 and 3, the shorter one equal to the resolution of the
sleep, fall due apart and together.

| Run | Instance | Shows |
|---|---|---|
| `LiveExecutorSafety` | 1 caller, channel of 2, 1 refresh failure, clean-up on | `ReadyGuardHolds`, `RefreshExcludesActions`, `ReadyIsBacked`, `SyncedIsAwaited`, `NoReadyAfterShutdown` |
| `LiveExecutorLive` | 1 caller, channel of 1, 1 refresh failure, clean-up off, `LiveSpec` | `EventuallyReady`, `ShutdownCompletes` |
| `LiveSessionSafety` | 2 trades, chunks of 1, 2 settlements, 1 failure or crash | `RowUntilClosed`, `EveryTradeAccounted`, `FeesCountedOnce` |
| `LiveAccount` | 2 trades, margin 4, fee 1, 2 requests of the operator, 2 moves of the exchange, any number of refreshes | types, `BooksAgree`, `ProfitCountedOnce`, `CrossProfitTold` |
| `LiveProcess` | signal and raw operator, channel of 2, 2 failures | `ShutdownReport`, `DeathIsReported`, `ShutdownEnds` |
| `SyncEngine` | backfill and full mode, channel of 1, 1 unread tick, 1 pending | `SyncedIsCurrent`, `ShutdownIsFinal`, `StopIsReported`, `ProcessEnds` |
| `PriceHistory` | minutes 0..6, stable at 2, pages of 3 and 4, 2 holes, 1 failure | `NoSilentGap`, `CompleteWhenDone`, `BackfillEnds` |
| `FundingHistory` | the three phases of the schedule, pages of 3, 3 readings of the clock, 2 holes, two entries off the grid of which the code takes one for valid, 1 failure | types, `SyncedIsComplete`, `BackfillEnds` |
| `SignalProcess` | 2 evaluators, a second of 2 units, 9 units of time | `NoneOverdue`, `CallsApart`, `SilenceIsResolved` |
| `BacktestExecutor` | 2 trades, 4 candles, 4 orders, 6 calls, linear contract | `Conserved`, `TriggerCovers`, `EstimatesAgree`, `RangeIsHonoured`, `TrailsForward`, `CrossAccounted` |
| `BacktestLiquidation` | the same | violated: `LiquidationIsHonoured` |
| `BacktestEngine` | 3 evaluators of 2 operators, one of them raw, minutes 4..8, days of 2, buffer of 5, 8 tables with holes, 2 unstable rows | `StopIsOnItsWay`, `WindowsAgree`, `RefinesReplay`, `WaiterIsTold` |

`LiveAccount` with two requests and two moves has each pair of requests with a closure, a
settlement or a liquidation before, between and after them, in the middle of a rebuild, or
unnoticed. The four candles of `BacktestExecutor` stay between the stops, reach a stop, reach a
stop and a takeprofit at once, and trail; six calls open two trades, add margin, settle
twice and close, or bring the cross account into a position, through a settlement and a
reversal and out of it. The holes of `BacktestEngine` are at the start, before the start,
at the end of a buffer, in the last minutes, and over a whole buffer.

Type invariants of the other modules, `ShutdownIsFinal` of `SignalProcess`, and the
invariants `StopIsOnItsWay`, `ShutdownIsHeard` and `DeathIsHeard` of `SyncEngine`,
`SignalProcess` and `LiveProcess` are proved (section 4) and not run.

Deadlock checking is off: the systems stop (a shut-down executor whose callers are
idle, a session, a process or a backtest after its end, a clock or a number of calls at its
bound), and an environment that stays silent is legal.

`CompleteWhenDone` speaks of what lies above the first stable row: a hole within the
first rows of the table makes all below it unstable, and `get_gaps` needs a stable
row below a flag. `NoReadyAfterShutdown` speaks of the return of `shutdown()`: between
its first write and the abort a refresh that held the mutex may still write
`Ready` over `ShutdownInitiated`. `RefinesReplay` is checked with the action properties;
`Replay` has no fairness, that a backtest ends is `WaiterIsTold`.

### Fairness

* `LiveExecutor`, `TaskFairness`: tokio schedules a task that can run (weak fairness of
  its steps); a REST call returns, because the client has a timeout
  (`RefreshOk`/`RefreshErr`, `ClientDone`, `ShutStep`); the mutex is FIFO, so whoever
  waits is served (strong fairness of `Grant`); `select!` polls its arms in random
  order, so an arm that is ready again and again is taken (strong fairness of
  `ProcRecv` and `ProcTimer`). `LiveSpec` adds that the sync engine's sends happen, and
  its data while it is synced, since a silent feed makes it leave `Synced`; it leaves
  out executions in which the processor lags (see below). No
  fairness is asked of status changes, of callers starting calls, or of `shutdown()`
  being called.
* `LiveProcess`: the process's task is polled and what it awaits returns or fails (weak
  fairness of `Process`), and so does the controller's once it has begun. Nothing is asked
  of the three parts, of the channel, or of the timeout.
* `SyncEngine`, `Fairness`: tasks run and what they await returns (weak fairness of
  `RunStep` and of the other tasks' steps); the shutdown signal and a drop are seen at some
  suspension, whatever else is ready (strong fairness of `ProcShutdown`, `ProcDropped`);
  a listener gets to its receiver. Nothing is asked of the stream, of failures, or of
  the shutdown timeout.
* `PriceHistory`, `FairSpec`: the task's awaits return (weak fairness of `Step`), and the
  exchange does not answer with nothing for ever to a request for a gap it could fill
  (strong fairness of that answer). `BackfillEnds` supposes an exchange without holes:
  with holes every page may set the flag that the next one removes.
* `FundingHistory`: the task's awaits return (weak fairness of its progress, each step of
  which changes `pc`). The number of failures and holes is bounded, the exchange's answers
  are not restricted.
* `SignalProcess`, `FairSpec`: the clock goes on, the process runs, and the shutdown signal
  or a drop is seen (strong fairness, for the random order of `select!`).
* `BacktestEngine`: the engine's task is polled and its queries return (weak fairness of
  `Task`); so is whoever called the controller. An abort need not come.

### Findings

One statement of the code's docs has a run that TLC violates, quoted in `PROJECT.json`:
`LiquidationIsHonoured`. The doc of `apply_funding_settlement` leaves a liquidation that
funding moved across the market to the next candle's "normal price-trigger mechanism". The
counterexample opens a long with a trailing stop and settles until the liquidation is
above the stop; `candle_update` tests `stoploss.unwrap_or(liquidation)`, and a candle
between the two leaves the trade running.

### Contradicted by the code, without a run

Statements of comments that the models refute. The first two are definitions of
`BacktestEngine`; the others were runs and gave way to those of new components.

* `HolesAreSkipped`: "Advance time cursor to the end of the next candle's minute (skips
  gaps in data)" (`single/engine.rs:306`). A hole that fills a whole buffer ends the
  backtest with `UnexpectedEmptyBuffer` though there are later candles.
* `UntilStoppedReturns`: "Waits until the backtest has stopped and returns the final
  status" (`single/controller.rs:55`). `abort()` stores and sends `Aborted` while the task still
  runs to its next `.await`, and the task may store `Starting` or `Running` over it before it is
  cancelled. The status stays so, and a caller of `until_stopped()` who comes after the
  broadcast waits for ever (`Overtaken`, which `StopIsOnItsWay` excepts).
* `executor/mod.rs:791`: after `Lagged` the executor's processor drops queued status changes
  and keeps an `is_synced` that no longer is the engine's status.
* `executor/mod.rs:270`: an order accepted by the exchange whose future was dropped is in
  no session, and the clean-up of a shutdown looks only at the session.
* `live_trading_session.rs:310`: a missed closure that left the page of recently closed
  trades makes every rebuild fail.
* `sync/process/mod.rs:508`: the sync engine gives a feed up for silence although ticks
  came and were not read yet.
* `signal/process/mod.rs:137`: the signal process reads the status before it has a receiver,
  misses the `Synced` in between, and each tick of the synced engine restarts its timeout.

### Seen while modelling

The models have these as the code does; the properties except them or are not about them.

Live executor and session:

* The limit on running trades is compared with `==` (`executor/mod.rs:167`): a session
  that recovered more trades than the limit admits further orders.
* With startup recovery off, the hourly rebuild too forgets the trades of the running
  process, since it reads the same option (`live_trading_session.rs:290`).
* The executor's sync processor looks only for `Synced` in its snapshot
  (`executor/mod.rs:736`): launched after the sync engine stopped, it never notices.
* `close_trades` and `update_running_trades` credit the stored margin of a trade: funding
  taken from it since the last rebuild is credited back until the next one (the term `paid`
  of `BooksAgree`). The balance is fetched before the trades, and a closure in between
  leaves it stale (`behind`).
* A lost answer to a deposit or a withdrawal is counted as profit or loss by the next
  `cross_order`, which takes the change of the margin for it; `cross_order_close_position`
  reads the position first and does not. The profit of a cross order whose answer was lost
  vanishes. A cross liquidation never enters `realized_pl`, which the doc at
  `trade/core.rs:546` calls cumulative, and which the backtest books (`untold`).
* `isolated_order_close_all` closes one trade after the other and fails as a whole if one
  has closed meanwhile or is unknown to the session; what it closed is learnt by the next
  refresh.

Live process:

* `shutdown()` answers `Ok`, with the status `Shutdown`, when the process died of a fatal
  error while the signal was on its way: no part was shut down, no trade cleaned up
  (`fatal` in `ShutdownReport`). A fatal error drops the executor without its clean-up.
* Each run of a signal operator takes a new receiver and no snapshot: the end of the signal
  process announced between two runs is heard by nobody, and the status stays
  `Restarting` (`unheard` in `DeathIsReported`).
* The forwarder may write `Failed` over `Terminated` after a lag; a shutdown before the
  process subscribed aborts it; a part that ended by itself makes `shutdown()` report a
  failure; the executor refuses its clean-up when its processor has ended.

Sync and signal:

* The real-time task flushes its pending ticks when it sees the shutdown signal
  (`real_time_collection_task/mod.rs:84`), but the process sees the same signal and
  drops the task's handle: ticks may be lost.
* A shutdown of a sync engine that stopped meanwhile writes `ShutdownInitiated` and
  `Shutdown` over `Terminated` when the process ends between the two looks at it.
* The signal process reads the clock twice around a subtraction
  (`signal/process/mod.rs:126`) and panics if the difference turned negative. The task is
  gone, the status stays `Running`, `until_stopped()` does not return, and `shutdown()`
  answers that the process had terminated with the status `Running`.
* `CallsApart` speaks of the time of the round, which is what `last_eval` keeps. A slow
  evaluator delays the later ones of its round, so that the calls themselves may be
  closer than the interval. An evaluator that fails in each round restarts the process
  and thereby starves those with a longer interval.
* While it is running, the signal process only reacts to `NotSynced`; a stopped sync
  engine is noticed by the executor instead.

Tables:

* A batch size below the 60 minutes of stability caps the page at the upper end
  (`sync_price_history_task/mod.rs:99`): its oldest candle is unstable, its flag is
  invisible to `get_gaps`, and a live download returns `Ok` over rows that stay
  unstable, against the comment at `ohlc_candles.rs:87`. `PageAssumption` and the
  instance keep to sensible sizes.
* The age of a candle is measured when it is saved (`ohlc_candles.rs:120`); one fetched
  just before it was stable is stored as stable.
* Settlements: a hole that a later page opens after the scan was cut is not scanned, and
  the run reports that it is synced (`opened`). A first run that is not synced waits for the
  next settlement instead of the retry interval (`sync/config.rs:294`), since the result
  of the first backfill is dropped. A hole below the reach within the scanned range is fatal
  at every start. With a reach before the first settlement of the exchange the task asks
  for ever: `to` is inclusive and moved by a second, so that the page below the oldest
  settlement has that one, and the error for an exhausted history is never raised
  (`BackfillEnds` supposes a reach within it). `is_valid_funding_settlement_time` accepts times off
  the schedule: 2025-04-11 12:00, in a stretch that the comment says has none, and 08:00 of
  any day before the first settlement. An entry at such a time is stored (`Storable`).

Backtests:

* When funding moved a liquidation past the stop and the candle trails that stop,
  `with_new_stoploss` refuses it and the whole backtest fails (`failed`).
* A cash-in of a trailing trade can drop its stop, while `running_map` keeps the trailing data.
  From then on `next_stoploss_update_trigger` has no stop to start from: the next settlement that
  leaves that trade running, and the next candle that reaches the trigger and leaves it running,
  fail the backtest, and closing another trade is refused (`FailsOverStop` in `TrailsForward`).
* A cash-in credits what was asked for and books what the rounded entry price is worth, so that
  the books and the reported net value come to differ by a few satoshis (`Conserved` says by how
  much, and that nothing else moves them).
* `cash_in` does not rebuild the trigger (`moved` in `TriggerCovers`); `create_running` compares
  the margins with the balance and not the opening fee; a candle tests its low before its
  high; a cross order does not check `is_coherent`; a reversal whose fee exceeds the margin,
  and a settlement that closes the position, drop a part of what is owed
  (`CrossAccounted` says when).
* `est_max_cash_in` uses the entry price before the cash-in; with a profit it is an
  estimate, and `LimitsAgree` speaks of trades without one.
* A missing last minute of a day can fail a backtest; the account opens at the open of the
  first candle while the windows hold all of it; a settlement at the end of the range is
  not applied with full data; a buffer as long as the lookback holds only the start minute;
  a raw operator gets the whole window that another shares with it (`WindowsAgree`).
* An evaluator of one minute is shown its last candle as stable at the first decision
  (`consolidator.rs:131`) and as not stable at all later ones (`consolidator.rs:222`), where the live
  engine's query returns the row as stored (`ohlc_candles.rs:203`). And rows that are stable in the
  table now were not in their first hour: live, the flag of each bucket of the last hour is false
  where the backtest's is true.
* `abort()` and the engine both write the final status; an abort of a backtest that just
  ended returns a join error or `ProcessAlreadyConsumed`.

## 4. Proofs

Proved by TLAPS for every value of the constants that satisfies the named
assumptions of the modules (a positive channel capacity, callers distinct from the
internal parties; finite trades, positive limits; page sizes above zero and a reach
within the history; intervals above zero, one of them the shortest; a contract whose
profits, fees and margins are integers for each size that an order may have, whose liquidation
prices are prices that more margin does not move toward the entry, and whose average entry, of
an exposure and any size that an order may have, and inverse entry are prices; finitely many readings of the clock of the settlements; a first
candle in the first day of a range, or none that the first buffer reaches). Each safety
property that a passing run checks is proved, and so are the types of every module that models a
part of the code. Of the liveness properties the safety half is (below). The type theorems are `TypeInvariant`, `SessionTypeTheorem`,
`AccountTypeTheorem`, `FundingTypeTheorem` and `EngineTypeTheorem`; the others are:

* `TypeInvariant` of `LiveExecutor`: `TypeOK` with `PendingInv` (a status is about to be written
  exactly at the control points that write one). The bound on `feed` needs
  `Push`'s overwrite of the oldest element.
* `GuardTheorem`, `ExclusionTheorem`: `GuardInv` relates the mutex owner to the
  control points: who is at a point that needs the mutex owns it, and the owner is
  at such a point. From it follow that the status cannot change under a method
  that passed its guard, and that refreshes and methods exclude each other.
* `ShutdownTheorem`: `ShutInv` adds how far `shutdown()` is: after the abort the
  processor is dropped or ended, no new refresh can begin, and a method that still
  works ends before the last write.
* `BackTheorem`: `BackInv` strengthens `ReadyIsBacked` with the processor's flags:
  `is_synced` or an armed refresh is itself backed by the engine's status or
  by a change on its way.
* `AwaitTheorem`: the converse, `SyncedIsAwaited`. `AwaitInv` says that while the engine is
  synced and nothing is left to send, each `NotSynced` in the feed has a `Synced` behind it
  (`RenewedInv`), that a processor which does not know of the engine will read of it (`KnownInv`),
  and that one which knows has a refresh armed or under way (`ArmedInv`).
* `RowTheorem`: `RowInv` adds the row of a trade in an order that has not
  returned, and that what is about to be pruned does not run.
* `AccountTheorem` (with recovery on): `AccountInv` extends the accounting to the
  session under construction and to the closures a rebuild has still to find.
* `FeesTheorem` (with recovery on) of `LiveSession`: `FeesInv` says of the stored session, and of
  the one being built, that its fees are what its trades have paid from the start of the
  session to the snapshot (`Counted`), and of a rebuild how much of it the next step adds. It
  needs the accounting of `AccountInv`: a trade that is in both lists, or in none, is
  counted twice or not at all. Sums over trades that leave one list for the other are moved by
  the lemmas `PaidAdds` and `PaidSplits`.
* `BooksTheorem`, `ProfitTheorem`, `CrossProfitTheorem` of `LiveAccount`. `AccountInv` has a ready
  executor know its session (`KnownInv`); a trade the session saw and no longer has, has ended
  (`TradeInv`); the session a rebuild or an order works on agrees with the
  exchange at the time it asked (`WorkInv`). `SyncInv` and `ProfitInv` say of the session what
  the two properties say, for `paid` and for the trades that are still registered, and that
  every cashed-in profit of those was told. `CrossInv` says it of the cross position while an
  order is filled and not yet read. Without `CutOff` in the model
  `BooksAgree` would be false: a session that is cut off at zero stays behind the account. The
  amounts of the run never get there; the proof does.
* `GapTheorem` of `PriceHistory`: `NoSilentGap` needs three more facts. Rows were at the
  exchange and stable rows are old (`TableInv`), so a page never makes a stable row
  unstable; the upper end of a request is a row (`RangeInv`), so the row whose flag goes has
  been read; and a page, once it waits to be saved, contains all rows between its
  oldest candle and its end (`PageInv`). For a hole after a save, the lemma
  `SaveLeavesNoGap` goes through where its upper edge lies: the oldest candle of the
  page, another one, below the page, at its end, or above. `FlagLeavesNoGap` finds, for a
  hole that `flag_missing_candles` widens, the row next to what was made unstable.
  No assumption relates the sizes: the theorem holds for pages smaller than the
  stability age too, whose harm is that a flag is on an unstable row.
* `CompleteTheorem` of `PriceHistory`: from `NoSilentGap`, what an `Ok` says of the whole table.
  `TopInv` is what makes the rows above all stable ones harmless: they are too young or the
  exchange did not have them, once the page of the latest candles is saved (`Settled`);
  for that a page must reach down to a stable candle or to the table (`FreshInv`). Hence its
  assumption, `Batch > StableAge`: without it the property is false, as the hazard at
  `sync_price_history_task/mod.rs:99` says.
* `SettlementsTheorem` of `FundingHistory`. First the grid: `CeilIs`, `FloorIs` and `GridPointsIs` show
  that the rounding and the three series are those of one set of times (`OnGrid`), although
  `IsValid` holds of one time more between the phases and of some before them (`Anchor`), which may
  be in the table and where a scan may begin; so a scan overlooks nothing between its ends
  (`MissingIs`). Then `FundingInv` follows one fact through the task, `Told(x)`: whatever lies from
  x to the end of the table is in it, was refused, or was left out below a cut. It holds
  above the latest settlement that is missing (`LostInv`), above the range of a page
  (`RangeInv`), from its end on once it is saved (`ReviewInv`), and above a cut (`CutInv`).
* `ScheduleTheorem` of `SignalProcess`: `nextEval` is set only by the evaluators that
  are called in a round. `ScheduleInv` says what holds between rounds and within one;
  its core is that the evaluator with the shortest interval is called in every round,
  which bounds `nextEval` for all.
* `SpacingTheorem`: `SpacingInv` relates the time of the last call to `last_eval`, which
  a restart sets to the present and not to the past. `ShutdownTheorem` follows the
  controller and the process through abort and join.

* `CurrentTheorem` and `ShutdownTheorem` of `SyncEngine`. For `SyncedIsCurrent` the
  invariant says what the process may still send and store at each place of its loop,
  and that the status is left before the pause of a restart; for `ShutdownIsFinal`
  (`EndInv`), how far the controller is and that a process that has ended, with nothing of
  it left to send, writes no more.
* `ReportTheorem` of `LiveProcess`: `EndInv` follows the signal from the controller to the
  process and through the three steps of its shutdown: the part whose turn is over shows
  `Shutdown` and does not move again, and a process that ended with `"ok"` went through all
  of them or died of a fatal error.
* `Refinement` of `BacktestEngineProofs`: `Spec => RefinesReplay`. The engine has one clock for
  all operators, `Replay` has one per operator; the invariant says where each operator's
  account stands at each place of the task (before or after operator `k`, the cursor's
  candle, or not opened), that the buffer has every candle between the cursor and its
  last one, and that the queue of settlements is what lies ahead. One lemma per place of the
  task; each shows that the step is one of `Replay` for operator `k`, or a stutter.
* `WindowsTheorem` of `BacktestEngineProofs`: `EngineInv` adds to the invariant of the refinement
  that each window `Shows` the minutes the engine has seen (`WindowInv`): its buckets are in
  order, each has its minutes and no others, each but the last is as stable as its rows are
  (`IsClosed`), and what is not in them fell off the front of a window that is full. The initial window
  and a candle added to it keep that (`StoredUntilPushed`: of one minute, the last is open from the
  first push on); that the buckets which the live engine's query returns are the last ones of such a window
  (`AgreeIs`) is arithmetic of `Floor` and `StepBack`.
* `ConservedTheorem` and `TrailsTheorem` of `BacktestExecutorProofs`: `Settle` closes some trades
  and keeps the rest, so that the sums over both change by what is paid out. `Money(d)` says
  that the books are `d` satoshis off; every step keeps that `d` (`MoneyNext`) but a cash-in,
  which moves it by no more than `Slack` of the new entry price (`CashInMoney`, and `CashInNet` for the
  net value that is reported). A trailing stop is where the session's operator puts it; a stop
  that a cash-in drops leaves a trade `Stopless`, and the only failures are over such a trade
  or, on a candle, one whose liquidation has passed its stop (`TrailsNext`).
* `EstimatesTheorem`, `CollateralTheorem`: what an operator is told of a cross order. Two parts of
  `EstimatesAgree`, `OrderEstimated` and `LimitsAgree`, are the order's own arithmetic and
  hold for every contract. The third, `CollateralEstimated`, depends on how the contract rounds: the
  collateral that `est_from_liquidation_price` asks for must suffice for the liquidation it
  was asked for. `CollateralTheorem` has that as its hypothesis, `CollateralSuffices`, which speaks of
  the contract alone: of an exposure at one entry and one market price, not of positions, orders
  or estimates. What is proved is the rest: after the deposit or withdrawal that is
  estimated, an order that opens, adds to, reduces or reverses a position leaves one that is
  valid and is liquidated there or farther, although its profit and its entry were rounded on the
  way. TLC evaluates the hypothesis for the linear contract of the instance and four margins
  (`MCCollateralAssumption`); that contract meets it for every margin, since a margin that exceeds the
  maintenance by the quantity times a distance moves the liquidation that far, and the bounds on
  prices only cut off what lies beyond `liq`.
* `TriggerTheorem`, `RangeTheorem`, `CrossTheorem` of `BacktestExecutorProofs`. `Isolated` says
  that running trades are `Sound` (their leverage is allowed and their liquidation is
  the one of their margin) and that the trigger covers them. The lemma `TriggerOfIs` is
  about the loop that builds a trigger, `BoundsReach` about a candle that does not reach it,
  `SettleIs` about the three loops that close and keep trades; `AddedMarginIs` is where the
  direction of the liquidation is needed, since adding margin leaves the trigger as it is.
  `Account` says that an exposure is valid. `Fair` relates two states of the cross account
  as `CrossAccounted` does, and one lemma per operation (close, settlement, order) shows
  it; a position that stays open can only be forgiven a part of the fee, because a
  margin of zero is not valid (`FilledIsFair`).

`SetLemmas` is what several of these rest on. The prover cannot instantiate the library's
induction over finite sets, whose hypothesis is an operator; so induction is done by a least
counterexample, which needs a set of good sets instead: among the subsets that lack a
property there is one with the fewest elements (`SetInduction`). From that follow that a
finite set of numbers has a greatest element, that the fold behind `SumFunctionOnSet` has the
equation of a sum, and how a sum changes with one element of its set or one value of its
function. The recursive functions of `BacktestEngine` (the initial window, the order of
settlements) are handled in the same way.

Liveness is out of the prover's reach. What can be proved of it is that nobody waits in vain: as
long as it has not happened, what must happen is on its way, and only scheduling is left. These
are invariants, and the fairness that the liveness properties assume is not used:

* `WaiterTheorem` of `SyncEngine` (for `StopIsReported`), `ToldTheorem` of `BacktestEngineProofs` (for
  `WaiterIsTold`): `StopIsOnItsWay`. A stop that a caller of `until_stopped()` has not learnt of is in
  its receiver, stored and not yet sent by one of the two writers, or behind a lag. `WaiterInv` adds
  that the controller has sent its earlier update before it stores the last one; the lemma
  `StoreKeepsStop` is that a second writer hides no stop of the first. In a backtest a task that is
  gone counts as a stop too, whatever its status: `GoneInv` says that it wrote its outcome or was
  aborted. The exception `Overtaken` is the one above, for callers that come too late.
* `HeardTheorem` of `SyncEngine`, `SignalProcess` and `LiveProcess` (for `ProcessEnds` and
  `ShutdownEnds`): `ShutdownIsHeard`. Whoever waits in `shutdown()` waits for a process that has ended,
  is aborted, or has the signal in its receiver. `HeardInv` of `SyncEngine` says that the process
  subscribes before its real-time task can, which would otherwise be the only one that heard.
* `DeathTheorem` of `LiveProcess` (for `DeathIsReported`): `DeathIsHeard`. A signal process that ended
  while a run was listening is the last element of that run's receiver until the process
  dies of it; `DeathInv` adds that without a `shutdown()` nothing else ends the process.

Only model-checked are the liveness properties themselves (`EventuallyReady`,
`ShutdownCompletes`, `StopIsReported`, `ProcessEnds`, `BackfillEnds` of both tables,
`SilenceIsResolved`, `DeathIsReported`, `ShutdownEnds`, `WaiterIsTold`), since the prover does
not handle fairness and `ENABLED`.

## 5. What is not modelled

* Of the live session: the price range it decides on. `Reevaluate` takes any set of closures
  that some range gives; the trigger and the trailing of stops are modelled and proved about
  with the backtest, which uses the same operators of `trade/core.rs`.
* The updates that executors, engines and the REST wrapper broadcast to observers, and the
  updates for charts of a backtest.
* Of the candle table: `is_range_available`, which only reads (the engine has it as
  `RangeAvailable`); of the price ticks: the removal of old ones, which no other part depends
  on.
* A backtest buffer that is filled in pages smaller than a day; backtests by week and month
  are left to the calendar of `chrono`.
* The values of ticks and signals; the formulas of the contract, which are the exchange's
  crate. That the contract of the exchange meets the assumptions of `Contract`,
  `IsolatedTrade` and `CrossPosition` is taken from its use: floating point and
  `Price::bounded` are in the code, integers and `Bounded` here.
* Configuration, error types, database set-up: values without control of their own. The
  terminal interface (`tui/`): rendering and key handling, with no effect on the other
  parts but a call of their `shutdown`.
* SQL as such: each statement is modelled by its effect with its users.
* A panic of a task, except for the one of the signal process.

## 6. What could follow

* A specification of a supervised process (a status with two writers, a task, a
  controller, a waiter) that `SyncEngine`, `SignalProcess`, `LiveProcess` and `BacktestEngine`
  implement by a refinement mapping.
* `LiveExecutor` and `LiveSession` composed, so that what `LiveSession` takes from
  `RefreshExcludesActions` is an implication between specifications.
* `CollateralSuffices` derived from the formulas of the exchange's crate, with their rounding.
