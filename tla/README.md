# QuantDSS in TLA+

TLA+ models, TLC runs and TLAPS proofs for QuantDSS, an intraday trading
system: market data is turned into signals, signals pass a risk engine, and a
paper or live trade follows.  Paths below are relative to `src/backend/app/`
unless they start with `src/`.

## The system

Processes: the FastAPI application (`api/main.py`; its APScheduler jobs and an
in-process queue run inside every API replica, two in `src/k8s/api-deployment.yaml`),
and one process per worker of `workers/` (two or three replicas each in
`src/k8s/workers-deployment.yaml`, one each in `src/docker-compose.yml`).  They
share a PostgreSQL database through SQLAlchemy sessions (READ COMMITTED,
`expire_on_commit=False`) and a Redis server (streams, locks, flags, caches).

| part | state | operations | interacts through |
|---|---|---|---|
| Paper account (`api/routers/paper.py`, `engine/paper_monitor.py`, `workers/trade_monitor_worker.py`, `workers/autotrader_worker.py`) | `RiskConfig.paper_balance`, rows of `paper_trades` | execute, close, reset, kill switch, monitor passes, worker execution | rows of one database |
| Signal delivery (`core/streams.py`, `workers/autotrader_worker.py`, `workers/pel_recovery_worker.py`) | stream, consumer group, pending entries, idempotency keys | publish, read, handle, acknowledge, claim | Redis streams |
| Risk engine (`workers/risk_engine_worker.py`, `engine/risk_engine.py`, `engine/risk_reservation.py`) | risk reservations, lock `risk_eval`, `DailyRiskState` | evaluate sixteen rules, reserve, publish | Redis keys, streams |
| Reactive auto-trader (`engine/auto_trader_engine.py`, `core/redis_lock.py`) | queue of batches, portfolio lock, trades | enqueue, process batch | Redis lock, database rows |
| Live orders (`engine/execution_manager.py`, `engine/order_cancel_queue.py`, `workers/trade_monitor_worker.py`) | rows of `live_trades`, broker orders, square-off locks | webhook, protect, time out, reconcile, square off | broker API and webhooks |
| Signal pool (`engine/signal_pool.py`, `engine/consolidation_layer.py`) | pooled candidates and their Redis mirror | add, collect, recover | in-process callers, Redis |
| Signal pipeline (`engine/strategy_runner.py`, `engine/*_layer.py`, `engine/meta_strategy_engine.py`, `workers/signal_engine_worker.py`, `api/routers/scanner.py`) | the DataFrame of a bar, the signal on its way | evaluate, scan, consolidate, filter, publish | called in sequence, streams |
| Strategy health (`engine/strategy_health.py`) | one Redis record per strategy | record a trade, ask, pause | Redis keys |
| Trading mode and halts (`engine/trading_mode.py`, `api/routers/auto_trader.py`, `core/scheduler.py`) | `auto_trade_config`, halt of the day, lock on LIVE | switch mode, halt, resume, daily reset | read by every trading path |
| Candles (`ingestion/candle_aggregator.py`, `engine/candle_persister.py`) | candles in progress, stream, batch, table | tick, publish, acknowledge, flush | Redis stream, database |
| Market replay (`replay/`, `api/routers/replay.py`) | session, its task, pause flag | start, pause, resume, stop | ticks for the aggregator, the trading mode |
| Backtest (`engine/backtest_engine.py`) | simulated account, open trade, pending signal | bar, finish, next window | the risk engine |
| Feeds and broker adapters (`ingestion/`) | connections, price cache | connect, fail over | not connected to the aggregator |
| Circuit breakers, position reconciler, alerts, watchdogs, ML (`core/circuit_breaker.py`, `system/circuit_breakers.py`, `alerts/`, `workers/`) | counters, heartbeats | notify, watch | Redis, HTTP |
| API and frontend (`api/main.py`, `src/frontend`) | none of their own | requests, scheduled jobs | the parts above |

Hard behaviours: sessions that read rows, await, and write absolute values back;
replicas that check a limit in one statement and use it in another; messages
redelivered, never redelivered, or handled after their idempotency key expired;
locks whose TTL ends before their holder does; webhooks out of order; a crash
between an external effect and its record; a DataFrame and a health record that
several write; tasks that are cancelled, or wake up, in the middle of what
another one does.

## Paper account: `PaperAccount`, `PaperLedger`, `PaperLedgerProofs`

`PaperAccount` is the abstract specification: `balance`, `status` and `pnl` of
each trade, and `Open`, `Close`, `Reset` as indivisible steps.  `PaperLedger`
is the code: each request, job or replica is a *session* with a program counter
(`pc`), the rows it read (`rows`), the balance object it holds (`mem`) and what
it will write to each row at commit (`marks`).

| session | code | steps |
|---|---|---|
| `Workers` | `autotrader_worker._handle_signal`, `_execute_paper_trade` | count, duplicate check, `SELECT ... FOR UPDATE`, reject or insert and commit |
| `Manuals` | `POST /paper/execute` | read the balance, insert and commit |
| `Closers` | `POST /paper/close/{id}` | read the row, read the balance, commit |
| `Monitors` | `paper_monitor.check_paper_trades` | rows, prices, balance, exits and trailing stops, commit |
| `TradeMonitors` | `trade_monitor_worker._check_paper_trades` | rows, then per row price, exit (flushed by the query that follows) or trailing stop, commit |
| `KillSwitches` | `POST /auto-trader/close-all` | rows and prices, commit |
| `Resets` | `DELETE /paper/data` | delete, read the balance, commit |

An UPDATE writes the absolute value held in memory and waits for a session that
holds the row (`rowLock`, taken only by the worker's FOR UPDATE; `HeldRows` for
rows already flushed).  An UPDATE of a deleted row makes SQLAlchemy raise and
roll back (`StaleRows`).  A session may end at any point (`Abort`).

What a close books is any integer: `POST /paper/close/{id}` takes its exit price from
the request, so a position may lose more than its margin and take the balance below
zero.  `NoFurtherOverdraft` says that nothing else does: however updates are lost, the
balance is never lower than what committed closings lost beyond their margins.

## Signal delivery: `SignalDelivery`, `SignalPathProofs`

One stream (`signals:risk_passed`), its consumer group and what consumers do
with an entry.  `Publish` is XADD, `Read` is one XREADGROUP of `consume_stream`
(new entries only), `Take` turns to the next message of the batch, `CheckAge`,
`Claim` (SET NX EX), `Refuse`/`Execute`/`ExecuteNothing`, `Report` are the parts
of `AutoTraderWorker._handle_signal` between which other consumers can act, and
`Ack` is XACK.  `Raise` is the failure branch of `consume_stream` with its retry
counter and dead-letter branch, `Recover` one round of `PelRecoveryWorker.run`,
`RaiseInRecovery` the loop that drops the rest of its batch, `Crash` a process
that restarts with an empty batch.

`LoseRead` is an XREADGROUP whose answer is lost: its entries are delivered to nobody.
`dropped` is what a failure took out of a worker's hands: the handler or the XACK
raised, the process died with the entry, the delivery was lost.

The recovery worker of this commit ends at start with an AttributeError
(`pel_recovery_worker.py:31`).  The constant `RecoveryStarts` says whether it gets
to its loop.  In `delivery` it may (so that safety holds with and without it) and
nothing is assumed of it: `Settled` promises an acknowledgement only to entries that
were not dropped.  What was dropped stays pending for ever at this commit, so the promise of
`src/README.md:156` is false and no property states it.

What an execution does to the account is in `PaperLedger`; here it is a count.  The
initial states, the next-state relation and the specification have names of their own
(`DeliveryInit`, `DeliveryNext`, `DeliverySpec`), since `SignalPathProofs` extends this
module and `SignalPipeline`.

## Risk gate: `RiskGate`, `RiskGateProofs`

Replicas of `RiskEngineWorker` evaluate one signal each under the Redis lock
`risk_eval:portfolio`: `Receive`, `Acquire` or `GiveUp`, `LoadPortfolio`,
`ScanReservations` (with the row of `DailyRiskState`), the rule chain
(`RejectEarly`, `CountStock`), `Reserve`, `Publish`, and the commit of the row
(`CommitApproval`, `CommitRejection`).  Behind the gate `TakeOrder`,
`OpenPosition`, `DropOrder`, `ClosePosition` stand for the autotrader workers.
`RiskEngineWorker.run` passes a method that does not exist (`self._handle_signal`),
so the process ends at start; the model takes `_process_signal` as the handler.

Nothing bounds an evaluation: `Tick` may pass at any point of it, the key may end
under it, and it goes on beside the next one (`InTime` says whether the key it set
still stands).  What the code swallows is a choice of the action, not an end of the
evaluation: `LoadPortfolio` finds the open positions or none, `ScanReservations` any
part of the reservations, `Reserve` may write nothing, `Publish` may send nothing,
`Unlock` may delete nothing.  `LoseGrant` is a SET whose answer was lost, so that the
client asks again and waits for its own key.  `Fail` is an error that ends the handler.

Rules that look at one signal only (prices, market hours, account) are the choice
to reject early.  No signal carries a `trace_id`, so the release of a reservation
never finds its key: a reservation ends with its TTL, and what the limit is worth
rests on the times.  `GateAssumption` asks only `StaleAge + LockTTL < ReserveTTL`
(60 s and 5 s against 120 s).  `PositionLimit` is about the positions let through in
time and on all there was to see (not `unsure`), and opened while their reservation
stood (not `overdue`); `OverdueExplained` says how a candle signal gets there.  The
plain limit and the plain "only one worker" do not hold: an evaluation that outlives its
key, or a reservation that was never written, violates each in a few steps.

## Reactive auto-trader: `PortfolioBatch`, `PortfolioBatchProofs`

Every API process has an `AutoTraderQueue` and one worker that runs
`_process_batch` in one database session.  The session is the point of the model:
rows are written by autoflush at the next query and stay locked until the commit,
so `dirty` rows, `rowLock`s and the Redis lock with its TTL are all state, and
batches can wait for each other in a circle.  Actions follow the code line by
line: `Enqueue` (drops the payload when the queue is full), taking a batch, the
close of a reversed position outside the lock, the two counts and the duplicate
check, insert, idempotency key, commit, unlock.  `Abort` is any exception,
`Victim` PostgreSQL's deadlock detection, `FindTooMany` the branch that leaves
the lock by `continue`.

Nothing in this commit calls `process_scanner_results`
(`api/main.py:275` only starts the queue's worker), so the module shows what the
documented reactive mode does once it is fed.  Paper route only: the live route
raises NameError before it writes anything.

## Signal pool: `Consolidation`, `SignalPool`, `SignalPoolProofs`

`SignalPool` is one process that runs the intelligence pipeline: `Accept` (the
deduplication key), `AddSignal` up to its first await, then `Save` and `Expire`
under the asyncio lock; the flush loop `CheckAndFlush`, the callbacks `HandOver`
and the unawaited `Delete`; `Crash`, and recovery as `Start`, `ReadKey`,
`Restore`, `RecoveryEnds`.  `OtherSaves` and `OtherDeletes` are what other
replicas do to the same hashes.  `Consolidation` is the merge of a group as a
fold over every order the list can have.

`spoiled` records the symbols for which the hash no longer says what is pending,
one entry per accident the code allows: a failed call, a delete that comes after
a newer signal, a recovery that read before a newer signal, a hash that expires
because recovery does not renew its TTL, another replica.  `MirrorOfPool` says
these are the only ones.

## Live orders: `LiveTradeLife`, `LiveOrders`, `LiveOrdersProofs`

`LiveTradeLife` is the promise of a row of `live_trades`: held only once shares
were bought, closed only once an exit filled or the entry died without a share,
cancelled only once the broker took the cancel.  `LiveOrders` is one row with
everything that writes it:

| writer | code | steps |
|---|---|---|
| webhooks | `ExecutionManager.handle_webhook` | one transaction per update, for any update the broker ever sent, in any order, any number of times |
| reconciliation | `reconcile_orders` | `Reconcile` loads, `AskBroker` asks for one order at a time, `Commit` writes what changed since the load |
| time-outs | `cancel_stale_pending_orders` | `FindStale`, `CancelStale` or `CancelFails`, `Commit` |
| trade monitors | `_check_live_trades` | `StartPass`, `TakeLock` (SET NX) or `NakedStop` or `Skip`, `CloseSent`, `CloseLost` or `CloseRefused`, `Commit` |

The broker (`Fill`, `Die`) is the environment.  `place_order` raises a NameError at
its first statement, so a row exists from the start as an earlier version left it
(`StartRows`); `place_sl_order` and `place_target_order` raise UnboundLocalError
before they send anything, so protection orders are only ever removed
(`Unprotected`).  The cancel queue is a Redis list nobody else reads: an order on it
is one that dies at some time, or fills first, or stays.

## Signal pipeline: `Strategies`, `StrategyHealth`, `SignalPipeline`, `SignalPathProofs`

`Strategies` has the nine strategies as rules on the last bar, stated once for both
directions, and the columns of the shared DataFrame: `Columns` (what
`compute_for_strategy` writes), `Marker` (the column by which a strategy believes
they are there), `Prepared` (the columns it then sees).  Four of the nine build a
signal without the name it requires and raise (`Nameless`).

`StrategyHealth` is the record per strategy in Redis.  `record_trade` and
`is_disabled` (`clear_pause`) read it, and `save_state` writes it back whole.

`SignalPipeline` composes both with the merge of `Consolidation`.  `wiring` says
which process it is: the API replica, which evaluates loaded strategies on candles
(`NewBar`, `EvaluateNext`), or the signal engine worker, which gets the candidates of
scans (`Analyze`, `ScanList`).  Then `Feed` (pool), `Flush` (merge or conflict),
`ReadRegime`, `AskHealth`, `filter_signal` (META), `Layer` (confirmation, quality,
regime, ML, NLP, time, liquidity, as the process wires them), `on_signal_approved`.
Regime, time of day and the trading state change at any time.  The timing of the
pool and its recovery are in `SignalPool`; here it is a sequence.  `PipelineAssumption`
says what a bar is: integers, an ATR above zero, a close between the low and the high.
Prices are ticks: a scan rounds to two decimals (`scanner.py:352`), which the model leaves
out, so a stop closer than a tick is outside it (the bars have an ATR of two and more).

## Risk rules and backtest: `RiskRules`, `Backtest`, `BacktestProofs`

`RiskRules` has the sixteen rules of `RiskEngine` and the sizing as operators on one
request: signal, day, portfolio, and what a rule looks up.  Money is an integer,
shares of it are in basis points.  `RiskGate` above has who evaluates when; this
module has what is evaluated, and it is checked inside the program that runs it to
its end, `BacktestEngine`.

`Backtest.Bar` is one turn of the loop in the order of the code: the pending signal
is filled at the open (`Filled`), a new day clears loss and halt (`NewDay`), the stop
is trailed (`Trailed`), stop or target is hit (`Exited`), the strategy is asked and
the rules answer (`Evaluated`).  `Finish` is the forced close on the last bar,
`NextWindow` the next run of a walk-forward test on the same risk engine, and
`Midnight` the date on the wall, by which rule 11 counts.

## Trading day: `TradingControl`, `Candles`, `MarketReplay`, `MarketReplayProofs`

`TradingControl` is the row of `auto_trade_config`, the halt of the day and the
server's lock on LIVE.  A request is `Read` and `Commit`; the session writes only the
attributes that differ from what it read, so overlapping requests each write a part.
`NewDay` is the reset at 09:00, which ends any halt.

`Candles` is `CandleAggregator.process_tick` (duplicates, order, the candle closed
by the first tick of the next minute) and `CandlePersister` (read, acknowledge,
flush, keep the batch when the write fails).  Duplicates are looked for among the
latest `RecentMax` ticks of the symbol (20 in the code), so a tick that a file repeats
after more of the same second is taken again; `WholeCandles` allows that and no other
repetition.

`MarketReplay` composes them in one process.  A replay is a task with a program
counter at each await (`Awaiting`), and nothing else runs while it does not await
(`Quiet`).  `start_replay`, `pause_replay`, `resume_replay` and `stop_replay` are the
requests; start and resume look at the mode first, an await earlier
(`check_safety_rules`).  A stopped task is cancelled where it waits (`Cancelled`).
`AnswerLost` is an XADD that Redis has done and the client sends again: the candle is in
the stream twice, and `WholeCandles` asks that both entries are the same candle.
Nothing but a replay calls `process_tick` in this commit, so its ticks are the ticks.
The reset of the aggregator at 09:15 is not there: `scheduler.py:194` imports a name that
does not exist, and the job ends in its `except`.

`HaltHolds` is what overlapping requests keep: trading is enabled again only by one that
read it disabled and asks for it, and the halt of the day ends by a `/resume` that read it
or with the day.  It does not say that a halt lasts until `/resume`, because
`set_trading_mode` and `update_config` enable trading without a look at the halt; the
stronger promises of the endpoints are false and listed under the disagreements.

## Runs

Twelve runs, all of which pass:

| run | instance | shows |
|---|---|---|
| `ledger_api` | 2 trades (margins 2 and 3, capital 4), 2 workers, manual order, close, monitor pass, reset | lost updates happen and losses go beyond margins; nothing else takes the balance below zero, and a read under the row lock is current |
| `ledger_closers` | 4 trades, 1 worker, trade monitor, kill switch, reset | cap and one position per instrument hold with one worker; nothing closed comes back |
| `ledger_workers` | 3 workers, 4 trades, fairness | workers alone refine `PaperAccount`; each is served |
| `delivery` | 1 worker, 1 recoverer that may run, a signal published twice | executed at most once; lost only to a failed handler that had claimed it or as poison; every entry that no failure took from a worker is acknowledged in the end |
| `gate` | 2 replicas, 2 signals of a stock, 1 free position | of two evaluations at once one has outlived its lock; the limit holds for positions let through in time, seeing everything, and opened in time; approvals are counted once |
| `batch` | 2 processes, 3 batches that reverse and repeat | cap, one per symbol, once per key, every batch ends |
| `pool` | 3 signals, 2 strategies, 1 symbol, another process | nothing lost, mirror, tightest stop, every group flushed |
| `live` | 2 monitors, an unprotected position, 2 market orders, 1 expiry, 1 crash | a reason closes once per lock; the position is turned around only by the named pairs of exits |
| `live_rows` | 2 shares; the API process with every row it may find, or with a monitor and an unprotected position; fairness | the row refines `LiveTradeLife`; the square-off order is sent in the end |
| `pipeline` | 4 bars (a breakout, a second one, a divided and a failed one), the nine strategies in three load orders, or scans for one strategy or all; trades, pauses and a day around them | what a strategy finds depends on no other, but for the named case; a message speaks with one voice; a pause holds |
| `backtest` | 4 bars out of 5 shapes, 3 offers, 5 risk engines, 2 windows, 1 midnight | past a loss limit the run is flat; every approval is one trade, within the cap of the stock |
| `day` | two requests; two replays beside a restart and a failure; one beside two failures | whole candles, a halt is undone by no stale request, what is acknowledged is kept |

Bounds, and why they are enough:

- Ledger: margins 1 to 3, capital 3 to 5: an account that two positions do not fit
  together, results on both sides of zero and, in `ledger_api`, a loss beyond its margin,
  and every pair of sessions overlapping.  Amounts are integers.
- Delivery: times keep the order of the real ones (`StaleAge` 60 s < `KeyTTL`
  900 s, `DiscardAge` 300 s between); `MaxTime` lets a key expire, `Quiet` ends
  publications, crashes and exceptions so that liveness is about what is left;
  `MaxStall` bounds the gap between the age check and SET NX, which are
  neighbouring calls.  `PoisonLimit` is 1 so that poison occurs.
- Gate: times keep `StaleAge + LockTTL < ReserveTTL` at its least, and the clock is long
  enough for a lock and a reservation to end under their holders; one free position and
  two signals, so a second approval is one too many; one of the two is a scanner and
  replay signal without age.
- Batch: a queue of one so that it overflows, limit 2, both TTLs at their least,
  and timers that count down, so the clock has no end.
- Pool: three signals let one be replaced, one be of another strategy, one come
  from elsewhere; `Window` is 2 so that a restarted window would be seen.
- Live: two market orders are the least that turn a position around, and one
  expiry lets a lock end under its holder.  A quantity of 2 makes partial fills
  happen; a monitor that finds one unprotected position takes every branch of a pass.
- Pipeline: each bar makes several strategies fire, or contradict each other, or
  raise.  Two bars let a pool hold two generations; `MaxLosses` 1 and lookbacks of 2
  and 3 let each of the three conditions that disable a strategy be met by two trades.
  A start fixes which of these limits is used, since trades and bars together only
  multiply.
- Backtest: one stopped trade loses the cap of the day and two the share of the
  account; four bars are fill, exit, fill, exit with a day change anywhere.  The five
  engines are history, data up to the present, no volumes, broker errors, evening.
- Day: files with two minutes out of order, a tick sent again at once and again after
  another of its second, one after the session, and one file without its columns.
  `RecentMax` is 1 instead of 20, so both kinds of repetition happen.  The bounds keep
  apart what only multiplies: no request that changes the mode touches a candle.
  Requests are symmetric: no definition tells them apart.

Deadlock is not checked where every session or process can be done (the ledger
runs with one-shot sessions, delivery, gate, and the runs whose bounds end);
`ledger_api`, `batch` and `pool` check it.

## Fairness

- `LedgerFairness`: strong on `WorkerLock`, because PostgreSQL grants a row lock
  to its waiters, weak on the steps of the holder.  Readers and closers have none.
- `SignalDelivery.Fairness`: weak on reading and handling by the autotrader workers,
  loops that never return.  Failures stop at `Quiet`.  Nothing is assumed of the recovery
  worker, nor of the clock.
- `PortfolioBatch.Fairness`: weak on a worker's step or its stop at the limit, on
  the deadlock detection of PostgreSQL, and on the clock.  No lock is assumed to
  be fair: the Redis lock is polled with a limit and every wait ends.
- `SignalPool.Fairness`: weak on calls to Redis and callbacks; strong on the flush
  loop and on recovery, because `asyncio.Lock` wakes its waiters in order; strong
  on the clock, which waits for calls under way.
- `LiveOrders.Fairness`: weak on the steps of a monitor's loop, which never returns
  (`StartPass`, `Skip`, `CloseRefused`, `Commit`); strong on taking the square-off lock,
  whose TTL keeps ending, and on an order the broker accepts: it does not refuse or lose
  the answer every time.  `SquareOffSent` is about that broker.
- `SignalPipeline`, `Backtest` and `MarketReplay` state none: what they are checked for
  is safety.

## Proofs

For every value of the constants under the named assumptions:

| module | theorems | inductive invariant |
|---|---|---|
| `PaperLedgerProofs` | `LedgerTypeCorrect`, `OnlyLossesOverdraw`, `LockedReads`, `ClosedForGood`, `WorkersImplementAccount`, `SingleWorkerKeepsLimits`, `SingleWorkerNoDuplicates` | `LedgerInv`: every balance a session may still write, not only the committed one, is at least what the losses beyond margins explain; the holder of the row lock has read the current balance; rows in hand are claimed by one session. `LimitsInv` adds what a single worker has counted |
| | `AccountConserves`, `WorkersConserve` | `AccountInv`: the sums of margins and results over any set of trades change with a trade by its own share; the second theorem carries the first through the refinement |
| `SignalPathProofs` | `StrategiesFindAlone` | `RunnerInv`: every column of the DataFrame was written for a strategy evaluated before, and columns alike where a strategy reads make it find the same |
| | `SpeaksWithOneVoice` | `VoiceInv`: a candidate of a scan protects, in the pool, before META, let through and in the layers alike; behind META the regime that was read allows every member |
| | `PausesHold` | `HealthInv`: whoever is about to write a state that is on has read one that was on, or whose pause was over; time only ends pauses |
| | `ExecutesAtMostOnce`, `LosesOnlyByFailure`, `DeliveryTypeCorrect` | `DeliveryInv`: a key set by a fresh check outlives the age at which the signal is refused, so the second claim fails or never comes. `LossInv`: delivered entries lie behind the cursor of the group, and a handler past the age check has claimed its signal or refuses it |
| `RiskGateProofs` | `GateInvariant`, `GateTypeCorrect`, `EvaluatesAlone`, `KeepsPositionLimit`, `LateForAReason`, `CountsApprovals` | `GateInv`: until its TTL ends a key is that of the evaluation which set it; positions and reservations that will last (`Claims`) stay within the limit, and what an evaluator that is still in time and read everything has in hand contains them |
| `PortfolioBatchProofs` | `BatchTypeCorrect`, `BatchKeepsCap`, `BatchOnePerSymbol` | `BatchInv`: while the Redis lock expired under nobody, whoever is inside holds its key, an insert is under way only there, and what is committed leaves room for one more from the count on |
| | `BatchOncePerKey` | `KeyInv`: a trade younger than the TTL of its key still has it; no time passes between the key and the commit; who found no key finds no young trade of its signal until it commits |
| `SignalPoolProofs` | `PoolTypeCorrect`, `PoolLosesNothing`, `MirrorsPool` | `PoolInv`: `MirrorToBe`, the hash once the call under way is done, equals the pool where recovery has finished; where it has not, the pool is part of it, and what the pool lacks is what recovery has read |
| | `MergesKeepTheBest` | `Good` for each part of a merge, and `FinitePools`: what is grouped came signal by signal |
| `LiveOrdersProofs` | `LiveTypeCorrect`, `ClosesOncePerLock`, `RowsFollowTheBroker` | `LiveInv`: what a session is about to write was earned when it asked, and what was earned (shares bought, an exit filled, a cancel taken) stays earned. `LocksCounted`: for each reason, sessions that believe they hold the lock, orders that were sent and the free key only grow in number when a TTL ends |
| | `QuantitiesAreBought`, `TurnedOnlyByTwoExits` | `QtysBought`: a quantity was bought wherever it is copied, from the broker into a session, an order, the row, or an exit has filled before; `Sold` counts pairs of an exit and a share, so that what two exits sold needs no sum |
| `BacktestProofs` | `RunsAreSound`, `LossesStopTrading` | `Inv`: approvals are trades and what is held, a trade is never open and pending at once, and past a limit the account is flat |
| | `ApprovalsAreCounted`, `ApprovalsTradeOnce` | `CapInv`: every approval, of this run or one before, has its place in the count of rule 11 for some date of the wall |
| `MarketReplayProofs` | `HaltIsKept` | `ControlTyped`: what a request read and wants has the shape of the rows; the rest is what one commit writes (`WhatACommitWrites`) |
| | `CandlesAreWhole` | `ReplayInv`: for each symbol the rows of a task are past, at hand or to come; the candle in progress has exactly the past ones of its minute, its last ticks are the last ones remembered (`EndsAs`), and what is to come is of no earlier minute than what is out |
| | `AckedAreKept` | what was acknowledged is in the batch, being written, or has a row, whichever of them the process is at |

Each proof module has one lemma per part of the invariant, with one step per
action, and the theorems combine them.  `WorkersImplementAccount` (`PaperLedger` and
`PaperAccount`) and `RowsFollowTheBroker` (`LiveOrders` and `LiveTradeLife`) are the
safety parts of refinements: initial states map to initial states and each step to a
step or a stutter of the abstract specification.

Sums and folds are recursive functions on sets, and induction over them is out of the
provers' reach as such: the induction theorems of the library take an operator.  Its
theorems on well-founded relations take a set, and that is enough.  `SmallestSet`
(`SignalPathProofs`, `PaperLedgerProofs`, `SignalPoolProofs`): of the parts of a finite
set for which a claim fails there is one no smaller part of which fails.  With it the
`CHOOSE` in a fold is shown to have a value (`TableExists`, `FoldExists`), the same
one for every part (`TablesAgree`, `FoldsAgree`), and what one more element keeps is
kept by the whole.  So `AccountConserves` holds for any set of trades,
`MergesKeepTheBest` for groups of any size in any order, and the pipeline theorems for
lists of any length.

Assumptions on constants that the theorems rest on, beside those named above:
`ReplayAssumption` (a file is a list of rows, each a time, a symbol and a deal; a minute
has a length; times of a session are above zero), `PoolAssumption` (prices are integers,
each missing one a 0), `PipelineAssumption` (above).  TLC evaluates them on every run.

Model-checked only: liveness (`LockWaitEnds`, `Settled`, `BatchEnds`, `Flushed`,
`SquareOffSent`), since the prover has neither fairness nor ENABLED.  Every invariant
and every action property of the runs is proved.

## Disagreements met while reading

What the code does and what the repository says of it, where they differ.  The models
follow the code; a property that does not hold for such a reason names the accident as
its exception, or is not stated.

Paper account and workers
- `paper.py:143` books any exit price a request sends, below zero for the balance
  included.
- `paper_monitor.py:132` reads the account without FOR UPDATE and writes an absolute
  balance at commit: a margin debited in between comes back (`paper.py:113`, "FIX #7:
  deduct margin on open; returned on close").
- `trade_monitor_worker.py:137` closes a position and books nothing to the balance.
- `autotrader_worker.py:106` sets the idempotency key before the trade and keeps it on
  failure, so the redelivery is acknowledged without a trade.
- No reader ever sees what a worker left pending, against `src/README.md:156`,
  "ensuring no execution is lost".
- `pel_recovery_worker.py:31` and `risk_engine_worker.py:317` name methods their
  classes do not have; both processes end at start.
- `streams.py:167` reads only new entries, so the branch of `streams.py:191` ("DLQ
  Logic") needs a message delivered three times to a reader that sees it once.
- `autotrader_worker.py:136` looks at `enabled` and then only asks whether the mode is
  "paper": every other mode executes live, "disabled" and "live" without the server's
  lock included (`trading_mode.py`: the lock makes LIVE impossible "from the UI alone").

Risk and batches
- The lock of the evaluation ends after 5 s and its holder goes on, against
  `risk_engine_worker.py:189`, "only one worker".
- A reservation that could not be written or read stops nobody, against
  `risk_reservation.py:4`, "prevent concurrent signals from exceeding overall risk
  limits"; a portfolio that cannot be loaded counts as empty.
- `risk_engine.py:610` counts per stock from zero after a restart;
  `hydrate_signal_counts` has no caller (`risk_engine.py:7`, "restart-safe").
- `auto_trader_engine.py:618` leaves the portfolio lock by `continue` with rows
  uncommitted, so its TTL may end under its holder (`auto_trader_engine.py:604`,
  "serialises each trade-open attempt").
- `auto_trader_engine.py:568` closes a reversed position without a lock: two batches
  both close it ("no lock needed").
- `auto_trader_engine.py:737` gives every symbol of a scheduled scan `symbol_id=0`, so
  pooled signals replace each other.
- `execution_manager.py` hands a float to `record_trade_async` as its session.
- `load_adv` has no caller: every signal that is not a scanner's is blocked for missing
  volumes, although the rule calls itself fail-open; a backtest through the API never
  trades.  Cap per stock, cooldown and time gate use the clock on the wall there.
- `GlobalMarketRegimeFilter` reads `signal.strategy`, which a candidate does not have.

Pipeline
- Four strategies raise TypeError whenever they fire; `relative_strength` is never
  given the index it compares with; `orb_vwap` does not test `or_high` for the zero
  `indicators.py` says it guards against.
- A strategy that finds its marker column computes nothing, so it reads the columns
  of whoever was loaded before.
- Signals of loaded strategies score at most 35 of the 75 required: the pipeline of the
  API replica never publishes, and `process_alert` would raise NameError if it did.
- With trading disabled `_on_signal_approved` raises UnboundLocalError: the signal is
  neither published nor saved, against its comment ("still save it").
- The message carries the prices of the first member, the row of `signals` those of the
  merge, which with different entries may hold a wider stop (`consolidation_layer.py:68`).
- LOW_LIQUIDITY "disables ALL strategies" and names six of nine.
- A scan for `multi_strategy` sends BUY and SELL under one name, so the pool keeps the
  last; `scanner_worker` takes the symbols of the watchlist for names of preset lists.
- `re_enable` and `hydrate_from_db` of strategy health have no callers: a strategy
  disabled for its win rate stays so.

Live orders
- `place_order` raises NameError (`execution_manager.py:146`), `place_sl_order` and
  `place_target_order` UnboundLocalError, and `handle_webhook` has no caller.
- The stop of an unprotected position is sent again every 15 s, and turns the position
  around; a lost answer deletes the lock and the order is sent again.
- A cancel the broker accepted after the entry filled leaves a CANCELLED row with
  shares held; a PENDING row whose entry died partly filled is never looked at again by
  the reconciliation; a repeated "complete" reopens a CLOSED row; a partial fill of a
  leg is taken for one of the entry; the cancel queue ("Guaranteed Confirmation")
  verifies with a closed client.
- `workers/position_reconciler.py` cannot be imported.

Trading day
- `set_trading_mode` and `update_config` enable trading in a halt, against
  `auto_trader.py:277` ("No new trades will be opened until /resume is called", and
  "Use /resume to restore" at :318).
- A `/resume` that read PAPER writes no mode, so a switch to LIVE committed in between
  stands, against `auto_trader.py:343`, "Always resume into PAPER".
- A replay looks at the mode at start and resume only, against
  `replay_controller.py:32`, "cannot run while Trading Mode is LIVE".
- `update_config` enables LIVE without `confirm_live`; `emergency_halt` raises NameError
  after its commit, so the caller sees a 500 for a halt that holds.
- Requests that overlap write only what they changed: a halt that read trading disabled
  writes no switch, and a request committed in between may have set it.
- The workers never read the halt of the day; the reset at 09:00 clears it, whoever
  set it.
- The kill-switch endpoints pass a parameter that does not exist: once
  `circuit_breakers.py` has disabled trading, no request enables it again, and its
  daily-loss breaker asks for a column that does not exist and swallows the error.
- A start of a replay without the CSV columns leaves `is_running` set with no task; a
  pause lets the tick under way through; the last candle is never published.
- Candles are written for symbol 0 with a foreign key to `symbols`: without such a row
  every flush is refused and the batch grows, with it one candle per minute survives of
  all symbols.  Entries are acknowledged before the write, against "exactly-once"; after a
  failed acknowledgement the rest of the read stays pending for ever; two trades of one
  second, price and volume count as one.

Backtest
- `final_balance` leaves out the costs, winners are counted on gross profit, the forced
  exit is missing from the equity curve, and a stop is filled at its price however far
  the bar opened beyond it.  The runner of `research/` imports a name that does not exist.

## Not modelled, and why

- `place_order` and its retries: the function ends at its first statement.
- Feeds, websocket and broker adapters, `mtf_engine`: network I/O that nothing hands on
  to the aggregator in this commit; the feed manager is never started.
- Circuit breaker of broker calls: only `place_order` reads its state.
- Position reconciler: cannot be imported.
- The series behind indicators, statistics of a backtest, Monte Carlo, ML training:
  floating-point arithmetic without state that several actors share.  What strategies
  decide from them is modelled.
- Alerts, telemetry, watchdogs, HTTP plumbing, authentication, frontend: input and
  output whose results no trading path reads.
- Trimming of streams, the Kafka copy, Redis failover: infrastructure.
- The scheduled scan of the auto-trader and `run_auto_trader`'s configuration; the daily
  profit and loss the trade monitor adds up.

## Plan, done and left

Done, in the order of the plan: the account and its refinement; delivery; the risk
gate; the portfolio lock; consolidation and pool; live orders and their refinement;
strategies, health and pipeline; risk rules within the backtest; trading mode, candles
and replay.

Left, most useful first:

1. The cap per stock in `RiskGate`, counted per process and per life.
2. The batch as one more closer of `PaperLedger`, with the account in it.
3. A composition of `RiskGate`, `SignalDelivery` and `PaperLedger`, from an approval to
   the account.
4. The consequences of one module for the next: what `OneVoice` says of a message as an
   assumption of `RiskGate`, what `AtMostOnce` says of an execution as one of `PaperLedger`.
