# Formal verification of the KronosStrategies trading programs

TLA+ models of the parts of this repository that move money, collect its data and
judge its strategies, the TLC runs that check them, and TLAPS proofs of the
properties that matter most. The modules are translated from the Python sources;
the docs and comments are used only as the statement of what the code is meant to
do.

| files | what they are |
|---|---|
| `CopyTrader`, `CopyTrader_proofs`, `MCCopyTrader`, `trader_*.cfg` | the Telegram copy trader: message handlers, stale sweeper, broker poller, restart (section 2) |
| `ChallengeRunner`, `ChallengeRunner_proofs`, `MCChallengeRunner`, `challenge_*.cfg` | the prop-challenge runner: a tick per H4 bar, guard, sizing, stop ratchet, restart (section 3) |
| `OrderSubmit`, `SignalBatch`, `OrderSubmit_proofs`, `MCOrderSubmit`, `orders.cfg` | how one signal becomes orders on several accounts, and the abstract batch it implements (section 4) |
| `Desk`, `EntryManager`, `PositionMonitor`, `TradingDesk`, `TradingDesk_proofs`, `MCTradingDesk`, `desk.cfg` | strategy runners, entry manager, position monitor and broker over shared rows (section 5) |
| `TickTable`, `TickWriters`, `CandleReader`, `MarketData`, `MarketData_proofs`, `MCMarketData`, `collector.cfg` | the writers of the tick table and the candle reader (section 6) |
| `Lab` and the 19 modules it composes, `Lab_proofs`, `Signals_proofs`, `Setups_proofs`, `MCLab`, `lab.cfg`, `replay_is_live.cfg` | engines, detectors, replays, the Kronos book, gates and reports (section 7) |

A run is `tlc -config <run>.cfg <MC module>`, a proof `tlapm <module>_proofs.tla`.

## 1. The system

Everything runs as separate processes (docker-compose services) that share a
PostgreSQL database and talk to a broker over the MetaAPI REST service. There is
no message bus; processes interact through database rows and through the broker
accounts they share.

| | component | state it keeps | operations | interacts with | section |
|---|---|---|---|---|---|
| A | copy trader, `Telegram_Bot/live_trader.py` | open set and signal records (state store), rows | new signal, reply (close / breakeven / move stop), stale sweep, broker poll, hydrate on start | B, C, Telegram channel | 2 |
| B | broker order client, `Telegram_Bot/metaapi_orders.py` | resolved hosts | plan and place a batch (limit/market, abort), cancel, close, modify, lists, PnL | broker | 4 |
| C | `state_store.py`, `db_persist.py`, `apis_persist.py`, `parse_signals.py` | in-process store; `tg_signals`, `tg_orders`; dashboard rows | get / put, insert / fill / close / conclude rows, load open rows, text recognition | database | 2 |
| D | position monitor, `position_manager/position_monitor.py` | `apis_position`, triggers | every second: match triggers, time exits, commit | database, broker | 5 |
| E | entry manager, `strategies/strategy/entry_manager.py` | the same rows | cap check, broker order, rows and triggers in one transaction | D, F, broker | 5 |
| F | runners, `xauusd_runner.py`, `micro_scalper.py`, `research_runner.py` | last bar, last entry | poll, evaluate a bar, call E | E, H, J | 5 |
| G | challenge runner, `strategies/challenge/` | position, guard (day start, realized, streak), last bar | one tick per H4 bar: start day, reconcile, trail or enter | broker | 3, 7 |
| H | collector, backfill, history load, `shared/tsdb_reader.py` | last candle time, cache files, `ltp` table | poll, insert if new, fill days, page through candles | database, exchange | 6 |
| I | backtest engines and replays, `xauusd_strategies/engine.py`, `research/exec_sim.py`, `btc_research/engine.py`, `backtest/backtest_*.py` | pending orders, open trade, cooldown | one bar after the other | J | 7 |
| J | signal detectors (`s90_*`, ICT, liquidity, Kronos legs, breakouts, Bitcoin), tuning | zones, levels, flags and memories from bar to bar | find a signal on a bar | I, F | 7 |
| K | gates and calendars, `shared/event_gate.py`, `shared/macro_gate.py` | tables, cached yields | build, refresh, ask | J, F | 7 |
| L | research data and reports, `research/`, `backtest/walk_forward.py`, `monte_carlo.py` | files | build and split bars, judge trades | I, J | 7 |

What is hard, and what makes each part correct:

* **A** is one asyncio process in which every database or broker call is a
  suspension point and nothing is locked. Handlers, sweeper and poller each read
  a whole record, suspend, and write the whole record back. It is correct when
  (1) no record calls a slice ended that is still at the broker, (2) nothing live
  is forgotten, also across a restart, (3) one position is held at a time, (4) a
  pending signal may be superseded but never a live one, (5) the open set drains,
  because a signal that stays in it blocks every later one.
* **B** repeats a non-idempotent POST after a timeout, decides once for all
  accounts although each has its own stops level and its own thread, and its abort
  path does not look at the outcome of its own clean-up. It is correct when an
  account ends with all, or none, of its orders - or says so - and the accounts
  mirror each other.
* **C**'s rows are audit data and the source of recovery; it is correct when what
  is open in the rows is tracked.
* **D**/**E**/**F** place or close at the broker around a transaction that may still
  roll back, and check a cap before the row that raises it. They are correct when
  closed rows have no broker position, the cap holds over both, a bar is traded
  once, and a time limit is enforced in the end.
* **G** decides on an equity, a position list and a memory of its own that may all
  disagree. It is correct when it holds one position, never loosens a stop, and
  never admits a trade that can fail the challenge.
* **H**'s writers know nothing of each other and may fail before or after a commit.
  They are correct when each candle is in the table once and whole, whoever wrote
  it, and a reader shows no gap.
* **I**/**J** are sequential, but they carry lists, flags and pending states over long
  sequences of bars: an index that is off by one peeks into the future, a list that
  is not pruned trades a setup twice. They are correct when they find exactly what
  the whole tape holds, without the future, and trades end where the tape says.
* **K**/**L** are correct when a gate is shut exactly on the days and quarters it
  says, and a report or a selection is true of the trades it is about.

Each hazard is listed at its source line in `PROJECT.json` together with the
property that would catch it, or the reason why there is none.

## 2. The copy trader (`CopyTrader.tla`)

**Granularity.** A task gives up control only at `run_in_executor` (the
in-process `MemoryStore` has coroutines that never suspend). So one action is
the effect of one such call, or the code between two of them. `pc[t]` says where
a task is, `local[t]` is the copy of the record it works on, `todo[t]` and
`queue[t]` what its loops have still to visit, `snap[Poller]` what the broker has
answered in this cycle. Tasks are one per channel message (signal or reply), the
sweeper and the poller.

| model | code |
|---|---|
| `broker` | the truth at the broker: each slice (account x take-profit) is none, pending, live, closed or cancelled |
| `store`, `open` | `hft:tg:signal:<id>`, `hft:tg:open` |
| `db` | `tg_signals`, `tg_orders` |
| `Arrive`, `Guard`, `Query`, `Decide`, `Supersede`, `Superseded`, `Submit`, `Track`, `Insert` | `handle_new_signal`, `_classify_open_signals`, `place_order`, one step per broker or database call |
| `BeginClose`, `CloseSlice`, `CloseRecord`, `CloseDb` | `close_order`, shared by sweeper, superseding handler and reply |
| `ReplyClose`, `ReplyModify`, `ModifyRecord` | `handle_reply`, `modify_sl`, `move_to_breakeven` |
| `SweeperWakes`, `SweepNext`, `SweepDone` | `_stale_sweeper`, `sweep_stale_open` |
| `PollerWakes`, `FetchPositions`, `FetchOrders`, `Observe`, `RecordSlice`, `SaveObserved`, `Mirror`, `ConcludeDb`, `PollDone` | `_position_poller`, `reconcile_broker`; `Mirror` is the write-back of the record around a dashboard request |
| `Restart` | process death at any point, then `hydrate_from_db` |
| `Fill`, `Drop`, `Leave`, `Age` | the broker fills or drops an order, closes a position; a signal passes `MAX_OPEN_AGE_SEC` |

`Hazards` switches what the environment may do in an instance: limit entries
(`limit`), messages that arrive while another is handled (`overlap`), failing
queries (`outage`), failing requests (`flaky`), failing rows (`database`), stale
signals (`age`), restarts (`crash`). `MaxBlips` bounds the spurious empty
position lists. A failing call is always also a call that may succeed, and a
read that fails answers `None`, as in the client.

Abstracted: prices, stop values, volumes, PnL and ticket ids; the dashboard's
rows; the `--reset` flag; the wording of messages (a message is a choice of its
effect).

**Properties.**

* `FateSound`: what any record (stored, in the rows, or in a task's hands) calls
  closed or cancelled has left the broker, and what it calls closed was a position.
* `NothingForgotten`: what is pending or live at the broker is in the open set, or
  its placing is under way.
* `OneAtATime`: positions of two signals are never in the market together.
* `SupersedeSparesLive` (action property): the superseding path closes nothing live.
* `RowsAreTracked`: what the rows hold open and the broker still has is in the open
  set, also after a restart.
* `OpenDrains`, `PollerReleasesSeen` (liveness): no signal stays open for ever; the
  poller alone releases a signal whose slices it saw and which are gone.

**Fairness** (`FairSpec`). Each request has a timeout and bounded retries
(`_TIMEOUT`, `_RETRY_ATTEMPTS` in the client), so a task that has started goes on:
weak fairness of each task's steps. Sweeper and poller are `while True` loops
around a sleep, with exceptions caught: weak fairness of their steps. Time passes:
weak fairness of `Age`. Nothing is assumed about messages, fills, or restarts, and
a request may fail every time. `Polling` is one fair formula because it is one
sequential task.

## 3. The challenge runner (`ChallengeRunner.tla`)

One thread, `tick()` once per closed H4 bar. `step` is where the tick is:
`Begin` (mark the bar, read the equity, start the guard's day), `Reconcile` (read
the position list; adopt, or find the tracked position gone), `OnPositionClosed`
(`record_trade`), then `Trail` or `Pass`/`Place`/`PlaceAgain`. Each is one broker request
with the code up to the next; the broker's stop-outs (`NewBar`, `Drift`) come between,
and `Restart` may come at any point. `ChallengeBroker._request` sends a request again when
it meets no answer or a 429/502/503/504, also the one that opens a position, which the
broker may have carried out: its attempts are steps of their own (`tries` of `Attempts`,
each carried out or not), `Place` being the one that is answered. The other requests read,
or set a stop to a given price; repeating them changes nothing, so each is one step. The guard's operators (`can_trade`,
`WithinBudget`, `record_trade`, `daily_loss_limit`, `overall_floor`,
`target_equity`) and `position_size`, `chandelier_trail` carry the code's names.

Data: prices are small integers, money is the gain of the minimum lot per price
unit, rates are per mille, comparisons are multiplied out so that no rounding
is introduced except the rounding down of lots, which the code does too. A bar
carries the signal the indicators give (any), and `reach`, the value of
`atr_mult * atr`. The broker refuses a stop on the wrong side of the price, and
stops a position out at its stop (no slippage beyond it).

`Hazards`: `refused` (with an error, or with a 2xx status that the client takes for
success), `lost` (an attempt to enter is not answered, carried out or not), `unconfirmed`
(the move of a stop is carried out and not answered), `unreadable` position list,
`noequity`, `nopnl`, `drift` (the price moves during a tick), `restart`.

**Properties.**

* `OneEntry`: all positions the account holds are of one entry, alike in direction and
  volume, and there are at most as many as attempts of its order: one if no attempt goes
  unanswered. (With `unreadable` the runner may enter beside a live position.)
* `StopsOnlyTighten` (action property): no step loosens the stop of a position that
  is open at the broker - `live_runner.py:10` "never loosen" - although the runner
  works from the stop it remembers. (With `unconfirmed` it need not hold: the runner goes
  on from an older stop.)
* `FloorHeld`: no position of the last entry can take the account below the overall floor
  by itself: with the balance from before the entry and that one position stopped out at
  its present stop, the account is at or above it. This is what `ChallengeGuard.risk_budget`
  can promise; an entry that was carried out twice risks twice as much, and the guard knows
  nothing of it (section 9). `entry` is the history variable that remembers which positions
  the last entry has opened. (With `unreadable` a second entry may be made, and with `drift`
  the entry may be worse than the price the budget was computed for; then it need not hold.)

The operators at the end of the module (`Abreast`, `FlatToEnter`, `Alike`, `Informed`,
`Covered`) are what these rest on (section 10).

## 4. Orders of a signal (`OrderSubmit`, `SignalBatch`)

One signal is planned once for all accounts (`build_order_plan`), and then each
account sends one order per take-profit (a slice) from a thread of its own. One
action is one attempt of a request together with the code up to the next.

| model | code |
|---|---|
| `BuildPlan`, `OrderPlan`, `StopsFloor`, `NoPlan` | `place_order` and `build_order_plan`: market or pending by the price, stops widened to the strictest account's level (`MinDist`), nothing to do without targets |
| `Start`, `Send`, `Turn` | `submit_signal_orders` and the order of the next slice; `Verdict` is the broker's answer |
| `Again` | `_request`: another attempt after a 429/5xx or a timeout, up to `Attempts` |
| `Reprice`, `Room` | the read of the price for the fallback of an `INVALID_PRICE` limit to market, and the room to the stop it asks for |
| `Ticketed`, `Failed` | the tickets of the batch, and the report of nothing |
| `Undo`, `UndoAgain`, `NextTicket` | the abort: cancel or close what was placed, ticket by ticket. One attempt of a request per step; one that is refused, or fails to the last attempt, is ignored and leaves its order at the broker |
| `PriceMoves`, `Fill` | the market, and the broker filling a limit that the price has reached |
| `job[a].result` | what the call returns: all tickets, or none |

`Faults`, which strike orders, cancels and closes alike: `busy` (a status that is retried,
or no connection), `lost` (carried out, but the answer is lost), `refused`, `noprice`. Two
history variables remember them: `unsure` the accounts one of whose orders got no ticket
(at most `MaxUnsure`), `loose` the orders without a ticket and those whose cancel or close
failed. Left out: volumes, comments, the dry run, missing
credentials, a plan that raises, the end of a position at its stop or target.

**Properties.**

* `MirrorsAligned`: all orders of a signal, on all accounts, share one stop; those of
  one slice share a target, but for a fallback that may only move its own outward.
* `AbortLeavesOnlyFailed`: what an account that reports nothing still holds is a limit that
  filled before its cancel, or an order one of whose own requests failed. So the clean-up
  goes through all tickets whatever becomes of one of them. (It does not say that the
  account is flat: the code ignores the results, section 9.)
* `OneOrderPerSlice`: an account all of whose orders have a ticket, and that reports its
  batch, has exactly one order per slice, in order.
* `ExposureBounded`: however many answers are lost, a slice reaches the broker at most
  `2 * Attempts - 1` times. `_request` repeats a POST that may have been carried out,
  so duplicates exist; the bound is tight, because one attempt of the limit has to be
  the refusal that leads to the market order.
* `SubmissionEnds` (liveness): every account's call returns.
* `KeepsPromise`: the submission implements `SignalBatch`, an abstract specification in
  which slices reach an account in order and the account reports all, only once all
  have reached it, or none. The refinement mapping takes `size` from the plan,
  `reached` from the last order in the account's book, and `report` from its result.

**Fairness** (`FairSpec`): weak fairness of `BuildPlan` and of each account's
`Submit`, since each request has a timeout and its attempts are bounded. The price
and the fills are not fair.

## 5. The trading desk (`Desk`, `EntryManager`, `PositionMonitor`, `TradingDesk`)

`Desk` is what the processes share: the price and the bars that have closed, the
broker's positions with stop and target attached, and the rows. `EntryManager` is
`place_entry` in three steps (`CountRows` against the cap, `SendOrder` to the broker,
`Persist` the rows), `PositionMonitor` the one-second loop (`ReadPrice` asks for the price
over HTTP, then `QueryRows` begins the transaction with the rows that are open by now,
`Visit` handles one of them, `Commit` or `Rollback`), and `TradingDesk` composes them with the runners' loop (`Poll`,
`Restart`). Runners differ in two ways that matter: `xauusd_runner.py` takes its
first bar as a warm-up and never looks again after an entry; the others evaluate the
first bar they see and pause for a cooldown. What a strategy finds in a bar is left
open here, it is modelled in section 7.

`Faults`: a refused order, an order whose answer is lost, rows that are not written
after the order was, a monitor transaction that is rolled back, a close that the
broker does not confirm, and restarts of a runner.

**Properties.**

* `ClosedIsFlat`: what the rows call closed has left the broker, unless the broker did
  not confirm the request to close (`_close` results are recorded anyway, lines
  150-155; such positions carry the history flag `unsure`), or the row was judged by a
  price read before its position was opened: an entry can be made and recorded between the
  monitor's price and its query (`mon.younger`), and that older price may lie beyond the
  new stop or target. Such rows carry the history flag `stale` (section 9).
* `CapHolds`: the positions a strategy has at the broker, recorded or about to be,
  stay within its cap although count, order and rows are three steps and the monitor
  acts between them. Positions that are `unsure` or `stale` come on top: their rows no
  longer count. Without the exemption TLC finds the cap exceeded.
* `OneEntryPerBar`: a bar leads to at most one order within a run of a process, and for
  an `xauusd_runner` across restarts too. (For the others a restart on the same bar
  may trade it twice: the cooldown is in memory only.)
* `TimeExitHappens` (liveness): a position past its time limit is closed in the rows in
  the end, however often its transaction is rolled back.

**Fairness** (`MonitorFairness`): the monitor is a `while True` loop with its
exceptions caught, so weak fairness of `ReadPrice`, `Visit` and `Commit \/ Rollback`. That
some transactions succeed is strong fairness of a query whose transaction will not be
rolled back (`QueryRows(FALSE)`): a database that fails every one for ever refutes the property. Nothing is assumed of
runners and price.

## 6. Market data (`TickTable`, `TickWriters`, `CandleReader`, `MarketData`)

The tape of an instrument is the sequence of its complete candles, `Past` of them at
the start; the exchange also shows the one that is still forming (`TimePasses`
completes it). A
candle is stored as the four ticks it is split into (`Split`), and candles are
rebuilt from ticks by first, max, min and last (`Rebuilt`).

* the live collector: `PollLive` (newest complete candle, if it is new),
  `InsertLive` / `InsertLiveFails`, and a crash with `RestartLive`;
* the day backfill: `FetchDay` through a cache of files, or the pages of the day's window
  (`AskPage`, `AskLastPage`, `PageFails`): each is asked for from where the last one ended,
  *without* the candle it begins with (`includeFirst` is False), and with or without the
  one at its end, which is for the exchange to say; then `InsertDay` in one
  transaction that skips what exists, a crash (`FillDies`) and a rerun;
* the history load: the files that its last date selects (`OpenFile`), each with the candles
  it holds (`Held`), a batch per transaction (`LoadBatch`), a crash (`HistDies`) and a rerun;
* the reader: `BeginFetch`, `FetchPage` (joined by time, up to a cap on pages),
  `FetchFails`, and the result that is kept and served again (`ServeKept`).

`Faults`: requests to the exchange that fail, inserts that fail before and inserts
that fail *after* their commit, crashes between any two steps.

**Properties.**

* `TicksRebuildCandles`: a stored candle has its four ticks once, whoever wrote them
  and in whatever order the writers met, and they give it back. (A candle that closes
  at its open is the exception: `split_candles` keeps neither its high nor its low.)
* `LastIsStored`: the time the collector remembers is that of a candle in the table.
* `FillIsWhole`: a backfill that counted no error has left every candle in the table that
  its pages ask for (`Asked`), although its cache of files may be ahead of the table after
  a crash. The candles that pages begin with are not asked for: the first of each day, and
  one for each further page (section 9).
* `SameCoverage`: after a history load with its `--before` given, every candle of the
  files is in the table. (When the script looks for the date itself, a rerun after a
  crash selects nothing, see section 9: `AutoDate` is FALSE in the run.)
* `FetchIsWhole`: what a fetch shows are complete candles without a gap, reaching from
  the first asked for to at least the newest there was when it began.
* `NewestIsStored` (liveness): the newest candle gets into the table, whatever fails on
  the way, once no newer one takes its place.

**Fairness** (`Fairness`): the collector's loop catches the exceptions of a poll and
sleeps, so weak fairness of its poll; its container restarts (weak fairness of
`RestartLive` while down); inserts do not fail for ever (strong fairness of a
successful insert); time passes. Nothing is assumed of backfill, load or reader.

## 7. The lab (`Lab` and its parts)

The research side is sequential: a program walks over bars and carries lists, flags
and pending states along. All of it shares one frame (`Bars`, which also holds what the
detectors have in common: half hours, bars of the higher time frame): `study` names the
program, `tape` the bars so far, `mem` what its loop keeps, `out` what it has found or
traded. One step appends a bar (any of the study's `Shapes`) and handles it, so that
TLC walks every tape; `Lab` is the disjunction of the studies.

| module | code | what its loop keeps |
|---|---|---|
| `Backtests` | `research/exec_sim.py`, `xauusd_strategies/engine.py`, `btc_research/engine.py` | open trade, pending order, cooldown |
| `InverseFvg` | `s90_inverse_fvg.py` | gaps, filled and violated |
| `LiquiditySweep` | `s90_liqsweep_fvg.py` | the session's running extremes |
| `KillzoneOte` | `s90_killzone_ote.py` | nothing |
| `BreakerRetest` | `s90_breaker.py` | order blocks, breakers |
| `NewsFade` | `s90_news_fade.py` | events seen |
| `AsiaRange` | `s90_asia_range.py` | range of the day, side of the break, its extreme |
| `SigmaReversion` | `s90_sigma_mr.py` | Wilder's average |
| `KronosIndicators`, `KronosBook` | `_kronos_indicators.py`, `kronos_combined_v2.py` and its replay `backtest_combined_v2.py` | the bar each leg fired in, the cached bias of the day |
| `LiquidityPools`, `SweepReplays` | `ict_engine.py`, `liquidity_engine.py`, `scalper_engine.py`; `backtest_engine.py` (VAR1, VAR2), `backtest_micro.py` | open trade, cooldown, the day's count and result |
| `StackTuning` | `research/confluence.py`, `s90_*_tuned.py` | base signals, the stacks tried |
| `CryptoSignals` | `btc_research/strategies.py` | nothing (columns over the whole frame) |
| `TrendBreakout` | `challenge/challenge_xau.py` and its port `kronos_challenge_xau.py` | the last bar seen |
| `MarketGates` | `event_gate.py`, `news_filter.py`; `macro_gate.py` | tables; yields in memory and in two files, the day of the last try |
| `TradeReports` | reports, `walk_forward.py`, `monte_carlo.py`, `validate.py`, `forward_test.py` | |
| `TickBars` | `bar_builder.py`, `cache_loader.py`, `dataset.py`, `data_audit.py` | ticks |

Both directions of a trade are written out in the code; `Facing` turns a bar round so
that a rule for buying is also the rule for selling. Averages are kept whole as sums
(or as multiples by `mem.scale`), and comparisons are multiplied out.

**Properties.** A loop is compared with a definition over the whole tape that has no
state, so that a list pruned too early, a flag not reset or an index off by one shows.

* `ExitIsFirst`, `EndsInTime`: a trade of each engine or replay ends on the first bar
  that reaches its stop or target, as a loss if that bar reaches both, or when its
  time is up; engines hold one at a time.
* `PendingHonest`: `engine.py` fills a pending order on the first bar that reaches it,
  within its life, with no close beyond its cancel level since it was found.
* `SetupsHappened`: each detector finds exactly the setups the tape holds, once (of the
  Asian range: every break that ends in London within its day gives the trade of the day,
  unless there was one before or the break began on a bar that jumped over the range; of
  the breakers: on every bar the oldest that is ready fires); the generators for Bitcoin
  that promise a crossing need one; the port of the challenge's breakouts finds the
  original's, once they are old enough, and no others unless the breaking bar has turned
  the bias. `KillzoneOte` looks at each bar afresh and has nothing to compare with.
* `NoPeeking` (action property): with any other bar that opens at the same price, the
  signals for that bar are the same; a longer frame gives the same entries for the
  bars of a shorter one. Exempt are those that do look ahead: the two detectors with
  the filter of section 9, and the weekly gates. The replays, some of which look at bars
  that are still forming (section 9), are not compared.
* `SignalsAreFair`: stop and target lie on their sides of the entry (all but VAR2).
* `BookFires`: in every minute the book answers with the first ready leg that has not
  fired in its bar, so that none fires twice and none that lost a collision is lost.
* `SelectionIsHonest`: a tuned stack is the one its own rules choose, evaluated on what
  was known at the decision bar; reports count each trade once and their drawdown is
  the largest fall of a run; training data ends before the held-out data; bars of both
  builders agree with the ticks, and the audit sees the gaps it says it sees.
* `GatesHold`: the built calendar has each month's inflation, payroll and spending
  reports once, on a working day at half past eight in New York, and the meetings at
  two, summer time or not; the event gate and the news filter agree on it. The macro
  gate gives one answer all day and asks its provider once at most, does not depend on
  today's unfinished yield, and decides on final closes that are no older than allowed
  unless the day's fetch has failed, also after restarts.

## 8. The runs

All state spaces are explored completely; distinct states in brackets.

| run | shows | instance |
|---|---|---|
| `trader_fate` [1.2M] | `FateSound` | one signal, one account, a reply that modifies, then closes it; limit entries, outages, failing requests and rows, stale signals, restarts |
| `trader_restart` [0.6M] | `TypeOK`, `RowsAreTracked`, `SupersedeSparesLive` | two signals, two accounts, overlap, restarts |
| `trader_one` [1.0M] | `OneAtATime`, `NothingForgotten` | two signals, two accounts, failing queries, no overlap |
| `trader_seen` [66k] | `PollerReleasesSeen` under `FairSpec` | two signals, limit entries |
| `trader_drain` [0.3M] | `OpenDrains` under `FairSpec` | two signals, stale, failing requests |
| `challenge_stop` [1.8M] | `TypeOK`, `StopsOnlyTighten` | three bars, three prices, two reaches, two tickets; refusals, drift, restarts |
| `challenge_floor` [2.0M] | `OneEntry`, `FloorHeld` | four bars, two days, three tickets, two attempts; refusals, entries sent again, unanswered moves of a stop, unreadable equity and PnL, restarts |
| `orders` [0.5M] | section 4, all its properties, under `FairSpec` | a buy with two targets, a sell, one with three targets, one without; two accounts with different stops levels, two prices, two attempts, all faults, lost answers on one account |
| `desk` [0.2M] | section 5, all its properties, under `FairSpec` | one runner of either kind, cap 2, three positions, two prices, three bars, one restart, all faults |
| `collector` [0.2M] | section 6, all its properties, under `FairSpec` | four candles, three a day, three complete at the start, pages of two; each pair of writers, or the reader alone; all faults |
| `lab` [0.8M] | section 7, all its properties | every tape of four to nine bars, out of two to six shapes for each study |
| `replay_is_live` (violated) | section 9 | the instance of `lab` |

**Why the bounds are enough.**

* *Copy trader.* The races are between two tasks over one record and one slice; the
  handler/handler races need two signals, the mirror needs two accounts (one that
  answers and one that does not), and `ConfirmPolls = 2` is the code's default and the
  least value with a confirmation. A second take-profit behaves like a second account,
  so one suffices. The number of polls, sweeps and restarts is unbounded. Safety is
  checked with the hazards whose promise the code makes: e.g. `NothingForgotten`
  excludes failing requests because `close_order` forgets a signal whatever the broker
  answers.
* *Challenge runner.* A stop must be set and moved (three bars) and, for the floor, a
  loss must be followed by entries in the same and the next day (four bars, two per
  day); two attempts let one entry open two positions, and a third ticket is there for the
  next entry; the floor is near enough (15 per mille) that a second entry after a loss is
  refused by the budget alone; prices and reaches are such that the risk-sized and the minimum lot, accepted
  and refused stops, stop-outs at a win and at a loss occur.
* *Orders.* Two targets let an abort follow a placed slice, and three let it go on to a
  second ticket after the first was refused; two accounts with levels 1
  and 0 and two prices make a limit acceptable on one and too close on the other, both
  for the buy and, with no room to its stop, for the sell; two attempts give a repeat.
  The theorems of section 10 hold for every instance.
* *Desk.* A cap of two with three positions lets a third be tried while the monitor
  closes one; with two prices each entry, one unit from its stop and its target, meets the
  one or the other at the next move, so that both kinds of end and a stale judgement by
  either occur; three bars are an entry, its time limit and a bar beyond. Runners share
  nothing but the monitor, so one of either kind suffices.
* *Collector.* Three candles a day and four in all: one day lies in the past, with a page
  that ends within it and one that ends with it, and one is still being collected; two
  writers meet on the same candle, and a page of two with a
  span of three makes a fetch of several pages while candles complete.
* *Lab.* Periods are shortened with the tape, so that each setup, its refusal and its
  expiry fit in: bars of the detectors are half hours, two in a bar of the higher time
  frame; the book has minutes, two in a bar of five and four in a quarter; the tuned
  strategies three bars in an hour, and results in hundredths of the risk; the macro
  gate a bar a day, a mean over two days, days two and three without quotes; the
  calendar's quarters of an hour are those of the real 2025 and 2026, with the months
  built one by one; Bitcoin's frame has a z-score over three bars, a channel of three,
  an average range of two and two weeks; reports have five trades and three windows or
  folds; the data split has four ticks with gaps of 0, 1, 2 or 20 hours around a first
  day in sample and two held out, and frames of 1, 4 and 24 hours; the breakouts have
  eight bars, two in a bar of four hours, a channel of two. Each study begins in hours
  inside and outside of its sessions. The shapes of a
  study (such as a rise, a fall, a bar that spans every level, a gap) are chosen so
  that each branch of its loop is taken, which the coverage of the run confirms.

Symmetry is over signals (safety runs only) and tickets. Deadlock checking is off
where the system may rest: no message comes any more, or the last bar has closed.

## 9. Where code and documentation disagree

One has a run in which TLC finds the counterexample. `replay_is_live`:
`backtest_combined_v2.py` takes every bar that has *opened* by the minute it replays
(line 121), with all the minutes that bar will ever hold, while the live runner drops
the last bar; lines 4-5 call it "replaying EXACTLY what the live runner does".

What else was found while modelling is stated here without a run of its own.

*Trading programs.*

* `_classify_open_signals` (`live_trader.py:689`) fails safe only if *no* account
  answers; a position on the one that does not is superseded and closed. With a
  spurious empty answer, and a limit that fills between the requests for positions and
  for orders, two misses can be faked (555, against 93-95). A position that opens and
  closes before the first poll blocks the guard until the sweep (551). A slice that
  fills and closes between two polls is recorded as cancelled (565); two overlapping
  handlers both find nothing open and both place (746); a limit fills between the
  guard's query and the cancel (755).
* The abort of a batch (`metaapi_orders.py:531-538`) ignores whether its cancels and closes
  succeeded, and the caller takes the empty list for nothing placed: an order whose clean-up
  was refused, or that got no ticket, stays at the broker untracked.
* `challenge/broker.py` says of its ambiguous `None` that the caller "never opens a second
  position blindly" (136-138). But `open_position()` is `None` on an error and `tick()` takes
  that for flat (264), and `_request` (41-57) repeats the order of an entry that was not
  answered: two or three positions of full size may open, whose stops together may pass
  the floor. `challenge/live_runner.py`: the day is started from the equity before reconciliation, so a
  win closed before the day's first tick is counted twice (258, `risk.py:62-63`).
* `build_order_plan` enters at market also when the price is already past the stop.
* `tsdb_reader` returns complete candles only, yet the runners drop the last as "still
  forming" (`xauusd_runner.py:107`, `micro_scalper.py:143`, `research_runner.py:117`):
  signals are a bar late. `challenge/live_runner.py:99-106` describes this very bug as
  fixed there.
* `position_monitor.py:128` says of stop and target that they are "attached at the broker,
  auto-closed there". The price is read (228) before the rows are queried (97), so an entry
  recorded in between may be closed in the rows, as if its target had been met, by a price
  older than itself; the position lives on and the cap no longer counts it.
* `xauusd_runner.py` never resets `_open_local` (70, 158): one trade per process. A time
  exit is closed through the account of the environment although the entry used the
  position's own, and recorded as closed whatever the answer (`position_monitor.py`
  150-155); the unrealized PnL is times 100 (105), the realized is not. The rows keep
  the stop of the signal, the broker the widened one. An entry whose rows fail leaves
  a position nobody watches; a row whose position is gone blocks the cap.
* `connect_db` leaves with `sys.exit`, which the collector's `except Exception` does not
  catch: an outage of the database ends it and its container has to restart it.

*Data.* `_client.py:72-74` calls the window of a day "[midnight_IST(date) - 24 h,
midnight_IST(date))", "exactly one IST day", but each page is requested with `includeFirst`
False (177): the first candle of each day, and of each further page of 5000, is never
fetched, and a backfill without errors leaves these gaps. The backfill's `--end` is called inclusive, but the file of a date holds the day
before its midnight in India; an end in the future caches a partial day for ever.
`DB_COVERAGE_THRESHOLD` is unused. `backfill_ltp_from_history.py` takes the oldest time
in the table as its `--before`, so a rerun after a crash selects nothing (docs 9-10).
`build_bars` keeps the first of two equal ticks, `resample` the last; the audit does not
see a session without ticks.

*Detectors and engines.* `s90_inverse_fvg` (164 against 33-34), `s90_liqsweep_fvg` (115
against 101-102) and `confluence.htf_bias` (126-129) include the bar of the higher
time frame that is still forming. `exec_sim` says "every fill is priced to hurt the
trader", but a gap through the stop fills at the stop. `engine.py` does not look at stop
and target in the bar of the fill, cancels an order by the close of the very bar whose
open would fill it, and drops the last open trade. `btc_research/engine.py` holds one bar
longer than its limit. `vbo` fires on every close at a new high, against
`strategies.py:11-13`; `weekly_trend_state` labels a week by its Sunday 00:00 and so
sees the rest of that Sunday. `news_fade` and `asia_range` ignore some of the arguments
they take. `replay_var2` uses candles that are still forming; its stop may lie on the
wrong side of its entry. `kronos_challenge_xau` calls itself a port of `challenge_xau`,
but reads the bias on the breaking bar, sells on ties, uses an average over 14 bars
instead of 22, and needs 1152 quarters, more than any runner hands it. The bias that
gates legs S02, S06 and S07 needs 25 bars of a day or of four hours, which a window of
260 quarters does not hold, so it is always neutral.

*Gates and reports.* The event calendar ends in May 2026 and the gate is open ever
after; its clock changes are those of 2025. `macro_gate` keeps today's unfinished yield
if it is fetched before the close. Some of the drawdowns begin their peak at 0, others
at the first trade, and the latter hide an initial losing run. Every shuffle of
`monte_carlo.py` ends with the same final PnL. The efficiency of a window that loses
both in and out of sample is positive (`walk_forward.py`). In `forward_test.py` trades
entered before the split and closed after it count in the design window.

## 10. The proofs

A theorem holds for every value of the constants that meets the `ASSUME`s of the
modules: sets of ids are finite where something is counted, `None` is no price, bar or
id (`DeskOK`, `RunnersOK`), a candle's open and close lie between its low and its high
(`TableOK`), a backfill has a day to fill (`WritersOK`), prices, reaches and rates are
numbers and tickets finitely many (`ConstantsOK` of the runner), bars lie between their low
and high, setups have all of their prices and time limits are finitely many (`InputsAreFull`,
`CostsAreCosts` of the engines), yields are numbers and days off belong to the tape
(`YieldsAreNumbers`, `MacroOK`). Of the studies of signals: bars are bars and tapes
finite (`DataAreBars`, `TapesAreFinite`), the rows of their data are sorted by time
(`FrameIsSorted`, `BookIsTimed`), buffers are whole prices (`GapBufferIsPrice`,
`SweepBufferIsPrice`, `BreakerBufferIsPrice`, `AsiaBufferIsPrice`, `OteIsWhole`), events are
times and there are finitely many (`NewsIsScheduled`), a detector looks back over bars that
are there (`BreakerLooksBack`, `ScalpsLookBack`, `RangeIsKnown`), and
periods, weights and sizes are positive (`SomeAverage`, `IctIsPositive`, `TrendIsPositive`,
`PeriodsArePositive`, `CoinOK`, `WarmupIsBars`). Where a theorem needs
more, it says so as a hypothesis of its own with a name; each is listed here together
with what goes wrong without it.

| theorem | property | hypotheses |
|---|---|---|
| `CopyTrader_proofs.TypeCorrect` | `TypeOK` | none |
| `FateSoundHolds` | `FateSound` | `MaxBlips = 0`, `ConfirmPolls >= 2` |
| `NothingIsForgotten` | `NothingForgotten` | `Patient`, `MarketEntries`, `ClosesSucceed`, no `crash` |
| `RowsStayTracked` | `RowsAreTracked` | `Patient`, `MarketEntries`, `ClosesSucceed`, `Reloads` |
| `SupersedesOnlyFlat` | `SupersedeSparesLive` | `MarketEntries`, no `outage` |
| `NoPyramiding` | `OneAtATime` | `Patient`, `MarketEntries`, `ClosesSucceed`, no `crash`, no `overlap` |
| `ChallengeRunner_proofs.TypeCorrect` | `TypeOK` | none |
| `StopsTightenHolds` | `StopsOnlyTighten` | no `unconfirmed` |
| `OneEntryHolds` | `OneEntry` | no `unreadable` |
| `FloorHolds` | `FloorHeld` | no `unreadable`, no `drift` |
| `OrderSubmit_proofs`, six theorems | section 4 | none |
| `TradingDesk_proofs.TypeCorrect`, `OneEntry` | `TypeOK`, `OneEntryPerBar` | none |
| `RowsAreFlat`, `CapIsKept` | `ClosedIsFlat`, `CapHolds` | `WideSetups` |
| `MarketData_proofs.TypeCorrect`, `TicksAreCandles`, `LastIsInTable`, `FillLeavesNoGap`, `FetchHasNoGap` | `TypeOK`, `TicksRebuildCandles`, `LastIsStored`, `FillIsWhole`, `FetchIsWhole` | none |
| `LoadCovers` | `SameCoverage` | `Covering` |
| `Lab_proofs.TradesEndInTime`, `PendingOrdersHonest` | `EndsInTime`, `PendingHonest` | none |
| `EnginesExitFirst` | `ExitIsFirst` | none, for the studies `exec`, `engine` and `btc` |
| `MacroGateIsKept` | `GatesHold` | none, for the study `macro` |
| `LegsFireInTurn` | `BookFires` | none |
| `Signals_proofs.NoSignalIsUnfair` | `SignalsAreFair` | none |
| `NothingPeeks` | `NoPeeking` | none |
| `Setups_proofs.WhatHappenedIsFound` | `SetupsHappened` | none |

### The copy trader

**`TypeCorrect`**: `Spec => []TypeOK`, for every set of signals, accounts,
take-profits, replies and hazards.

**`FateSoundHolds`**: `Spec => []FateSound`, assuming `MaxBlips = 0` and
`ConfirmPolls >= 2` (`Patient`). Both are needed: with one confirming poll a limit that
fills between the two requests is concluded at once, and a spurious empty answer has
the same effect. `FateSound` is not inductive, because the
poller decides on what the broker *was* when it answered and on miss counts that other
tasks carry around. The invariant `IInv` adds: what each record says is consistent
with the broker's truth, where *a positive miss count means that the slice is no longer
pending* (`RecordsSound`); rows and records being built count no misses
(`FreshRecords`); a slice reaches the broker only while its handler places it
(`PlacedOnce`); and the answers in the poller's hands stay true while the broker moves
on (`AnswersSound`): what was shown live has filled, what was in neither list is not
pending, and what already has a miss and is not shown live *is gone*. The last part
must hold for each copy of the record that a task may write back. The proof has one
step per action and uses that the broker's states only move forward.

**`NothingIsForgotten`**, **`RowsStayTracked`**, **`NoPyramiding`** say that the open set
knows what is in the market. Their hypotheses are the code's own limits: a limit that
fills behind a reader's back (`MarketEntries` excludes it), `close_order` forgetting a
signal whose close failed (`ClosesSucceed`: no `flaky`), a slice taken for ended
although it lives (`Patient`). What remains allowed is everything else: queries and rows
that fail, overlapping handlers, replies and sweeps in between, restarts. `FollowInv` is
the inductive invariant:

* `Recorded`: who is at work holds a record, and an open signal has one;
* `Known`: whatever a signal has at the broker is in *each* of its records - stored, in
  the rows, in a task's hands - as a market order. This is what makes it harmless that
  records are written back whole over what others stored meanwhile;
* `Visits`: what is still live of a signal that `close_order` works on is among the
  slices it has yet to visit;
* `Followed`: what is live belongs to an open signal or to one whose orders are just
  being placed, or it is `Lost`: a crash came between the orders and their row.

A signal leaves the open set in two ways: after `close_order`, where `Visits` with
nothing left to visit says that nothing is live, and in the poller, where `Known` and
`RecordsSound` say the same of a record in which all has ended. `NothingForgotten` follows
where there is no crash, so nothing is `Lost`; a crash between the orders and the insert
does forget them. `RowsAreTracked` follows with crashes too, since what is `Lost` has no
row that says submitted; `Reloads` asks that the database answers where the process may
die, for `hydrate_from_db` that cannot read the rows starts with an empty open set.
`OneAtATime` needs two parts more: `Alone` (without overlap one handler is at work),
and `Room`: while a handler classifies and supersedes, what is live is in its queue or is
the signal that it is closing, and when it places nothing is live but its own. `Room` needs
`Followed` at the moment the queue is read from the open set.

**`SupersedesOnlyFlat`** (action property) is about old answers: a handler asks account
after account, decides, and closes one signal after another, all with requests in
between. `Asked` says what survives: of the signals it asked about, what is live is in
the snapshot once its account has answered, and what it supersedes is not live - and
never will be, for with market entries a position that is gone stays gone, and what
has been placed is placed once. An account that does not answer breaks it (section 9).

### The challenge runner

**`TypeCorrect`** has no hypothesis, and its difficulty is in one line: a volume is
computed from the equity, which is a sum over the open positions. `MapThenSumSet` is a
recursive function over the subsets of a set. That there is such a function, that any two
agree, and that it returns integers is shown with the well-founded order of the subsets of
a finite set (`LeastSubset`: of the subsets that fail take a least one), since the
library's induction rules cannot be instantiated. `Stopped` of nothing and of one position
are computed from the same lemmas. `Remembering` says that
a position is found closed only by a runner that remembers one.

**`StopsTightenHolds`**: `Spec => StopsOnlyTighten`, assuming that the move of a stop is
always answered, with everything else allowed: entries sent again, refusals reported as
success, drift, unreadable lists, restarts. The inductive invariant `Abreast` says that the
stop the runner remembers for a position open at the broker is at least as tight as the
broker's; adoption, the ratchet of `chandelier_trail` and a refused modification keep
it, and an unanswered move breaks it: the runner then goes on from an older stop and, after
the ATR has widened, may send one that is looser than the broker's.

**`OneEntryHolds`**: `Spec => []OneEntry`, assuming that the position list can be
read; unanswered orders and restarts are allowed. A bound on what is open is not inductive;
`FlatToEnter` adds that what is open is of the last entry, and that *nothing is open where
the tick may enter* but what the attempts so far have opened. The steps before it keep that,
because between finding the account flat and entering only the runner could open a position.
`Alike` counts: an entry has opened at most one position per attempt made, and since equity,
price and bar stand still between two attempts of one order they are alike. A restart
between two attempts leaves copies behind, which the next tick finds: it adopts one and
enters only when all are gone.

**`FloorHolds`**: `Spec => []FloorHeld`, assuming that the list can be read and that the price
does not move during a tick; refusals, unanswered orders and moves, unreadable equity and
results, and restarts are allowed. The invariant is `FlatToEnter` and `Alike` with `Informed`
(within a tick the last close is the price and, when flat or between two attempts, the
equity read is the balance - so the budget of `ChallengeGuard` is computed from what one
position will really risk) and `Covered`: the account would be at the floor or above also if
the position were stopped out at the stop that the runner *remembers*. `Covered` is needed
because after an unanswered move the remembered stop is not the broker's, the next trail
starts from it, and the broker's stop may loosen, but never beyond the remembered one. A
tighter stop brings no less (`TighterGains`), and an order within the budget risks no more
than the room above the floor (`OrderIsCovered`). The theorem is about one position at a
time; the code has no bound for the copies of an order together, and none is proved.

### The orders of a signal

All for every set of accounts with any stops levels, any signals, prices, faults,
number of attempts and number of accounts with lost answers. (`ConstantsOK` asks only
that there is a strictest level, which a finite set of accounts has.)

* **`TypeCorrect`** (`TypeOK`), **`MirrorsAgree`** (`MirrorsAligned`), **`AbortIsClean`**
  (`AbortLeavesOnlyFailed`) and **`OneEach`** (`OneOrderPerSlice`) follow from
  `IInv`, with four parts, and `AccountInv`, which adds a fifth. `Types` is `TypeOK` with the domains of
  the functions spelt out. `PlanSound` says that the plan gives every slice the same
  stop. `InOrder` says for each account that its orders carry the levels of the plan,
  unless the fallback sent one to market, and that they never run ahead of the slice in
  work. The fallback goes ahead only where the room to the stop is at least the
  strictest level, so that the floor cannot move the stop; this is what makes the
  mirrors agree. `Whole`, for accounts outside `unsure`, says that the n-th order is that
  of slice n, and that the tickets in hand are all the orders while the batch is being sent;
  it cannot hold for accounts with a lost ticket, which `OneOrderPerSlice` excludes.
  `Accounted`, for all accounts, says that each order has a ticket that is still to be
  undone, or is `loose`, or is gone or a limit that has filled (`Left`): an abort works
  through its tickets to the last, whatever becomes of each.
  Each action has a lemma of its own, split by part.
* **`BoundedExposure`** (`ExposureBounded`) counts: while slice `i` is sent, its orders in
  the book are at most the attempts made so far, plus `Attempts - 1` once the limit has
  been given up for the market, since its last attempt was answered by a refusal. That
  a book grows by at most one order in a step is a lemma on the cardinality of index
  sets.
* **`Implements`** (`KeepsPromise`): `Spec => Batch!Spec`. Initial states map to initial
  states; a step of `Send` maps to `Reach`, `ReportAll` or `ReportNone`, or to a stutter
  when a repeated request places the same slice again; `BuildPlan` to `Accept`; the end
  of an abort to `ReportNone`; all others to a stutter. It needs `InOrder`, so that the
  last order of a book tells how many slices have reached it.

### The desk

`Base` needs no hypothesis: types, `Placing` (a process between its order and its rows
holds a position that is its own and has no rows), `Working` (the rows that a transaction
of the monitor works on stay open until it ends), `Room` and `Once`.

* **`OneEntry`** (`OneEntryPerBar`) follows from `Once`: all positions of a runner's
  current run were entered on bars it has seen, those of a run that skips its first bar on
  bars before the restart, and a process that is about to order works on the bar that
  it has seen last, which is newer than all it must not repeat.
* **`RowsAreFlat`** (`ClosedIsFlat`): the monitor never asks the broker whether a position
  whose stop or target fired is closed; it trusts that the broker had the same levels. `Levels`
  says that the rows' levels are the broker's and that the price has not passed
  through those of a position that is still live; `Visiting` says that the price the monitor
  holds has not passed the levels of a live position that was open when it was read
  (`Judged`), so that a row in hand whose stop or target has fired has left the broker
  unless it is `younger` than that price, and that the rows about to be closed have left the
  broker, were closed with an unconfirmed answer, or are such younger ones. The
  hypothesis `WideSetups`, every stop and target at least the broker's minimal distance
  away, is needed for `Levels`: otherwise the broker gets a widened level and the row the
  narrow one, and the monitor closes the row of a position that lives on (section 9).
* **`CapIsKept`** (`CapHolds`): the cap is checked against open rows before the order,
  and the row is written after it. `Room` says that a process on its way from the check to
  its rows has left room for them - only it adds rows for its strategy - and
  `RowsAreFlat` that no position of a closed row is still in the market but the exempt ones.

### Market data

* **`TicksAreCandles`** rests on `SplitIsRebuilt`, a lemma about the pure algorithms for all
  integers: `build_candles` of the ticks that `split_candles` makes of a candle is that candle
  again unless it ends where it began. `Written` says that what is in the table is the
  split of a *complete* candle, whoever wrote it.
* **`LastIsInTable`** from `Collected`: the collector holds a complete candle, and
  remembers one as its last only after it has been committed or found.
* **`FillLeavesNoGap`** from `Filled`: a backfill begins when its days are over, a cached
  day holds all that is asked for of it (`Got`), and the days behind it are stored if it has
  counted no error. Within a day `Paging` says that a page begins at one of the places that
  are not asked for and that everything asked for before it has been gathered, whether or
  not the exchange counts the candle at the end of a page. It holds for any length of
  pages.
* **`FetchHasNoGap`** from `Fetching` and `Kept`: the pages read so far are the candles from the
  first of the span up to some `k`, and `k` is either just before the next page, or the
  newest complete candle came out of a page that ended with the one still forming, which
  may complete while the next page is asked for. Without that second case the invariant is
  not inductive; it is the one place where the market overtakes the reader.
* **`LoadCovers`** (`SameCoverage`): what is not stored of the files gone through is what is
  left of the file in hand (`Covered`). `Covering`, a given date after all of the files, is
  needed: the automatic date is taken from the table itself, and a rerun after a crash
  then selects nothing (section 9).

### The lab

Every study is a disjunct of the same specification, so the invariants say of the others
only that they are others: no step changes the study (`OthersBegin`, `OthersGoOn`).

* **The engines.** The properties look back over the whole tape, while an engine carries
  one trade or order; `EngineInv` says what each bar that has gone by has shown. `Scanned`: no
  bar that the engine has looked at would have ended the trade that runs, and the bar of its
  exit would have ended one that is over, for the reason that it bears. `Timed`: the
  running trade has time left and began after the rest that follows the last one.
  `Waits`: every bar since a pending order was found has left it alive and unfilled, and an
  order that was filled was so until then; it is never kept while a trade runs. The three
  theorems follow for each of `exec_sim.py`, `xauusd_strategies/engine.py` and
  `btc_research/engine.py`, which differ in the first bar they look at (`First`), in
  what a time limit counts and in the cooldown. `EndsInTime` needs that a trade still open on
  the last bar is closed there; `engine.py` alone does not do so and is exempt. `ExitIsFirst`
  speaks also of the replays, whose trades are read off a finished tape by
  sorting sets of signals; there it is left to the run.
* **The book** (`LegsFireInTurn`). `BookInv`: the mark that the book keeps of a leg is the
  bar of one of its answers, and none of its answers has a later bar (`MarksAre`); what
  was answered in each minute so far is the first of the legs ready then that had not
  answered in the same bar, and nothing else (`AnsweredAt`). Marks and answers agree since
  the bars of a leg, of five minutes or a quarter, follow each other in time.
* **Fair signals** (`Signals_proofs.NoSignalIsUnfair`). `FairInv` is one invariant per study. Those
  of the detectors say what the memory holds - zones and blocks with a low and a high, levels
  that are prices, the range of a day - and that the stop and target of
  each signal lie on their sides of the open of the bar that it enters on (`FairList`). That
  they do when a signal is found is mostly a check of the detector's own; what it compares are
  prices, since the sums, means and extremes that they are made of are defined and
  never negative where they are ranges. The replays of the ICT and scalping engines carry
  a trade that was fair when it was opened, and an exit changes none of its prices.
* **No peeking** (`NothingPeeks`). An action property cannot compare two runs, but
  `NoPeeking` compares what a detector, a generator for Bitcoin or a breakout study (not a
  replay) finds on a tape with what would be found on it with another
  last bar. `Twins` are two tapes that agree in all but the last bar, and there in the
  open: each detector has a lemma that twins give the same signals for the last bar. They follow
  the calls down to sums, lists of bars and recurrences, for each of which a lemma of
  `Lab_proofs` says that it depends only on the bars up to its index. For Bitcoin
  (`FrameInv`) and the breakouts (`CausalInv`), which compute columns over a whole frame, the
  invariant says that what has been found is what a frame that ends there gives.
* **What happened is found** (`Setups_proofs.WhatHappenedIsFound`). `FoundLab` joins
  the two invariants with one for each detector that keeps a memory, which says what the
  memory is and that the answers so far list the setups of the tape so far, each once
  (`Lists`). In `InverseFound` the zones are the gaps whose
  age and closes leave them watched (`ZonesBefore`), in `BreakerFound` the young blocks
  and breakers of the tape - at most one block is made on a bar, so that their order is that
  of time -, in `AsiaFound` the range, side and extreme of the day (`DayMemory`), in
  `SigmaFound` Wilder's average, whose recurrence has a closed form in powers of its period, in
  `SweepsFound` the extremes of the session so far. `NewsFound` needs no more than its list.
  What the loop adds on a bar is then what the definition over the tape adds for it
  (`FiredUpTo` and its like), so that the induction is the one of the temporal proof.
  `CrossesOnce` and `PortAgrees` follow from `FrameInv` and `CausalInv`.

  Three statements were found too strong in being proved, in cases that TLC's tapes did not
  reach; they now say what the code does. A port that has
  seen no bar answers nothing (`PortAgrees`). News on a weekend is not
  traded (`NewsSetups`). When a bar has jumped from one side of the Asian range to the
  other, `s90_asia_range.py` counts the break on its new side from the next bar only, and
  only on the same day (`BeginsBreak`; the study has a jump and a second day for it).
* **The gate on yields** (`MacroGateIsKept`). `AllKnown`: each of the three
  series - the two files and the memory - holds days that have begun, and all but its last
  with the final close, also when the provider has answered with today's value on the
  way: it is then the last, and on the next day it may be wrong, but only there. `Answered`: the
  day's answers came from the memory, or from nothing; once one has come from the memory
  the rest of the day's do, since what could replace it needs a stale memory and no try
  today. Files written by the operator and restarts in between are allowed. That
  today's value cannot turn the answer uses only that `GateOpen` looks at yields
  before today and at how many there are. It is the part of `GatesHold` that has state; the
  calendar of events is a table of constants which the run builds and asks in full.

### What is only model-checked

Liveness (fairness and `ENABLED` are outside the prover's reach): `OpenDrains`,
`PollerReleasesSeen`, `SubmissionEnds`, `TimeExitHappens`, `NewestIsStored`. Of the
safety properties, in the lab: `SelectionIsHonest`, since the searches and the
reports are judged by definitions that fold over sets and sequences of trades, and their
truth is by induction over that data, which the provers do not do; the replays in
`ExitIsFirst`, whose trades are sorted out of sets of signals; and, of `GatesHold`, the
calendar of events, a table of constants that the run builds and asks in full. The
proofs about the copy trader and the runner do not cover the instances that their
hypotheses exclude; there TLC has found the violations that section 9 lists.

## 11. Not modelled

Of the modelled components:

* copy trader: the Redis variant of the state store (there every store operation
  suspends), stop history and outcome columns, prices and PnL of the records, `--reset`;
* broker clients: host discovery, volumes, the dry run; the retry of requests other
  than those of a batch of the copy trader and the entry of the challenge runner (of the
  reads, cancels, closes and moves of a stop elsewhere a failing request stands for its last
  attempt: repeating them changes nothing). `CopyTrader` takes a batch as one step, without
  the duplicates that `OrderSubmit` shows it may contain;
* desk: quantities, profit columns, the signal log, closed market hours;
* market data: closed market hours, the retries of one page, the validation script;
* challenge runner: the dry run;
* lab: files, printing, percentiles, the searches over parameters that call the modelled
  functions in loops, and the single-leg files of `backtest_strategies/` that the
  Kronos book repeats; the lock of the macro gate's cache (its readers run in one thread
  in every program that uses it).

Of the rest: the dashboards of the copy trader and the challenge (best-effort rows that
never feed back into trading and never raise), message parsing (regular expressions;
their outcome is a choice in `Arrive`, `ReplyClose`, `ReplyModify`), web pages and their
API, one-off scripts, deployment and `_archive`: they keep no state between steps, or
only show it.

## 12. What is left

1. Proofs of `ExitIsFirst` for the replays, and of the parts of `SelectionIsHonest` whose
   loops can be written along the tape.
2. `Ledger`: an abstract specification of a mirrored signal (placed, filled, ended, never
   revived), refined by `CopyTrader`.
3. The composition of `CopyTrader` with `OrderSubmit`, where a batch that reports none
   has filled.
