# A TLA+ development of prop-firm-scalp

prop-firm-scalp is an asyncio trading bot for prop-firm accounts. Market data
become candles, a strategy turns candles into signals, a risk manager accepts
and sizes a signal, an executor sends the order, and a journal, statistics and
notifications record what happened. A dashboard API reads and changes parts of
it at run time. This directory specifies the parts in which ordering, failure
and stale state decide correctness, checks them with TLC on small instances
and proves the main results with TLAPS.

## 1. Inventory

All of it runs in one process and one event loop. A task runs alone between two
`await`s, so data races do not exist, but every `await` is a point where the
world may change.

| Part | State | Operations | Hard because |
|---|---|---|---|
| Risk manager (`risk/manager.py`) | day figures, balance, high-water mark, loss streak, halt flag, trading days | `evaluate`, `register_trade_open/close`, `force_disable`, `snapshot`, lazy rollover | day figures are those of the last call; the halt is latched by `evaluate` only |
| Executor (`execution/executor.py`) | open trades, staged signals | `handle_signal`, `_fire` with 3 attempts, `close_trade`, `confirm/cancel_pending` | check (evaluate) and count (register) are separated by the broker's answer |
| Engine handlers (`engine/orchestrator.py`) | references to all the parts | route stream messages, poller candles, order updates; `_persist_trade` | two feeds call the executor concurrently |
| Engine life cycle | mode, broker, risk manager, executor, stream | `start`, `stop`, `switch_environment` | seven steps with awaits between them, each may fail, and nothing keeps two requests apart; nothing survives a crash |
| Journal (`journal/`) | one row per trade | `save`: upsert (SQLite), select then insert/update (Postgres) | saves of one trade run in two tasks |
| Statistics (`analytics/stats.py`) | recorded trades, equity curve | `record`, `max_drawdown` | fed after the save, so a failing save skips it |
| TradeLocker client (`broker/tradelocker.py`) | access and refresh token, lock, refresh task | `_authenticate`, `_refresh`, refresh loop, `_request` | lock, background task and 401 retries meet |
| WebSocket client (`websocket/client.py`) | connection, stop event, task | `start`, `stop`, `_run`, `_consume` | `stop` comes at any point of the reconnect loop |
| REST poller (`market/rest_poller.py`) | token, instruments, a candle buffer per symbol | login, `_poll`, `_produce_candle`, `start`, `stop` | any request of a tick may fail or find the token expired; the handler may raise |
| Finnhub poller (`integrations/finnhub/`) | last bar handed over per symbol | `_poll_loop`, `get_candles`, `start`, `stop` | the newest bar is still forming; requests and handlers take time |
| Market structure (`strategy/market_structure.py`) | candles, swings, breaks, order blocks, gaps, in bounded deques | `update` of two trackers | creates, reaches and forgets zones in one pass per bar |
| Strategy (`strategy/scalp_smc.py`, `confluence.py`) | candle series, setup, last signal | `on_candle`, score, signal | bars are delivered again while they form |
| Paper broker (`broker/paper.py`) | quotes, positions, balance | `set_quote`, `place_order`, ... | one position per symbol, never told of a close |
| Backtest (`analytics/backtest.py`) | open and closed trades of a replay | replay loop over the real risk manager and executor | same trades in three books |
| Second backtest (`backtesting/runner.py`) | one open trade, a list of trades | `run_backtest` and its report | break-even stop, order of the tests on one bar |
| Dashboard API (`api/`) | references taken at start | kill switch, limits, environment switch | the references grow stale |
| Notifications, Telegram bot, logging, scripts | none of their own | | see section 8 |

What makes each part correct: the risk manager's figures agree with the trades
and a halt lasts; a trade has one owner and its result is booked once; journal
and statistics follow the book; the executor never sends an order the risk
manager did not accept; tokens only get newer and the lock is always given
back; the stream reconnects and can be stopped; after a switch all references
belong to the same environment; candles cover each quote once, quotes are thrown away by
named failures only, and bars come in order; the incremental market structure is the one a reader of the whole chart
would draw, and looks at nothing later than the bar; a backtest's exits,
drawdown and report are those of the history. `PROJECT.json` lists the hazards
line by line with the properties that would catch them.

The parts interact by calls only. A price source or the stream awaits a handler
of the engine; the handler asks the strategy for a signal and awaits the
executor; the executor calls the risk manager, awaits the broker, and awaits
the engine's callback that saves and counts the trade. The dashboard calls into
the risk manager and the engine from tasks of its own.

## 2. Modules

| Module | Models | Composed with |
|---|---|---|
| `Sums` | the running sums of a sequence | used by `RiskRules` and `BacktestRunner` |
| `RiskRules` | the risk manager object as a record, and each method as a function on it | used by `RiskManager`, `Executor` and `BacktestEngine` |
| `RiskManager` | the object with its callers over several days | specification that `Executor` implements |
| `AccountLedger` | abstract: a trade's result enters the balance once, the peak follows | specification that `Executor` implements |
| `Executor` | executor, journal, statistics, broker and order stream, split at awaits | instance of `RiskManager` and `AccountLedger` |
| `TradeLockerAuth` | JWT life cycle around `_auth_lock` | run beside `WebSocketClient` by `MC_Connections` |
| `WebSocketClient` | reconnect loop and `stop()` | |
| `Engine` | which broker/manager/executor the handlers use; switch requests, crash, restart | reduced forms of the above |
| `CandleFeed` | abstract: what the engine expects of a price source | specification that `PriceSource` implements |
| `RestPoller`, `FinnhubPoller` | the two price sources | |
| `PriceSource` | the one `Engine.start` has chosen | instance of both pollers and of `CandleFeed` |
| `MarketStructure` | `update` of the two structure trackers, as operators on a record | used by `SmcStrategy` |
| `SmcStrategy` | `on_candle` over all sequences of bars; the higher-timeframe bias | `MarketStructure` |
| `BacktestEngine` | replay with risk manager, executor, paper broker and statistics | `RiskRules` |
| `BacktestRunner` | the second simulator | |
| `Backtests` | either of the two | instance of `BacktestRunner` |
| `RiskRulesProofs` | lemmas on the operators of `RiskRules` and on numbers | used by the proofs of `RiskManager`, `Executor`, `SmcStrategy` and `BacktestEngine` |
| `RiskManagerProofs`, `ExecutorProofs`, `EngineProofs`, `PriceSourceProofs`, `SmcStrategyProofs` | theorems of the module they are named after | |
| `ConnectionProofs` | theorems of `TradeLockerAuth` and `WebSocketClient` | |
| `BacktestProofs` | theorems of `BacktestEngine` and `BacktestRunner` as `Backtests` runs them | |
| `MC_*`, `*.cfg` | small instances; `MC_Executor` and `MC_SmcStrategy` choose between two, `MC_Connections` between the two clients | |

**RiskRules / RiskManager.** `rm` holds the fields of `RiskManager`; `now` the
UTC date, `limits` the two settings that `PUT /settings/risk` changes. Money is
in whole units, stops in pips, percentages in whole per cent, and a size in
hundredths of a lot: comparisons are cross-multiplied instead of divided, the
rounding down of `_size_position` is kept. `Rollover` is applied where the code
calls `_maybe_rollover`, and not in `force_disable`. `inFlight` counts accepted
signals whose order is unanswered; `results`, `openDays`, `peakCap` are
history.

**Executor.** Tasks are the feeds (the stream consumer `Ws` also gets order
updates) and the trader. `pc` says at which await a task is suspended: the
broker's answer (`placing`), the opening of the journal session (`saving`), the
commit (`committing`); `hung` is a wait for `_auth_lock` that never ends.
`raced` and `unsaved` are history. `mode` is chosen at the start and fixed. An order under
a client order id the broker already knows is the same order. The update
channel may lose, repeat and delay. `FillUpdates` says whether the stream also
reports the fill of an opening order with its price. No code in the repository
calls `confirm_pending`: it is modelled as the method the module's
documentation exposes.

**TradeLockerAuth.** Tasks queue for the lock in order; a task that already
holds it queues too. The server issues numbered tokens, may refuse a refresh,
lose an answer and expire tokens. In the code an uncontended `acquire` does not
suspend; the model has a step there, which only adds interleavings.

**WebSocketClient.** The `websockets` library is modelled as the code uses it
(`closed`, `async for`, messages delivered before the end of the iteration).
Which library release offers the attributes and arguments the code uses is
outside the model.

**Engine.** A risk manager and its executor are created together, an entry of
`stacks`; `broker` is the engine's attribute, `clients` numbers the WebSocket
clients and `running` those whose task runs. `app.state` keeps entry 1. A
switch request is a record in `sw` with the local variables of
`switch_environment`; requests may interleave at each of its awaits. A broker or
stream that closes without suspending does so before any other step
(`Urgent`). The order path is reduced to send, taken by the broker, filled,
given up, closed, fill notice taken for a close, on one UTC day; `taken` and
`held` are the broker's, `lost` is history. `alone` says that no other request was under way during the present or the
latest switch, `overlapped` that two requests ever overlapped. The rest of a
handler after the fill (save, notification) touches no reference and is not a
step of this model.

**RestPoller / FinnhubPoller / PriceSource.** One step per request, hand-over
and sleep. Of the REST poller's candle the prices are kept and the labels left
out; of Finnhub's a bar is its opening time and whether its interval was over
when it was fetched. `unspent`, `given` and `answered` are history;
a price enters `unspent` when it is answered and leaves it when the tick ends
without having used it. `stop()`
cancels the task at whatever await it is, or waits for it, as each class does.

**MarketStructure / SmcStrategy.** Everything is synchronous, so a candle is a
step. Any feed may deliver the next bar, an older one or the same again in
another shape (`NewBar`, `OldBar`), or miss one (`MissedBar`). Prices are
integers and ratios percentages; the average true range is kept
as a sum (`AtrSum`, a running sum over the last bars) and a count (`AtrCount`) so
that comparisons are exact. The code writes each rule
twice, for highs and for lows: the module writes it once and turns the candle
upside down (`Facing`). The HTF bias is modelled as the code has it, although
the application never connects it.

**BacktestEngine / BacktestRunner.** A row of the history is a step. The replay
calls the operators of `RiskRules`, so that the rules are those of live trading.
Loops of the code over open or closed trades are recursive functions of the
position, the accumulator being the book.
Signals are arbitrary ones of the shape the strategy guarantees (`SignalSound`):
the entry is the close, the stop lies beyond the bar by one of the distances
`StopPips` (in the runner `StopMargins`).
The results of the runner are thousandths of a price unit, so that 0.1 % of an
entry is an integer; `Reports` gives every value `round(x, 4)` may take.

## 3. Runs

| Run | Shows |
|---|---|
| `risk_manager` | three days, three trades, four results, two limit settings: figures and trading days equal those recomputed from the history, halts last, the cap overshoots by at most `Slots - 1`, no trade while the first profitable day is ahead, size within budget |
| `executor` | two feeds with retries, lost replies, repeated and lost updates, failing saves; in both modes over midnight on SQLite, and on Postgres with opening fills reported: implements `RiskManager` and `AccountLedger`, one owner per trade, no phantom trade, no order without an acceptance; a closed trade misses its row or the statistics only through an opening save it overlapped or a closing save that raised; each task is released, or hangs behind the token lock |
| `connections` | the REST client: no leaked lock, tokens only get newer, requests end unless a refused refresh has locked itself; the stream: reconnects, is ended by `stop()` only, a `stop()` that sees a connection or a backoff returns |
| `engine` | two switch requests at any time, overlapping ones included, connections that fail, a crash: an undisturbed switch leaves consistent references even after disturbed ones; without overlap a failed one leaves a safe engine, nothing stays behind, nothing is filled through a retired broker, and a position unknown to the bot has one of four causes: its order is in flight, was given up, dates from before a switch or restart, or its fill notice was taken for a close |
| `price_source` | either source with failing requests, expiring tokens, slow and raising handlers and a stop at any time implements `CandleFeed`; quotes are covered once, only a failing login or a raising handler throws some away, bars come once and in order, the token is renewed |
| `strategy` | all sequences of up to five bars of seven shapes, some missed: zones equal those read off the history, nothing looks ahead, each signal is sound; and of six bars of three shapes, one late or repeated in another shape: a bar fires twice only if a bar came late and another bar fired in between |
| `backtests` | all histories of four rows on two symbols (replay) and of five candles (runner) with any admissible signals: exits, losses and drawdown equal those computed from the history, and the report does to its four decimals |

The remaining runs are expected to find a violation; each states a sentence of
the repository's documentation or comments that the code does not keep:

| Run | Sentence | Counterexample |
|---|---|---|
| `auth_refused` | "JWT lifecycle is fully managed" | a refused refresh waits for its own lock |
| `engine_kill_switch` | "disable all new trades for the day" | `app.state` keeps the first risk manager |
| `engine_paper_orders` | "Paper Mode: ... No real orders are placed" | of two overlapping switches out of paper mode the failing one restores the mode, the other one's live executor stays |
| `executor_journal_race` | "re-saving an open trade after it closes simply updates the existing row" | the stream's task saves the close while the poller's task is still saving the open trade; the opening save commits last and the row says OPEN |
| `strategy_late_bar` | "one signal per bar" | a bar fires, the next one fires, the other feed brings the first again: the guard remembers the second only |

Further behaviour that the models have because the code has it, and that a
reader of the documentation would not expect.

Trading:

* the loss-streak breaker is latched by `evaluate` only: losses and a win that
  close with no signal between them never halt anything;
* the "hard daily trade limit" is exceeded by one for each further feed whose
  order is unanswered (`CapOvershootBound`);
* a kill switch pressed after midnight UTC and before the manager's first call
  of the day is cleared by that call's rollover (`ForceDisable` has no
  `Rollover`);
* live modes run the stream and a poller, and the save of an open trade may
  commit after that of the closed one and leave the row OPEN
  (`ResaveUpdatesRow`), or on Postgres make the closing insert fail, which skips
  the statistics; `JournalFollowsClose` and `StatsComplete` say that this
  overlap and a closing save that raised are the only ways;
* an order that meets a 401 while a refused refresh holds `_auth_lock` never
  returns: its feed hangs (`PlaceHangs`), and no market data or order updates
  follow on it. The quote `_on_market_data` asks for before `evaluate` can hang
  in the same way;
* an order whose attempts all raised may have been taken by the broker: the
  position is unknown to the bot (`OrphansHaveCause`);
* `confirm_pending` pops the entry and then compares an aware with a naive
  datetime, a `TypeError`: no staged signal is ever executed (`ConfirmPending`),
  which is also why `NoUnvettedOrder` holds in semi-auto mode, where a repaired
  comparison would fire a signal without asking the risk manager again (the
  mutant of that property);
* the fill notice of an opening order, if the stream sends its price, is taken
  for a close (`BrokerReportsFill`, `FillTakenForClose`): the trade is booked
  and the position stays open, unknown to the bot;
* in paper mode nothing ever closes a trade: only stream updates do, and there
  is no stream. `PaperBroker.close_position` and `cancel_order` have no caller,
  and `slippage_pips` is not used by an order.

Life cycle:

* after a failed switch from a live mode the executor has a closed broker and
  no stream (`ConnectFailed`);
* overlapping switches can leave a stream or a connected broker nobody names
  any more; the properties of `Engine` therefore say `~overlapped` where they
  need it, and `engine_paper_orders` shows the worst outcome;
* a switch leaves positions open, although the settings route's docstring says
  that it closes them, and a restart reads neither the journal nor the broker
  (`Rebuild`, `Started`): they are one of the causes `OrphansHaveCause` names;
* a `stop()` of the WebSocket client during the handshake has nothing to close
  and waits until the connection ends by itself; `StopInterrupts` speaks of the
  other cases.

Market data and strategy:

* the Finnhub poller hands over the newest bar while it still forms and never
  hands it over again, although its module comment promises one call per
  completed bar (`BarsOnceInOrder` says exactly when a bar comes finished);
* a 401 on a quote renews the token and drops that quote; if the login fails
  too, the quotes of the instruments asked before are thrown away
  (`QuotesLostOnlyByException`); a REST source whose start fails leaves the
  engine without a price source;
* stream and poller drive one strategy object and the guard of `on_candle`
  remembers one time only, that of the last signal: a late bar can fire a second
  time (`OneSignalPerBar`; `RefiresOnlyWhenLate` says what the guard does give);
* the points for an order block are never given: a block the price is in has
  just been marked as mitigated, so a signal scores at most 90 (`NoBlockAtEntry`);
* the application never sets the higher-timeframe bias; hourly bars are labelled
  `M60` by one price source and `H1` by the other;
* the target is set at exactly `min_rr` times the risk and then compared with
  `min_rr`: in floating point the tie may be refused, in the model it counts.

Backtests:

* a bar that gaps beyond a stop is filled at the stop (`LossBounded` holds for
  that reason);
* trades still open at the end of a replay are recorded twice
  (`ReplayBooksAgree` says by how much the figures part);
* the runner tests the break-even stop a close has set against the earlier low
  of the same bar (`RunnerExitsMatchHistory`);
* the runner rounds profit, loss, net and drawdown to four decimals each by
  itself: at currency prices net and profit minus loss can differ by the last
  digit, which is a tenth of a target (`ReportMatchesTrades`).

## 4. Bounds

`MaxDay = 2` in `RiskManager` gives a rollover after a trading day, after an
idle day and over a gap of two days; `MaxDay = 1` in `Executor` lets each await
straddle midnight. Two trades and two feeds suffice for each pairwise race, and
a cap of one makes the second acceptance the one in excess; `Slots = 2` in
`RiskManager` matches. The run `executor` chooses one of two instances at its
start: that of the configuration file, and `Filling` of `MC_Executor`, in which
two trades and two feeds race in every way on Postgres on one day (`MaxDay = 0`):
the day plays no role in a save or in an opening fill. The results -3 and 1
(and -2, 0, 1, 8) reach the loss, drawdown, streak and consistency limits for a
balance of 100. Of the three attempts of the code the executor's runs that pass
and the connections have two, which has a first, a last and a retry. Three tokens let two answers be under
way after the first. `MaxExponent = 6` is the code's own saturation of the
backoff, three buffered messages more than one handler call.

`Engine`: `Requests = {1, 2}` and `MaxBrokers = 4` allow three switches in one
process, two of them overlapping at every pair of awaits, before or after one
that does not; `MaxCrashes = 1` puts a restart anywhere; two orders let one be open, lost or
orphaned while the other is in flight across a switch. The two runs that look for
a violation have three.

`PriceSource`: two instruments show that the failure of one does or does not
touch the other; `CandleTicks = 2` has a first, a middle and a last quote of a
candle. Bars of length one and two from time 9 to `MaxClock = 12`, while each
request, handler and sleep may take any time, make bars finish between two
answers or during one, and let one symbol hold up the other. That a poller falls
behind by more than the three bars it asks for needs a longer clock, which is
too large to check: the property claims nothing of the bars lost then.

`SmcStrategy`: with a look-back of one a swing needs three bars, a sweep or
break a fourth and the signal at most a fifth (`MaxBars = 5`); the seven shapes are
the ones that make a swing, a sweep, a displacement or a gap on each side; hour
4 is outside both sessions (`MaxTs = 6`); `ZoneCap = 1` makes the deques forget;
the higher timeframe keeps up (`MaxHtfLag = 0`), and no bar is repeated
(`MaxTicks = 0`). The market with two feeds (`Rejecting` of `MC_SmcStrategy`,
chosen at the start) has three shapes, those of a low that is swept and rejected
again and again, so that each bar may fire, and a sixth bar: four bars make the
first signal, a fifth another, and one delivery that is not new (`MaxTicks = 1`)
is late, repeated or changed. `connections` follows either client: the two
share no state.

`Backtests`: two symbols and two rows per day give a trade of one symbol that
crosses midnight while the other trades; the bar shapes are a quiet one, one on
either side and one that crosses both levels; the five runner candles hold an
entry, a break-even, an exit, the cooldown of two and a second entry. One distance
of the stop from the bar, 1, is enough for the interesting cases, since the bars
already give stops of different length; the proofs hold for any set of distances.
The price of the runner is 10250 units of a ten thousandth, the last digit of the
report (`Grain = 1000` thousandths): two targets there end in half a digit.

Symmetry permutes trade ids (`engine`) or symbols (`backtests`), only in runs
without liveness. Deadlock
is not checked where the system ends: a closed client, a stopped feed, a
history read to its end.

## 5. Fairness

Weak fairness is assumed for the steps of a task that is not waiting for an
outside event: the event loop runs ready tasks, HTTP calls, handshakes and
database calls end with an answer or an exception because the clients have
timeouts, and backoffs and sleeps elapse. The one wait without a timeout is
`_auth_lock`: in `Executor` a step of a placement may also be `PlaceHangs`, so
that `FeedReleased` does not assume that a placement ends, and in
`TradeLockerAuth` the lock is modelled itself. The REST poller's loop has weak
fairness in the same sense (`LoopStep`), and strong fairness of one outcome,
that the login of a tick succeeds (`TokenRenewed`): a server that refuses every
renewal for ever leaves nothing to be said about healing. Of the Finnhub poller
only the end of a cancelled task is fair (`Ending`). `RestPricePoller.stop()`
waits for a tick that may be inside the engine's handler: its return rests on the
handler ending, which an order hung behind `_auth_lock` prevents. None is assumed for
signals, order updates, quotes, the clock, the server or the operator: in
particular a server need not close a connection.

## 6. Proofs

All theorems hold for every value of the constants that meets the modules'
named assumptions; a hypothesis beyond them is part of the theorem.

* `RiskRulesProofs`: what the operators on the manager's record preserve, and
  facts about numbers that several proofs need. `SegmentInduction` is induction
  over an initial segment of the numbers, from the library's `WFMin` (a
  non-empty set of numbers has a least one), with the property given as a set:
  it is how loops written as recursive functions and sums over a history are
  reasoned about. `ProductMonotone`, `ProductSum` and their like are the
  products of unknowns the SMT solver does not do by itself.
* `RiskManagerProofs`: `TypeCorrect`, from lemmas on the type of each record
  operator. `CapOvershoot` uses the inductive invariant that the current cap is
  at most the highest cap configured, and that trades plus flights are within
  that plus `Slots - 1`: an acceptance needs a counter below the cap and a free
  slot, an opening moves one flight to the counter, a rollover only lowers the
  sum. `HaltIsSticky` and `SizingIsSafe` are step arguments over the typed
  state; `FirstGainStops` assumes a consistency limit below 100 per cent.
  `FiguresAreTheHistory` says that the lazily reset figures are those a reader
  of the complete history computes for the day of the last call. Its invariant
  keeps each figure next to its definition over the history and says that no
  result lies after the manager's day; a rollover is right because of the
  latter, an appended result because a sum over the longer history is the sum
  over the shorter one plus the result (`SegmentInduction`).
* `ExecutorProofs`: the invariant `IInv` says, beside the types, that a task
  holds a trade exactly while it is inside an await (`Holding`), that the
  trader's own task never sends an order (`TraderIdle`), that a save under way
  is of a trade the book knows (`SavesKnown`), and `OneOwner` and
  `NoPhantomTrade` themselves: a client order id is in flight, open or closed,
  never two of these. Each action moves one trade between the three.
  `NoUnvettedOrderHolds` is a step argument over the types. From `IInv` follow
  `LedgerImplemented` and `RiskManagerImplemented`: the refinement is checked
  action by action, a failed or retried order being a stutter. Every theorem of
  `RiskManagerProofs` then holds of the executor, through the refinement mapping
  (`RMP`): `DailyCap`, `HaltStopsOrders`, `OrdersWithinBudget` and
  `FiguresUnderConcurrency` are those that say something about the concurrent
  system, for any finite number of feeds, the daily cap exceeded by at most
  their number less one. `JournalFollowsCloseHolds` and `StatsCompleteHolds`
  follow from `RecordInv`, for any number of feeds, either kind of journal and a
  database that may fail: every booked trade without a save under way is either
  recorded (row and statistics) or has an excuse (`Accounted`); only the stream
  closes a trade (`StreamCloses`), and a close that finds another task's opening
  save under way is one of those in `raced` (`OvertakenRaced`).
* `ConnectionProofs`: `LockNeverLeaked` and `TokensAdvance` from one
  invariant: a task inside the lock is its holder, so at most one answer is
  under way, and the token it carries is at least the token in use because the
  token in use never exceeds what was issued. For the stream `HandleCurrent` and
  `OnlyStopEndsTheStream`, in which no number plays a role, and `StreamTyped`.
* `PriceSourceProofs`: the safety of either source, for all symbols, prices, bar
  lengths and clocks. `FeedSafety` is the refinement of `CandleFeed` but for its
  fairness: it needs only that the task lives between `start()` and the return
  of `stop()` (`TaskAlive`). `BarsOnceInOrderHolds` rests on `FinnhubInv`: the
  bars handed over are in order and none is newer than the one the poller
  remembers (`HandedInOrder`), up to that one none is missing of those the next
  answer shows (`NoGap`), while an answer is being looked at its bars are those
  handed over or still in the batch (`Reading`), and the times of complete
  answers say what they settled (`Settled`). That the poller sleeps for a time at
  all, the least of the bar lengths, needs `WFMin` again. `CandleCoversQuotesHolds` rests on `RestInv`: the buffer of
  a symbol is the summary of the prices answered since its last candle (`Fits`),
  except that during a tick the newest of these may be waiting for its turn
  (`Ahead`); that a tick has at most one price per symbol (`OncePerSymbol`) is
  what makes "the newest" right.
  `QuotesLostOnlyByExceptionHolds` is a step argument: of the steps that end a
  tick only three can leave a price unused.
* `EngineProofs`: the four properties of the run `engine`, for any number of
  trades, requests, brokers and restarts. None of them is inductive: that a
  finished switch leaves the references of one environment depends on what each
  of its steps found. The invariant `IInv` says, beside the types, which
  brokers a switch remembers (`Ranges`); that whoever awaits an order is a
  running feed on a live broker (`Callers`); for an undisturbed switch, where
  `ws`, `mode` and `broker` are at each of its points (`Undisturbed`, under
  `alone`); that retired brokers and streams stay closed, and what a failing
  switch returns to (`Retired`, `Fallback`, under `~overlapped`); and that a
  quiet engine whose latest switch was undisturbed and succeeded is wired of a
  piece (`Wired`). There is one lemma per action. `SwitchSettles` and
  `NothingStays` follow from it at once. `RetiredFillsNothing` adds that an
  order is filled only where the executor's broker is connected, which without
  overlap is the newest; `OrphansHaveCauseHolds` that an order the broker takes
  is in flight, and that a flight ends with its trade registered or lost.
* `SmcStrategyProofs`: type correctness of both structure trackers for all bars,
  look-backs and deque lengths, from one lemma per operator of `MarketStructure`
  (what a bounded deque keeps, what a break, a sweep, a block and a gap are).
  The invariant `IInv` adds that a wired bias is that of the higher timeframe
  (`BiasFollows`), that the guard of `on_candle` remembers the time of the last
  signal, that two signals in a row are of different bars, and that the signals
  are in order of time as long as no bar came late (`FiredInOrder`), and
  that the newest bar lies in no active block (`BlocksClear`): a block the price
  has reached was mitigated by the same `update`, so its points are never
  given. `RefiresOnlyWhenLateHolds` and `NoBlockAtEntryHolds` follow from it;
  `SignalSoundHolds` adds the geometry of entry, stop and target,
  `EventsUseOldSwingsHolds` that each break or sweep of a bar is of a swing that
  was in force before the bar, i.e. that nothing looks ahead.
  `ZonesMatchHistoryHolds` compares the bar-by-bar updates with definitions that
  see the whole history at once. Its invariant `HistoryInv` says that the candle
  deque is the end of the bars and, while the bars have come in order (`HistoryKept`),
  that the swings are the newest pivots of the
  history (`SwingsAre`) and blocks and gaps are the newest zones born, each
  active unless a bar has reached its edge (`ZonesAre`). `StructureAfterBar` is
  the step, put together from one lemma per detector (`SwingsAfterBar`,
  `BreakIsRef`, `BlockAdded`, `GapsAdded`), one for a deque that takes a zone in
  (`ZonesGrow`) and one for a bar that ends zones (`ZonesMarked`);
  `BlocksAfterBar` and `GapsAfterBar` join them for each deque. The theorem
  has two hypotheses. `DequesSuffice`: the candle deque is at least as long as
  the windows read from it; the code keeps 512 candles, the windows are 10 and
  14 bars and twice the look-back. `SwingsRemembered`: the swing deque has room
  left or still holds a swing of either side. Without the second the property
  is false, since after as many lows in a row as the deque has places the last
  high is forgotten (with `SwingCap = 1` instead of 50 TLC shows it within
  seconds); with it the theorem covers histories far longer than the run's.
* `BacktestProofs`: the four properties of the replay, for any histories,
  symbols and limits. `BacktestInv` says during the replay (`Good`) that every
  open trade is sized within the risk budget, has its levels on the proper
  sides, was hit by no bar since its entry and is the newest order of its
  symbol at the paper broker, and of every closed trade that its loss is within
  the budget and its exit is the first hit; at the end (`Ended`) that the
  remaining trades leave at the last quote. One bar closes several trades in a
  loop, whose invariants are `Swept` for the loop of a bar and `Closed` for that
  at the end. `DrawdownExactHolds` compares the one-pass loop of
  `max_drawdown` with the largest fall over all pairs of points, `Peaked` being
  the loop's invariant and fractions compared by cross-multiplication.
  `ReplayBooksAgreeHolds` compares risk manager, broker and statistics:
  `Booked` says that during the replay the three agree trade by trade, `Doubled`
  that each trade left at the end stands twice in the statistics, once in the
  manager's balance, next to each other (`Twins`), and that the difference of
  the books is the sum of the second ones (`Surplus`).
  For the second simulator `RunnerInvariant` says that inside the loop
  (`InLoop`) every recorded exit is the one the candles demand (`Left`), entries
  are a cooldown apart (`Spaced`), and there is either no open trade (`Idle`) or
  one (`Carries`) that has met no exit and whose stop is the one the closes since
  its entry imply (`Running`); the stop the code mutates in place thus equals
  the one read off the history. `RunnerExitsMatchHistoryHolds` follows. For
  `ReportMatchesTradesHolds`, `Fell` is the invariant of the drawdown loop, and
  `OverBoth` splits a sum over the trades into that of wins and that of losses;
  `RoundedIs` and `OneDigit` say what the rounding of one figure and of three
  leaves of an equation.

Assumptions beside the types: the stream consumer is one of the feeds and the
feeds are finitely many (`ExecutorAssumption`); prices of a history are natural
numbers with the close inside the bar, a pip of a hundredth of a lot is whole
money, and both balances are the one setting (`BacktestAssumption`); the candles
of the runner are of the same kind and its stops lie outside the bar
(`RunnerAssumption`); the lists of instruments and symbols have no repetition
where they are the keys of a dictionary, there is at least one symbol, and there
are bars from before `start()` (`PriceSourceAssumption`).

Only model-checked:

* all liveness, and with it the return of `stop()` in `ImplementsFeed` and the properties
  `FeedReleased`, `TokenHeals`, `RequestEnds`, `Reconnects` and
  `StopInterrupts`: fairness and `ENABLED` are outside the prover's reach.

`TypeOK` of `RiskManager`, `TradeLockerAuth` and `Engine` and `StreamTypeOK` of
`WebSocketClient` are proved as part of their invariants and therefore in no
run. `ZonesMatchHistory` is proved under the two hypotheses given above; that the
swing deque of 50 always remembers a swing of either side is not claimed.

## 7. Seeded faults

Each property of a passing run has a mutant: an operator defined just before
the mapped definition, marked "Seeded fault", that changes it as a plausible
mistake in the code would. No specification uses these operators.

## 8. Not modelled, and why

* Notifications, the Telegram bot, the read-only routes, logging and the scripts
  are output or entry points without state of their own; `scripts/run_bt.py` is
  an exploratory backtest outside the application.
* `Engine.stop` calls the stop and close methods of the parts in sequence; the
  parts' own models have them.
* The buckets of the statistics by session, symbol and day, the last prices the
  dashboard shows, and the labels of a candle are for display.
* Loading CSV files, the backtests' command line, the printed reports, and
  Finnhub's `get_price`, which has no caller.
* Message parsing and order payloads are abstracted to their meaning.
* Floating-point rounding: money and prices are integral, ratios exact. The
  rounding of the runner's report to four decimals is modelled, a tie going
  either way.

## 9. Plan

Done: all the models of section 2, and the proofs of section 6. Left:

1. `Engine.stop` while a switch is under way.
