---------------------------- MODULE BacktestEngine ----------------------------
(***************************************************************************)
(* BacktestEngine (src/app/analytics/backtest.py): bars replayed through a  *)
(* strategy, the risk manager (RiskRules), the executor in paper mode, the  *)
(* PaperBroker and the TradeStatsAggregator.  The replay is one task, so a  *)
(* bar is one step.                                                         *)
(*                                                                         *)
(* The strategy is any source of signals with the shape SmcStrategy         *)
(* guarantees: entry at the close, stop at least a pip beyond the bar.      *)
(* Prices are in pips, lots in hundredths, money in account units.          *)
(***************************************************************************)
EXTENDS RiskRules, SequencesExt

CONSTANTS
    Symbols,
    BarShapes,            \* the [low, high, close] of the history
    StopPips,             \* distances of a stop beyond the bar
    TargetPips,           \* distances of a target from the entry
    HalfSpread,           \* spread_pips / 2
    Limits,               \* max_trades_per_day and max_daily_loss of Settings
    BarsPerDay,           \* rows of one UTC day
    MaxRows               \* bound: rows of the history

ASSUME BacktestAssumption ==
    /\ \A c \in BarShapes : /\ c.low \in Nat \ {0} /\ c.close \in Nat /\ c.high \in Nat
                            /\ c.low <= c.close /\ c.close <= c.high
    /\ StopPips \subseteq Nat \ {0} /\ TargetPips \subseteq Nat \ {0}
    /\ HalfSpread \in Nat
    /\ Limits \in LimitsType /\ BarsPerDay \in Nat \ {0} /\ MaxRows \in Nat
    /\ QuotePerPipPerLot % 100 = 0       \* a pip of 0.01 lot is whole money
    /\ StartingBalance = AccountBalance  \* both are settings.account_balance

VARIABLES
    book,      \* the executor's open trades, risk manager, statistics, closed_trades
    paper,     \* the PaperBroker: quotes, position per symbol, balance
    rows,      \* history: the bars replayed
    phase      \* "replay", then "done"

vars == <<book, paper, rows, phase>>

Today == Len(rows) \div BarsPerDay

-----------------------------------------------------------------------------
(***************************************************************************)
(* TradeStatsAggregator: record and max_drawdown (as a fraction).  The      *)
(* buckets by session and symbol group the same records.                    *)
(***************************************************************************)
Record(b, x) ==
    [risk |-> b.risk, open |-> b.open, next |-> b.next,
     equity |-> Append(b.equity, Last(b.equity) + x.pnl),
     closed |-> Append(b.closed, x)]

Exceeds(x, y) == x.loss * y.peak > y.loss * x.peak

NoFall == [loss |-> 0, peak |-> 1]

Worse(x, y) == IF Exceeds(x, y) THEN x ELSE y

\* Seeded fault: the peak is the starting balance.
MaxDrawdownFromStart(equity) ==
    LET dd[n \in 0..Len(equity)] ==
            IF n = 0 THEN NoFall
            ELSE Worse([loss |-> StartingBalance - equity[n], peak |-> StartingBalance],
                       dd[n - 1])
    IN  dd[Len(equity)]

\* The loop of max_drawdown after the first 0, 1, 2, ... points of the curve.
DrawdownLoop(equity) ==
    LET acc[n \in 0..Len(equity)] ==
            IF n = 0 THEN [top |-> StartingBalance, dd |-> NoFall]
            ELSE LET top == MaxOf(acc[n - 1].top, equity[n])
                 IN  [top |-> top,
                      dd |-> Worse([loss |-> top - equity[n], peak |-> top],
                                   acc[n - 1].dd)]
    IN  acc

MaxDrawdown(equity) == DrawdownLoop(equity)[Len(equity)].dd

-----------------------------------------------------------------------------
(***************************************************************************)
(* PaperBroker: set_quote and place_order.  An order takes the place of the *)
(* position of its symbol.  Nothing in the application calls close_position *)
(* or cancel_order, so positions stay and the balance never moves.          *)
(***************************************************************************)
SetQuote(p, s, close) ==
    [quotes |-> [p.quotes EXCEPT
                   ![s] = {[bid |-> close - HalfSpread, ask |-> close + HalfSpread]}],
     positions |-> p.positions, balance |-> p.balance]

Fill(p, s, dir) == LET q == CHOOSE x \in p.quotes[s] : TRUE
                   IN  IF dir = "LONG" THEN q.ask ELSE q.bid

PlaceOrder(p, s, id) ==
    [quotes |-> p.quotes, positions |-> [p.positions EXCEPT ![s] = {id}],
     balance |-> p.balance]

-----------------------------------------------------------------------------
(***************************************************************************)
(* Executor.close_trade with the engine's _persist: the risk manager, then  *)
(* closed_trades and the statistics.  The broker is not told.               *)
(***************************************************************************)
Pnl(t, exit) ==
    (IF t.dir = "LONG" THEN exit - t.entry ELSE t.entry - exit)
      * (QuotePerPipPerLot \div 100) * t.lots

Closing(t, exit, reason) ==
    [trade |-> t, pnl |-> Pnl(t, exit), exit |-> exit, reason |-> reason,
     row |-> Len(rows) + 1]

\* The trade leaves the dictionary and the risk manager books its result.
Settle(b, t, day, exit) ==
    [risk |-> AfterTradeClose(b.risk, day, Pnl(t, exit)),
     open |-> [k \in DOMAIN b.open \ {t.id} |-> b.open[k]],
     next |-> b.next, equity |-> b.equity, closed |-> b.closed]

\* Seeded fault: the replay records what _persist has already recorded.
CloseTradeRecordsTwice(b, t, day, exit, reason) ==
    LET x == Closing(t, exit, reason)
    IN  Record(Record(Settle(b, t, day, exit), x), x)

CloseTrade(b, t, day, exit, reason) ==
    Record(Settle(b, t, day, exit), Closing(t, exit, reason))

StopHit(t, c) == IF t.dir = "LONG" THEN c.low <= t.sl ELSE c.high >= t.sl

TargetHit(t, c) == IF t.dir = "LONG" THEN c.high >= t.tp ELSE c.low <= t.tp

\* Seeded fault: the target is tested first.
CheckTradeTargetFirst(b, t, c, day) ==
    IF t.symbol # c.symbol THEN b
    ELSE IF TargetHit(t, c) THEN CloseTrade(b, t, day, t.tp, "take_profit")
    ELSE IF StopHit(t, c) THEN CloseTrade(b, t, day, t.sl, "stop_loss")
    ELSE b

\* The body of the loop of _check_sl_tp.
CheckTrade(b, t, c, day) ==
    IF t.symbol # c.symbol THEN b
    ELSE IF StopHit(t, c) THEN CloseTrade(b, t, day, t.sl, "stop_loss")
    ELSE IF TargetHit(t, c) THEN CloseTrade(b, t, day, t.tp, "take_profit")
    ELSE b

\* _check_sl_tp goes through the trades in the order in which they opened.
SweepLoop(b, c, day) ==
    LET acc[n \in 0..b.next - 1] ==
            IF n = 0 THEN b
            ELSE IF n \in DOMAIN b.open
                 THEN CheckTrade(acc[n - 1], b.open[n], c, day)
                 ELSE acc[n - 1]
    IN  acc

CheckSlTp(b, c, day) == SweepLoop(b, c, day)[b.next - 1]

-----------------------------------------------------------------------------
(***************************************************************************)
(* Executor.handle_signal in paper mode: evaluate, and if accepted _fire.   *)
(***************************************************************************)
RiskSignal(sig) ==
    [metal |-> FALSE, spread |-> {2 * HalfSpread}, riskPips |-> sig.riskPips]

\* Seeded fault: the size is taken at the distance of the target.
LotsForTarget(r, sig) == SizePosition(r, [RiskSignal(sig) EXCEPT !.riskPips = sig.tpPips])

Lots(r, sig) == SizePosition(r, RiskSignal(sig))

Trade(p, c, sig, r, id) ==
    LET sign == IF sig.dir = "LONG" THEN 1 ELSE -1
    IN  [id |-> id, symbol |-> c.symbol, dir |-> sig.dir,
         entry |-> Fill(p, c.symbol, sig.dir),
         sl |-> c.close - sign * sig.riskPips, tp |-> c.close + sign * sig.tpPips,
         lots |-> Lots(r, sig), opened |-> Len(rows) + 1,
         budget |-> (r.currentBalance * RiskPerTradePct) \div 100]

Evaluated(b, r) ==
    [risk |-> r, open |-> b.open, next |-> b.next, equity |-> b.equity,
     closed |-> b.closed]

Opened(b, r, t) ==
    [risk |-> r,
     open |-> [k \in DOMAIN b.open \cup {b.next} |->
                 IF k = b.next THEN t ELSE b.open[k]],
     next |-> b.next + 1, equity |-> b.equity, closed |-> b.closed]

HandleSignal(b, p, c, sig, day) ==
    LET r == AfterEvaluate(b.risk, day, Limits, RiskSignal(sig))
        t == Trade(p, c, sig, r, b.next)
    IN  IF Decide(b.risk, day, Limits, RiskSignal(sig)) # "OK"
        THEN [book |-> Evaluated(b, r), paper |-> p]
        ELSE [book |-> Opened(b, AfterTradeOpen(r, day), t),
              paper |-> PlaceOrder(p, c.symbol, b.next)]

\* The signals the strategy may return on a bar, besides None.
SignalsOn(c) ==
    {[dir |-> d, tpPips |-> tp,
      riskPips |-> margin + (IF d = "LONG" THEN c.close - c.low ELSE c.high - c.close)] :
        d \in {"LONG", "SHORT"}, margin \in StopPips, tp \in TargetPips}

-----------------------------------------------------------------------------
\* __post_init__ and the first lines of run(): everything fresh.
Init ==
    /\ book = [risk |-> FreshManager(0), open |-> [k \in {} |-> 0], next |-> 1,
               equity |-> <<StartingBalance>>, closed |-> <<>>]
    /\ paper = [quotes |-> [s \in Symbols |-> {}], positions |-> [s \in Symbols |-> {}],
                balance |-> StartingBalance]
    /\ rows = <<>> /\ phase = "replay"

\* One row of the replay loop: quote, stops and targets, strategy, order.
Row ==
    /\ phase = "replay" /\ Len(rows) < MaxRows
    /\ \E s \in Symbols, shape \in BarShapes :
         LET c == [symbol |-> s, low |-> shape.low, high |-> shape.high,
                   close |-> shape.close]
             p == SetQuote(paper, s, c.close)
             b == CheckSlTp(book, c, Today)
         IN  /\ rows' = Append(rows, c)
             /\ \/ book' = b /\ paper' = p
                \/ \E sig \in SignalsOn(c) :
                     LET h == HandleSignal(b, p, c, sig, Today)
                     IN  book' = h.book /\ paper' = h.paper
    /\ UNCHANGED phase

\* The end of run(): what is open is closed at the last quote, and recorded
\* again after close_trade's _persist has recorded it.
ForceClose(b, t) ==
    LET b1 == CloseTrade(b, t, (Len(rows) - 1) \div BarsPerDay,
                         Fill(paper, t.symbol, IF t.dir = "LONG" THEN "SHORT" ELSE "LONG"),
                         "backtest_end")
    IN  Record(b1, Last(b1.closed))

FinishLoop ==
    LET acc[n \in 0..book.next - 1] ==
            IF n = 0 THEN book
            ELSE IF n \in DOMAIN book.open
                 THEN ForceClose(acc[n - 1], book.open[n])
                 ELSE acc[n - 1]
    IN  acc

Finish ==
    /\ phase = "replay" /\ rows # <<>>
    /\ book' = FinishLoop[book.next - 1]
    /\ phase' = "done"
    /\ UNCHANGED <<paper, rows>>

Next == Row \/ Finish

Spec == Init /\ [][Next]_vars

-----------------------------------------------------------------------------
(***************************************************************************)
(* Two books of the same trades agree: while the replay runs, the equity    *)
(* curve ends at the risk manager's balance, its peak is the high-water     *)
(* mark and every close is recorded once; the drawdown of max_drawdown is   *)
(* the worst fall between any two points of the curve.  At the end they     *)
(* part: the trades still open are recorded twice, so the result overstates *)
(* their profit or loss by exactly once their sum.                          *)
(***************************************************************************)
ReplayBooksAgree ==
    LET n == Len(book.equity)
        again == {i \in DOMAIN book.closed : \E j \in 1 .. (i - 1) :
                    book.closed[j].trade.id = book.closed[i].trade.id}
        twice == [i \in DOMAIN book.closed |->
                    IF i \in again THEN book.closed[i].pnl ELSE 0]
    IN  /\ book.equity[n] - book.risk.currentBalance
             = RunningSum(0, twice)[Len(book.closed)]
        /\ again = {i \in DOMAIN book.closed :
                      /\ book.closed[i].reason = "backtest_end"
                      /\ i > 1 /\ book.closed[i] = book.closed[i - 1]}
        /\ phase = "replay" =>
             /\ again = {}
             /\ book.risk.highWaterMark = Max({book.equity[i] : i \in 1..n})
             /\ Len(book.closed) + Cardinality(DOMAIN book.open) = book.next - 1

(***************************************************************************)
(* max_drawdown, one pass with a running peak, is the worst relative fall   *)
(* from any point of the equity curve to a later one.                       *)
(***************************************************************************)
DrawdownExact ==
    LET n == Len(book.equity)
        Fall(i, j) == [loss |-> book.equity[i] - book.equity[j], peak |-> book.equity[i]]
        dd == MaxDrawdown(book.equity)
    IN  (\A i \in 1..n : book.equity[i] > 0) =>
          /\ \A j \in 1..n : \A i \in 1..j : ~Exceeds(Fall(i, j), dd)
          /\ dd.loss > 0 => \E j \in 1..n : \E i \in 1..j : Fall(i, j) = dd

(***************************************************************************)
(* A trade leaves at the first later bar of its symbol that reaches a       *)
(* level, at the stop if that bar reaches both, and never on the bar that   *)
(* opened it; what is open has met no such bar.                             *)
(***************************************************************************)
ExitsMatchHistory ==
    LET Hits(t) == {k \in (t.opened + 1) .. Len(rows) :
                      rows[k].symbol = t.symbol /\ (StopHit(t, rows[k]) \/ TargetHit(t, rows[k]))}
    IN  /\ \A i \in DOMAIN book.open : Hits(book.open[i]) = {}
        /\ \A i \in DOMAIN book.closed :
             LET x == book.closed[i]
                 t == x.trade
             IN  IF x.reason = "backtest_end" THEN Hits(t) = {}
                 ELSE /\ Hits(t) # {} /\ x.row = Min(Hits(t))
                      /\ x.exit = IF StopHit(t, rows[x.row]) THEN t.sl ELSE t.tp

(***************************************************************************)
(* No closed trade loses more than the budget it was sized for plus the     *)
(* half spread paid at each end, however far the bar gaps past the stop:    *)
(* _check_sl_tp fills at the stop even when the bar never traded there.     *)
(***************************************************************************)
LossBounded ==
    \A i \in DOMAIN book.closed :
      LET t == book.closed[i].trade
      IN  -book.closed[i].pnl
            <= t.budget + 2 * HalfSpread * (QuotePerPipPerLot \div 100) * t.lots
=============================================================================
