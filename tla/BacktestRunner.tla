---------------------------- MODULE BacktestRunner ----------------------------
(***************************************************************************)
(* run_backtest (src/app/backtesting/runner.py): a second, simpler          *)
(* simulator with at most one open trade, a target of 0.1 %, a stop that    *)
(* moves to break-even at 0.05 %, and a cooldown after each entry.  One row *)
(* of the candle list is one step; the report is made at the end.           *)
(*                                                                         *)
(* A trade keeps its stop as the distance stop from the entry in the        *)
(* direction of the trade (negative: a loss).  Results are thousandths of a *)
(* price unit, so that 0.1 % of an entry is an integer.                     *)
(***************************************************************************)
EXTENDS Sums

CONSTANTS
    BarShapes,       \* the [low, high, close] of the candle list
    StopMargins,     \* distances of a stop beyond the bar
    CooldownBars,    \* cooldown_bars
    Grain,           \* the last digit of round(x, 4)
    MaxRows          \* bound: rows of the candle list

VARIABLES
    openTrade,    \* open_trade: {} or one trade
    trades,       \* trades
    signals,      \* signals_generated
    lastEntry,    \* last_entry_idx
    rows,         \* history: the candles so far
    report        \* {}, or the BacktestResult

vars == <<openTrade, trades, signals, lastEntry, rows, report>>

-----------------------------------------------------------------------------
\* Close of the bar, and its worst price, as gains of the trade.
Gain(t, c) == IF t.dir = "LONG" THEN c.close - t.entry ELSE t.entry - c.close

Worst(t, c) == IF t.dir = "LONG" THEN c.low - t.entry ELSE t.entry - c.high

TargetReached(t, c) == 1000 * Gain(t, c) >= t.entry

\* Seeded fault: the stop follows at the target, not at half of it.
BreakEvenReachedLate(t, c) == 1000 * Gain(t, c) >= t.entry

BreakEvenReached(t, c) == 2000 * Gain(t, c) >= t.entry

\* The stop in force when the bar is tested: already moved by its own close.
StopAfter(t, c) == IF BreakEvenReached(t, c) /\ t.stop < 0 THEN 0 ELSE t.stop

Moved(t, c) == [dir |-> t.dir, entry |-> t.entry, stop |-> StopAfter(t, c),
                opened |-> t.opened, risk |-> t.risk]

\* The inline exit loop: whether the bar ends the trade, and how.
Leaves(t, c) == TargetReached(t, c) \/ Worst(t, c) <= StopAfter(t, c)

Exit(t, reason, pnl, idx) ==
    [trade |-> t, reason |-> reason, pnl |-> pnl, closed |-> idx]

ExitOn(t, c, idx) ==
    IF TargetReached(t, c) THEN Exit(t, "TARGET", t.entry, idx)
    ELSE Exit(Moved(t, c), "SL", 1000 * StopAfter(t, c), idx)

\* The trades a signal of the bar may open.
EntriesOn(c, idx) ==
    {LET risk == margin + (IF d = "LONG" THEN c.close - c.low ELSE c.high - c.close)
     IN  [dir |-> d, entry |-> c.close, stop |-> -risk, opened |-> idx, risk |-> risk] :
        d \in {"LONG", "SHORT"}, margin \in StopMargins}

Init ==
    /\ openTrade = {} /\ trades = <<>> /\ signals = 0
    /\ lastEntry = -9999 /\ rows = <<>> /\ report = {}

\* The strategy sees the bar only after the cooldown, and may find nothing.
Ask(c, idx) ==
    \/ openTrade' = {} /\ UNCHANGED <<signals, lastEntry>>
    \/ /\ idx - lastEntry >= CooldownBars
       /\ \E t \in EntriesOn(c, idx) : openTrade' = {t}
       /\ signals' = signals + 1 /\ lastEntry' = idx

\* One row; idx counts from 0.  With no trade left the strategy is asked, on
\* the bar of an exit too.
Row ==
    /\ report = {} /\ Len(rows) < MaxRows
    /\ \E c \in BarShapes :
         LET idx == Len(rows)
         IN  /\ rows' = Append(rows, c)
             /\ \/ openTrade = {} /\ UNCHANGED trades /\ Ask(c, idx)
                \/ \E t \in openTrade :
                     IF Leaves(t, c)
                     THEN trades' = Append(trades, ExitOn(t, c, idx)) /\ Ask(c, idx)
                     ELSE /\ openTrade' = {Moved(t, c)}
                          /\ UNCHANGED <<trades, signals, lastEntry>>
    /\ UNCHANGED report

-----------------------------------------------------------------------------
Pnls(ts) == [i \in DOMAIN ts |-> ts[i].pnl]

EquityCurve(ts) == RunningSum(0, Pnls(ts))

\* The sum over the trades that won (lost) of their results, and their number.
Over(won, ts, x) ==
    LET part == [i \in DOMAIN ts |-> IF (ts[i].pnl > 0) = won THEN x[i] ELSE 0]
    IN  RunningSum(0, part)[Len(ts)]

Ones(ts) == [i \in DOMAIN ts |-> 1]

\* Seeded fault: the fall from the last peak only.
MaxFallOfLastPeak(ts) ==
    LET peak[n \in 0..Len(ts)] ==
            IF n = 0 THEN 0
            ELSE IF EquityCurve(ts)[n] > peak[n - 1] THEN EquityCurve(ts)[n] ELSE peak[n - 1]
    IN  peak[Len(ts)] - EquityCurve(ts)[Len(ts)]

\* The drawdown loop: one point of the equity curve, and the state after the
\* first 0, 1, 2, ... of them.
FallStep(a, val) ==
    LET peak == IF val > a.peak THEN val ELSE a.peak
    IN  [peak |-> peak, dd |-> IF peak - val > a.dd THEN peak - val ELSE a.dd]

FallLoop(ts) ==
    LET acc[n \in 0..Len(ts)] ==
            IF n = 0 THEN [peak |-> 0, dd |-> 0]
            ELSE FallStep(acc[n - 1], EquityCurve(ts)[n])
    IN  acc

MaxFall(ts) == FallLoop(ts)[Len(ts)].dd

Near(x, y) == 2 * (x - y) <= Grain /\ 2 * (y - x) <= Grain

\* What round(x, 4) may return: of a tie either neighbour, since x is a
\* binary fraction that only comes close to it.
Rounded(x) ==
    LET below == (x \div Grain) * Grain
    IN  {y \in {below, below + Grain} : Near(x, y)}

\* The counts are exact; each sum is rounded by itself.
Reports(ts) ==
    [executed : {Len(ts)},
     wins : {Over(TRUE, ts, Ones(ts))}, losses : {Over(FALSE, ts, Ones(ts))},
     grossProfit : Rounded(Over(TRUE, ts, Pnls(ts))),
     grossLoss : Rounded(-Over(FALSE, ts, Pnls(ts))),
     net : Rounded(EquityCurve(ts)[Len(ts)]), maxDrawdown : Rounded(MaxFall(ts))]

\* The end of the list: an open trade closes at the last close.
Finish ==
    /\ report = {} /\ rows # <<>>
    /\ \/ openTrade = {} /\ UNCHANGED trades
       \/ \E t \in openTrade :
            trades' = Append(trades, Exit(t, "END_DATA", 1000 * Gain(t, rows[Len(rows)]),
                                          Len(rows) - 1))
    /\ \E r \in Reports(trades') : report' = {r}
    /\ openTrade' = {}
    /\ UNCHANGED <<signals, lastEntry, rows>>

Next == Row \/ Finish

Spec == Init /\ [][Next]_vars

-----------------------------------------------------------------------------
(***************************************************************************)
(* What Backtests checks.                                                   *)
(***************************************************************************)
\* The stop of a trade when row k of the candles cs is tested, read off the
\* closes since its entry, and the rows on which it ought to have left.
StopInForce(cs, t, k) ==
    IF \E j \in (t.opened + 1)..k : 2000 * Gain(t, cs[j + 1]) >= t.entry
    THEN 0 ELSE -t.risk

Meets(cs, t) ==
    {k \in (t.opened + 1)..(Len(cs) - 1) :
        \/ 1000 * Gain(t, cs[k + 1]) >= t.entry
        \/ Worst(t, cs[k + 1]) <= StopInForce(cs, t, k)}

(* Every trade leaves at the first later bar that closes at the target or   *)
(* reaches the stop in force, the break-even stop counting from the very    *)
(* bar whose close set it; a target close wins over a stop the same bar     *)
(* reached before.  So a trade never loses more than its first risk, nor    *)
(* wins more than the target, and what is open has met no such bar.         *)
RunnerExitsMatchHistory ==
    /\ \A t \in openTrade : Meets(rows, t) = {}
    /\ \A i \in DOMAIN trades :
         LET x == trades[i]
             t == x.trade
         IN  /\ x.pnl >= -1000 * t.risk /\ x.pnl <= t.entry
             /\ IF x.reason = "END_DATA" THEN Meets(rows, t) = {}
                ELSE /\ x.closed \in Meets(rows, t)
                     /\ \A k \in Meets(rows, t) : x.closed <= k
                     /\ x.pnl = IF 1000 * Gain(t, rows[x.closed + 1]) >= t.entry
                                THEN t.entry ELSE 1000 * StopInForce(rows, t, x.closed)

(* The report is the history up to its four decimals: every signal became   *)
(* one trade, entries lie a cooldown apart and never inside another trade,  *)
(* net and drawdown are the last point and the largest fall of the equity   *)
(* curve to half a digit.  Net is gross profit minus gross loss only to one *)
(* digit, as each of the three is rounded by itself.                        *)
ReportMatchesTrades ==
    \A r \in report :
      LET n == Len(trades)
          equity == EquityCurve(trades)
      IN  /\ r.executed = signals /\ r.wins + r.losses = signals
          /\ Near(equity[n], r.net)
          /\ r.net - (r.grossProfit - r.grossLoss) \in {-Grain, 0, Grain}
          /\ \A i \in 0..n : \A j \in i..n :
               2 * (equity[i] - equity[j] - r.maxDrawdown) <= Grain
          /\ \E i \in 0..n : \E j \in i..n : Near(equity[i] - equity[j], r.maxDrawdown)
          /\ \A i \in 1 .. (n - 1) :
               /\ trades[i].closed <= trades[i + 1].trade.opened
               /\ trades[i + 1].trade.opened - trades[i].trade.opened >= CooldownBars
=============================================================================
