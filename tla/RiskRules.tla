------------------------------ MODULE RiskRules ------------------------------
(***************************************************************************)
(* The state of one RiskManager object and the effect of each of its        *)
(* methods (src/app/risk/manager.py), as operators on a record.  The        *)
(* manager is synchronous: a method runs to its end between two awaits of   *)
(* its callers, so every method is one operator and one step of whoever     *)
(* calls it.  RiskManager.tla drives the operators alone, Executor.tla      *)
(* drives them from concurrent tasks.                                       *)
(*                                                                         *)
(* Money is an integer number of account-currency units, a percentage is an *)
(* integer number of hundredths, lots are counted in hundredths (the code   *)
(* rounds down to two decimals).  Floats are exact here: rounding errors of *)
(* the double format are abstracted away.                                   *)
(***************************************************************************)
EXTENDS Sums

CONSTANTS
    StartingBalance,      \* starting_balance: what the broker reported
    AccountBalance,       \* settings.account_balance: the configured figure
    RiskPerTradePct,
    MaxConsecutiveLosses,
    MaxTotalDdPct,
    ConsistencyPct,
    MaxSpreadFx,
    MaxSpreadMetals,
    QuotePerPipPerLot,
    NoDay                 \* Python's None for a date

(***************************************************************************)
(* The field validators of Settings, and a broker that reports money.       *)
(***************************************************************************)
ASSUME SettingsAssumption ==
    /\ StartingBalance \in Nat \ {0}
    /\ AccountBalance \in Nat \ {0}
    /\ RiskPerTradePct \in 0..100
    /\ MaxConsecutiveLosses \in 1..10
    /\ MaxTotalDdPct \in 0..100
    /\ ConsistencyPct \in 0..100
    /\ MaxSpreadFx \in Nat
    /\ MaxSpreadMetals \in Nat
    /\ QuotePerPipPerLot \in Nat \ {0}
    /\ NoDay \notin Nat

\* The two settings PUT /settings/risk can change while the bot runs.
LimitsType == [maxTradesPerDay : 1..50, maxDailyLossPct : 0..100]

\* What evaluate reads of a signal.  spread is {} for None and {p} for p pips.
SignalType == [metal : BOOLEAN, spread : SUBSET Nat, riskPips : Nat]

RiskType ==
    [ today : Nat, tradesToday : Nat, realizedToday : Int,
      consecutiveLosses : Nat, disabled : BOOLEAN,
      currentBalance : Int, highWaterMark : Int, highestDayPnl : Int,
      tradingDaysCounted : Nat, tradingStartDate : Nat \cup {NoDay} ]

\* The manager __post_init__ builds on a given day.
FreshManager(day) ==
    [ today |-> day, tradesToday |-> 0, realizedToday |-> 0,
      consecutiveLosses |-> 0, disabled |-> FALSE,
      currentBalance |-> StartingBalance, highWaterMark |-> StartingBalance,
      highestDayPnl |-> 0,
      tradingDaysCounted |-> 0, tradingStartDate |-> NoDay ]

MaxOf(a, b) == IF a >= b THEN a ELSE b

-----------------------------------------------------------------------------
(***************************************************************************)
(* _maybe_rollover: the first call on a new UTC day closes the old one.     *)
(***************************************************************************)
\* Seeded fault: the loss streak survives midnight.
CloseDayKeepsStreak(r, day) ==
    [ r EXCEPT !.today = day, !.tradesToday = 0, !.realizedToday = 0,
               !.disabled = FALSE,
               !.tradingDaysCounted = IF r.tradesToday > 0 THEN @ + 1 ELSE @ ]

CloseDay(r, day) ==
    [ today |-> day, tradesToday |-> 0, realizedToday |-> 0,
      consecutiveLosses |-> 0, disabled |-> FALSE,
      currentBalance |-> r.currentBalance, highWaterMark |-> r.highWaterMark,
      highestDayPnl |-> MaxOf(r.highestDayPnl, r.realizedToday),
      tradingDaysCounted |-> IF r.tradesToday > 0 THEN r.tradingDaysCounted + 1
                                                  ELSE r.tradingDaysCounted,
      tradingStartDate |-> r.tradingStartDate ]

Rollover(r, day) == IF day = r.today THEN r ELSE CloseDay(r, day)

(***************************************************************************)
(* The guards of evaluate, on a manager that has rolled over.               *)
(***************************************************************************)
\* Seeded fault: off by one.
TradeCapReachedLate(r, lim) == r.tradesToday > lim.maxTradesPerDay

TradeCapReached(r, lim) == r.tradesToday >= lim.maxTradesPerDay

LossStreakReached(r) == r.consecutiveLosses >= MaxConsecutiveLosses

\* daily_loss_limit_amount: a share of the configured account_balance.
DailyLossReached(r, lim) ==
    100 * r.realizedToday <= -(AccountBalance * lim.maxDailyLossPct)

DrawdownReached(r) ==
    100 * (r.highWaterMark - r.currentBalance) >= MaxTotalDdPct * r.highWaterMark

TotalProfit(r) == r.currentBalance - StartingBalance

\* Seeded fault: a share of the balance instead of the profit.
ConsistencyOfBalance(r) ==
    /\ TotalProfit(r) > 0
    /\ 100 * r.realizedToday > ConsistencyPct * r.currentBalance

ConsistencyBroken(r) ==
    /\ TotalProfit(r) > 0
    /\ 100 * r.realizedToday > ConsistencyPct * TotalProfit(r)

SpreadTooWide(sig) ==
    \E p \in sig.spread : p > (IF sig.metal THEN MaxSpreadMetals ELSE MaxSpreadFx)

\* Seeded fault: the size is rounded up.
SizeRoundedUp(r, sig) ==
    IF sig.riskPips = 0
    THEN 0
    ELSE 1 + (r.currentBalance * RiskPerTradePct)
               \div (sig.riskPips * QuotePerPipPerLot)

\* _size_position, in hundredths of a lot, rounded down.
SizePosition(r, sig) ==
    IF sig.riskPips = 0
    THEN 0
    ELSE (r.currentBalance * RiskPerTradePct)
           \div (sig.riskPips * QuotePerPipPerLot)

\* The early returns of evaluate, in the order of the code.
RejectReason(r, lim, sig) ==
    IF r.disabled                       THEN "DISABLED"
    ELSE IF TradeCapReached(r, lim)     THEN "DAILY_TRADE_LIMIT"
    ELSE IF LossStreakReached(r)        THEN "CONSECUTIVE_LOSSES"
    ELSE IF DailyLossReached(r, lim)    THEN "DAILY_LOSS_LIMIT"
    ELSE IF DrawdownReached(r)          THEN "TOTAL_DRAWDOWN"
    ELSE IF ConsistencyBroken(r)        THEN "CONSISTENCY_RULE"
    ELSE IF SpreadTooWide(sig)          THEN "SPREAD_TOO_WIDE"
    ELSE IF sig.riskPips <= 0           THEN "INVALID_SIGNAL"
    ELSE IF SizePosition(r, sig) <= 0   THEN "SIZE_TOO_SMALL"
    ELSE "OK"

Reasons == { "OK", "DISABLED", "DAILY_TRADE_LIMIT", "CONSECUTIVE_LOSSES",
             "DAILY_LOSS_LIMIT", "TOTAL_DRAWDOWN", "CONSISTENCY_RULE",
             "SPREAD_TOO_WIDE", "INVALID_SIGNAL", "SIZE_TOO_SMALL" }

\* The rejections that also set _disabled.
HaltingReasons == { "CONSECUTIVE_LOSSES", "DAILY_LOSS_LIMIT",
                    "TOTAL_DRAWDOWN", "CONSISTENCY_RULE" }

-----------------------------------------------------------------------------
(***************************************************************************)
(* The methods: the manager after each call made on the given day.          *)
(***************************************************************************)
Decide(r, day, lim, sig) == RejectReason(Rollover(r, day), lim, sig)

\* Seeded fault: _disabled is assigned from the outcome instead of latched.
AfterEvaluateUnlatched(r, day, lim, sig) ==
    LET r1 == Rollover(r, day)
    IN  [r1 EXCEPT !.disabled = RejectReason(r1, lim, sig) \in HaltingReasons]

AfterEvaluate(r, day, lim, sig) ==
    LET r1 == Rollover(r, day)
    IN  [r1 EXCEPT !.disabled = r1.disabled
                      \/ RejectReason(r1, lim, sig) \in HaltingReasons]

AfterTradeOpen(r, day) ==
    LET r1 == Rollover(r, day)
    IN  [r1 EXCEPT !.tradesToday = r1.tradesToday + 1,
                   !.tradingStartDate = IF r1.tradingStartDate = NoDay
                                        THEN day ELSE r1.tradingStartDate]

\* A break-even trade (pnl = 0) leaves the loss streak as it is.
StreakAfter(streak, pnl) ==
    IF pnl < 0 THEN streak + 1 ELSE IF pnl > 0 THEN 0 ELSE streak

AfterTradeClose(r, day, pnl) ==
    LET r1 == Rollover(r, day)
    IN  [r1 EXCEPT !.currentBalance = r1.currentBalance + pnl,
                   !.realizedToday = r1.realizedToday + pnl,
                   !.highestDayPnl = MaxOf(r1.highestDayPnl,
                                           r1.realizedToday + pnl),
                   !.highWaterMark = MaxOf(r1.highWaterMark,
                                           r1.currentBalance + pnl),
                   !.consecutiveLosses = StreakAfter(r1.consecutiveLosses, pnl)]

\* force_disable does not roll the day over first.
AfterForceDisable(r) == [r EXCEPT !.disabled = TRUE]
=============================================================================
