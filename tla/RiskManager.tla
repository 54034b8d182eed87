----------------------------- MODULE RiskManager -----------------------------
(***************************************************************************)
(* The risk manager as its callers see it over several UTC days.            *)
(*                                                                         *)
(* The executor asks evaluate for each signal, places an order for an       *)
(* accepted one, and calls register_trade_open only when the broker has     *)
(* answered: between the two calls the acceptance is "in flight" and the    *)
(* daily counter does not know of it.  At most Slots acceptances are in     *)
(* flight, one per task that can be inside handle_signal.  A trade counted  *)
(* open is closed once.  Any number of trades may be open together.         *)
(*                                                                         *)
(* Executor.tla is shown to implement this specification.                   *)
(***************************************************************************)
EXTENDS RiskRules, Sequences, SequencesExt

CONSTANTS
    Signals,    \* the signals a strategy may produce
    Limits,     \* the values PUT /settings/risk may install
    Pnls,       \* results a closed trade may have
    Slots,      \* tasks that may have an accepted signal in flight
    MaxDay,     \* bound: last UTC day
    MaxOpens    \* bound: trades opened in all

ASSUME RiskManagerAssumption ==
    /\ Signals \subseteq SignalType
    /\ Limits \subseteq LimitsType
    /\ Limits # {}
    /\ Pnls \subseteq Int
    /\ Slots \in Nat \ {0}
    /\ MaxDay \in Nat
    /\ MaxOpens \in Nat

VARIABLES
    rm,         \* the RiskManager object
    now,        \* the UTC date the clock shows
    limits,     \* settings.max_trades_per_day and max_daily_loss_pct
    inFlight,   \* accepted signals whose order is not yet answered
    openCount,  \* trades registered open and not yet closed
    \* History, read by no action:
    results,    \* the day and the pnl of every closed trade, in order
    openDays,   \* the days on which a trade was registered open
    peakCap     \* the highest daily cap configured so far

caller == <<inFlight, openCount>>
history == <<results, openDays, peakCap>>
vars == <<rm, now, limits, caller, history>>

TypeOK ==
    /\ rm \in RiskType
    /\ now \in Nat
    /\ limits \in LimitsType
    /\ inFlight \in 0..Slots
    /\ openCount \in Nat
    /\ results \in Seq([day : Nat, pnl : Int])
    /\ openDays \subseteq Nat
    /\ peakCap \in 1..50

Init ==
    /\ now = 0
    /\ rm = FreshManager(now)
    /\ limits \in Limits
    /\ inFlight = 0
    /\ openCount = 0
    /\ results = <<>>
    /\ openDays = {}
    /\ peakCap = limits.maxTradesPerDay

-----------------------------------------------------------------------------
\* evaluate rejects the signal; handle_signal reports it and returns.
EvaluateReject(sig) ==
    /\ Decide(rm, now, limits, sig) # "OK"
    /\ rm' = AfterEvaluate(rm, now, limits, sig)
    /\ UNCHANGED <<now, limits, caller, history>>

\* evaluate accepts the signal and the caller goes on to place the order.
EvaluateAccept(sig) ==
    /\ inFlight < Slots
    /\ Decide(rm, now, limits, sig) = "OK"
    /\ rm' = AfterEvaluate(rm, now, limits, sig)
    /\ inFlight' = inFlight + 1
    /\ UNCHANGED <<now, limits, openCount, history>>

\* evaluate accepts the signal and the caller parks it (semi-auto mode).
EvaluatePark(sig) ==
    /\ Decide(rm, now, limits, sig) = "OK"
    /\ rm' = AfterEvaluate(rm, now, limits, sig)
    /\ UNCHANGED <<now, limits, caller, history>>

\* The order of an accepted signal failed for good.
Abandon ==
    /\ inFlight > 0
    /\ inFlight' = inFlight - 1
    /\ UNCHANGED <<rm, now, limits, openCount, history>>

RegisterTradeOpen ==
    /\ inFlight > 0
    /\ openCount + Len(results) < MaxOpens
    /\ rm' = AfterTradeOpen(rm, now)
    /\ inFlight' = inFlight - 1
    /\ openCount' = openCount + 1
    /\ openDays' = openDays \cup {now}
    /\ UNCHANGED <<now, limits, results, peakCap>>

RegisterTradeClose(pnl) ==
    /\ openCount > 0
    /\ rm' = AfterTradeClose(rm, now, pnl)
    /\ openCount' = openCount - 1
    /\ results' = Append(results, [day |-> now, pnl |-> pnl])
    /\ UNCHANGED <<now, limits, inFlight, openDays, peakCap>>

\* POST /risk/disable
ForceDisable ==
    /\ rm' = AfterForceDisable(rm)
    /\ UNCHANGED <<now, limits, caller, history>>

\* GET /risk: reading the state rolls the day over.
Snapshot ==
    /\ rm' = Rollover(rm, now)
    /\ UNCHANGED <<now, limits, caller, history>>

\* PUT /settings/risk writes the two settings and nothing else.
UpdateRiskParams(lim) ==
    /\ limits' = lim
    /\ peakCap' = MaxOf(peakCap, lim.maxTradesPerDay)
    /\ UNCHANGED <<rm, now, caller, results, openDays>>

\* Midnight UTC.  Nothing in the process is told of it.
Midnight ==
    /\ now < MaxDay
    /\ now' = now + 1
    /\ UNCHANGED <<rm, limits, caller, history>>

Next ==
    \/ \E sig \in Signals : EvaluateReject(sig)
    \/ \E sig \in Signals : EvaluateAccept(sig)
    \/ \E sig \in Signals : EvaluatePark(sig)
    \/ Abandon
    \/ RegisterTradeOpen
    \/ \E pnl \in Pnls : RegisterTradeClose(pnl)
    \/ ForceDisable
    \/ Snapshot
    \/ \E lim \in Limits : UpdateRiskParams(lim)
    \/ Midnight

Spec == Init /\ [][Next]_vars

-----------------------------------------------------------------------------
(***************************************************************************)
(* Reference definitions over the history.                                  *)
(***************************************************************************)
\* The results of all days, and of one day with those of the others as 0.
AllPnls(s) == [i \in DOMAIN s |-> s[i].pnl]

PnlsOf(s, day) == [i \in DOMAIN s |-> IF s[i].day = day THEN s[i].pnl ELSE 0]

\* A day's losses since its last win; break-even trades do not count.
TrailingLosses(s, day) ==
    Cardinality({i \in DOMAIN s : /\ s[i].day = day /\ s[i].pnl < 0
                                  /\ \A j \in DOMAIN s :
                                       j > i /\ s[j].day = day => s[j].pnl <= 0})

\* The balance after each of the results.
Equity(s) == RunningSum(StartingBalance, AllPnls(s))

-----------------------------------------------------------------------------
(***************************************************************************)
(* Safety.                                                                  *)
(***************************************************************************)

(* The figures the guards read agree with the trades that really opened and *)
(* closed, over any number of days and whenever the lazy rollover happens   *)
(* to run: the balance is the starting balance plus every result,           *)
(* realized_today is the sum of today's results, the high-water mark is the *)
(* highest balance that ever was, the loss streak is the number of today's  *)
(* losses since today's last win, and trading_days_counted is the number of *)
(* finished days with an opening, each counted once, though the rollover    *)
(* that counts a day may run days later.                                    *)
FiguresMatchHistory ==
    /\ rm.currentBalance = Equity(results)[Len(results)]
    /\ rm.realizedToday = RunningSum(0, PnlsOf(results, rm.today))[Len(results)]
    /\ \A k \in 0..Len(results) : rm.highWaterMark >= Equity(results)[k]
    /\ \E k \in 0..Len(results) : rm.highWaterMark = Equity(results)[k]
    /\ rm.consecutiveLosses = TrailingLosses(results, rm.today)
    /\ rm.tradingDaysCounted = Cardinality({d \in openDays : d < rm.today})
    /\ rm.tradingStartDate = IF openDays = {} THEN NoDay ELSE Min(openDays)

(* The daily trade cap as this code enforces it: because an acceptance is   *)
(* counted only when its order is answered, a day may end with as many      *)
(* trades over the cap as there are other tasks inside handle_signal, and   *)
(* never with more.                                                         *)
CapOvershootBound ==
    rm.tradesToday + inFlight <= peakCap + Slots - 1

\* evaluate accepts sig, whatever the caller then does with it.
Accept(sig) == EvaluateAccept(sig) \/ EvaluatePark(sig)

AcceptStep == \E sig \in Signals : Accept(sig)

(* A halt lasts for the rest of the manager's day: neither a winning trade, *)
(* nor a raised limit, nor a snapshot re-enables trading or lets evaluate   *)
(* accept before the day is rolled over.                                    *)
HaltLasts ==
    [][ rm.disabled /\ rm'.today = rm.today
          => rm'.disabled /\ ~AcceptStep ]_vars

(* The consistency rule forbids trading while ahead until earlier days have *)
(* earned a profit: with no profit carried into the day, evaluate accepts   *)
(* nothing while today's realized pnl is positive and the account is up.    *)
NoTradeWhileFirstAhead ==
    [][ AcceptStep =>
          LET r == rm'
          IN  (r.realizedToday > 0 /\ TotalProfit(r) > 0)
                => TotalProfit(r) - r.realizedToday > 0 ]_vars

(* Rounding the size down never risks more than the budget: the loss at the *)
(* stop of an accepted order is at most risk_per_trade_pct of the balance   *)
(* the manager holds, and the size is at least the smallest lot step.       *)
SizeWithinBudget ==
    [][ \A sig \in Signals : Accept(sig) =>
          /\ SizePosition(rm', sig) >= 1
          /\ SizePosition(rm', sig) * sig.riskPips * QuotePerPipPerLot
               <= rm'.currentBalance * RiskPerTradePct ]_vars

=============================================================================
