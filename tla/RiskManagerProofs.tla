-------------------------- MODULE RiskManagerProofs --------------------------
(***************************************************************************)
(* Theorems about RiskManager, for every value of the settings, any number  *)
(* of days and trades and any number of in-flight slots.                    *)
(***************************************************************************)
EXTENDS RiskManager, RiskRulesProofs

-----------------------------------------------------------------------------
LEMMA TypeInit == Init => TypeOK
  <1> SUFFICES ASSUME Init PROVE TypeOK
    OBVIOUS
  <1>1. rm \in RiskType
    BY SettingsAssumption DEF Init, FreshManager, RiskType
  <1>2. limits \in LimitsType /\ peakCap \in 1..50
    BY RiskManagerAssumption DEF Init, LimitsType
  <1> QED
    BY <1>1, <1>2, RiskManagerAssumption DEF Init, TypeOK

LEMMA TypeStep == TypeOK /\ [Next]_vars => TypeOK'
  <1> SUFFICES ASSUME TypeOK, [Next]_vars PROVE TypeOK'
    OBVIOUS
  <1> USE DEF TypeOK, caller, history
  <1>1. ASSUME NEW sig \in Signals, EvaluateReject(sig) PROVE TypeOK'
    BY <1>1, EvaluateType DEF EvaluateReject
  <1>2. ASSUME NEW sig \in Signals, EvaluateAccept(sig) PROVE TypeOK'
    <2>1. rm' \in RiskType
      BY <1>2, EvaluateType DEF EvaluateAccept
    <2>2. inFlight' \in 0..Slots
      BY <1>2, RiskManagerAssumption DEF EvaluateAccept
    <2> QED
      BY <1>2, <2>1, <2>2 DEF EvaluateAccept
  <1>3. ASSUME NEW sig \in Signals, EvaluatePark(sig) PROVE TypeOK'
    BY <1>3, EvaluateType DEF EvaluatePark
  <1>4. CASE Abandon
    BY <1>4, RiskManagerAssumption DEF Abandon
  <1>5. CASE RegisterTradeOpen
    <2>1. rm' \in RiskType
      BY <1>5, OpenType DEF RegisterTradeOpen
    <2>2. inFlight' \in 0..Slots /\ openCount' \in Nat /\ openDays' \subseteq Nat
      BY <1>5, RiskManagerAssumption DEF RegisterTradeOpen
    <2> QED
      BY <1>5, <2>1, <2>2 DEF RegisterTradeOpen
  <1>6. ASSUME NEW pnl \in Pnls, RegisterTradeClose(pnl) PROVE TypeOK'
    <2>1. pnl \in Int
      BY RiskManagerAssumption
    <2>2. rm' \in RiskType
      BY <1>6, <2>1, CloseType DEF RegisterTradeClose
    <2>3. openCount' \in Nat
      BY <1>6 DEF RegisterTradeClose
    <2>4. results' \in Seq([day : Nat, pnl : Int])
      BY <1>6, <2>1 DEF RegisterTradeClose
    <2> QED
      BY <1>6, <2>2, <2>3, <2>4 DEF RegisterTradeClose
  <1>7. CASE ForceDisable
    <2>1. rm' \in RiskType
      BY <1>7 DEF ForceDisable, AfterForceDisable, RiskType
    <2> QED
      BY <1>7, <2>1 DEF ForceDisable
  <1>8. CASE Snapshot
    BY <1>8, RolloverType DEF Snapshot
  <1>9. ASSUME NEW lim \in Limits, UpdateRiskParams(lim) PROVE TypeOK'
    <2>1. lim \in LimitsType /\ lim.maxTradesPerDay \in 1..50
      BY RiskManagerAssumption DEF LimitsType
    <2>2. peakCap' \in 1..50
      BY <1>9, <2>1 DEF UpdateRiskParams, MaxOf
    <2> QED
      BY <1>9, <2>1, <2>2 DEF UpdateRiskParams
  <1>10. CASE Midnight
    BY <1>10 DEF Midnight
  <1>11. CASE UNCHANGED vars
    BY <1>11 DEF vars
  <1> QED
    BY <1>1, <1>2, <1>3, <1>4, <1>5, <1>6, <1>7, <1>8, <1>9, <1>10, <1>11 DEF Next

(* Every reachable state of the manager and of its callers is well typed:   *)
(* counters never go negative and never more than Slots acceptances are in  *)
(* flight.                                                                  *)
THEOREM TypeCorrect == Spec => []TypeOK
  BY TypeInit, TypeStep, PTL DEF Spec

-----------------------------------------------------------------------------
(***************************************************************************)
(* The daily cap.  The bound is inductive only together with the fact that  *)
(* the cap in force is never above the highest cap configured: an           *)
(* acceptance knows tradesToday < cap and inFlight < Slots, and a rollover  *)
(* leaves at most Slots acceptances of the old day in flight.               *)
(***************************************************************************)
CapInv ==
    /\ CapOvershootBound
    /\ limits.maxTradesPerDay <= peakCap

LEMMA CapStep == TypeOK /\ CapInv /\ [Next]_vars => CapInv'
  <1> SUFFICES ASSUME TypeOK, CapInv, [Next]_vars PROVE CapInv'
    OBVIOUS
  <1> USE DEF TypeOK, CapInv, CapOvershootBound, caller, history
  <1>0. /\ Slots \in Nat /\ Slots >= 1
        /\ rm.tradesToday \in Nat
        /\ Rollover(rm, now).tradesToday \in Nat
        /\ Rollover(rm, now).tradesToday <= rm.tradesToday
        /\ limits.maxTradesPerDay \in 1..50
    BY RiskManagerAssumption, RolloverType, RolloverCount DEF RiskType, LimitsType
  <1>1. ASSUME NEW sig \in Signals, EvaluateReject(sig) PROVE CapInv'
    BY <1>0, <1>1, EvaluateFields DEF EvaluateReject
  <1>2. ASSUME NEW sig \in Signals, EvaluateAccept(sig) PROVE CapInv'
    <2>1. Decide(rm, now, limits, sig) = "OK"
      BY <1>2 DEF EvaluateAccept
    <2>2. ~TradeCapReached(Rollover(rm, now), limits)
      BY <2>1, AcceptedGuards
    <2> DEFINE n == Rollover(rm, now).tradesToday
               cap == limits.maxTradesPerDay
    <2>3. ~(n >= cap)
      BY <2>2 DEF TradeCapReached
    <2>4. rm'.tradesToday = n
      BY <1>2, EvaluateFields DEF EvaluateAccept
    <2>5. inFlight < Slots /\ inFlight' = inFlight + 1
      BY <1>2 DEF EvaluateAccept
    <2>6. UNCHANGED <<limits, peakCap>>
      BY <1>2 DEF EvaluateAccept
    <2>7. n \in Nat /\ cap \in 1..50 /\ cap <= peakCap
      BY <1>0
    <2> HIDE DEF n, cap
    <2>8. n + (inFlight + 1) <= peakCap + Slots - 1
      BY <1>0, <2>3, <2>5, <2>7
    <2> QED
      BY <2>4, <2>5, <2>6, <2>8
  <1>3. ASSUME NEW sig \in Signals, EvaluatePark(sig) PROVE CapInv'
    BY <1>0, <1>3, EvaluateFields DEF EvaluatePark
  <1>4. CASE Abandon
    BY <1>0, <1>4 DEF Abandon
  <1>5. CASE RegisterTradeOpen
    <2>1. rm'.tradesToday = Rollover(rm, now).tradesToday + 1
      BY <1>5, OpenFields DEF RegisterTradeOpen
    <2>2. inFlight' = inFlight - 1 /\ UNCHANGED <<limits, peakCap>>
      BY <1>5 DEF RegisterTradeOpen
    <2> QED
      BY <1>0, <2>1, <2>2
  <1>6. ASSUME NEW pnl \in Pnls, RegisterTradeClose(pnl) PROVE CapInv'
    <2>1. pnl \in Int
      BY RiskManagerAssumption
    <2> QED
      BY <1>0, <1>6, <2>1, CloseFields DEF RegisterTradeClose
  <1>7. CASE ForceDisable
    <2>1. rm'.tradesToday = rm.tradesToday
      BY <1>7 DEF ForceDisable, AfterForceDisable, RiskType
    <2> QED
      BY <1>0, <1>7, <2>1 DEF ForceDisable
  <1>8. CASE Snapshot
    BY <1>0, <1>8 DEF Snapshot
  <1>9. ASSUME NEW lim \in Limits, UpdateRiskParams(lim) PROVE CapInv'
    <2>1. lim.maxTradesPerDay \in 1..50
      BY RiskManagerAssumption DEF LimitsType
    <2> QED
      BY <1>0, <1>9, <2>1 DEF UpdateRiskParams, MaxOf
  <1>10. CASE Midnight
    BY <1>10 DEF Midnight
  <1>11. CASE UNCHANGED vars
    BY <1>11 DEF vars
  <1> QED
    BY <1>1, <1>2, <1>3, <1>4, <1>5, <1>6, <1>7, <1>8, <1>9, <1>10, <1>11 DEF Next

(* However many tasks race through handle_signal, the trades registered on  *)
(* a day plus the orders in flight never exceed the highest configured cap  *)
(* by more than the number of tasks minus one.                              *)
THEOREM CapOvershoot == Spec => []CapOvershootBound
  <1>1. Init => CapInv
    <2> SUFFICES ASSUME Init PROVE CapInv
      OBVIOUS
    <2>1. limits.maxTradesPerDay \in 1..50 /\ rm.tradesToday = 0
      BY RiskManagerAssumption DEF Init, LimitsType, FreshManager
    <2>2. inFlight = 0 /\ peakCap = limits.maxTradesPerDay
      BY DEF Init
    <2> QED
      BY <2>1, <2>2, RiskManagerAssumption DEF CapInv, CapOvershootBound
  <1>2. CapInv => CapOvershootBound
    BY DEF CapInv
  <1> QED
    BY <1>1, <1>2, TypeCorrect, CapStep, PTL DEF Spec

-----------------------------------------------------------------------------
(* Once disabled, the manager stays disabled and accepts nothing until its  *)
(* day rolls over, whatever closes, limit changes and snapshots happen.     *)
THEOREM HaltIsSticky == Spec => HaltLasts
  <1> DEFINE Sticky == rm.disabled /\ rm'.today = rm.today => rm'.disabled /\ ~AcceptStep
  <1>1. ASSUME TypeOK, [Next]_vars PROVE [Sticky]_vars
    <2> SUFFICES ASSUME Next, rm.disabled, rm'.today = rm.today
                 PROVE  rm'.disabled /\ ~AcceptStep
      BY <1>1
    <2>0. rm \in RiskType /\ now \in Nat
      BY <1>1 DEF TypeOK
    <2>1. now = rm.today => Rollover(rm, now) = rm
      BY <2>0, RolloverCount
    <2>2. ASSUME NEW sig \in Signals,
                 EvaluateReject(sig) \/ EvaluateAccept(sig) \/ EvaluatePark(sig)
          PROVE  rm'.disabled
      <3>1. rm' = AfterEvaluate(rm, now, limits, sig)
        BY <2>2 DEF EvaluateReject, EvaluateAccept, EvaluatePark
      <3>2. now = rm.today
        BY <2>0, <3>1, EvaluateFields
      <3> QED
        BY <2>0, <2>1, <3>1, <3>2, EvaluateFields
    <2>3. ~AcceptStep
      <3> SUFFICES ASSUME NEW sig \in Signals, Accept(sig) PROVE FALSE
        BY DEF AcceptStep
      <3>1. /\ rm' = AfterEvaluate(rm, now, limits, sig)
            /\ Decide(rm, now, limits, sig) = "OK"
        BY DEF Accept, EvaluateAccept, EvaluatePark
      <3>2. now = rm.today
        BY <2>0, <3>1, EvaluateFields
      <3> QED
        BY <2>1, <3>1, <3>2, AcceptedGuards
    <2>4. CASE RegisterTradeOpen
      <3>1. rm' = AfterTradeOpen(rm, now)
        BY <2>4 DEF RegisterTradeOpen
      <3> QED
        BY <2>0, <2>1, <2>3, <3>1, OpenFields
    <2>5. ASSUME NEW pnl \in Pnls, RegisterTradeClose(pnl) PROVE rm'.disabled
      <3>1. rm' = AfterTradeClose(rm, now, pnl) /\ pnl \in Int
        BY <2>5, RiskManagerAssumption DEF RegisterTradeClose
      <3> QED
        BY <2>0, <2>1, <3>1, CloseFields
    <2>6. CASE ForceDisable
      BY <2>0, <2>3, <2>6 DEF ForceDisable, AfterForceDisable, RiskType
    <2>7. CASE Snapshot
      <3>1. rm' = Rollover(rm, now)
        BY <2>7 DEF Snapshot
      <3> QED
        BY <2>0, <2>1, <2>3, <3>1, RolloverType
    <2>8. CASE Abandon \/ Midnight \/ \E lim \in Limits : UpdateRiskParams(lim)
      BY <2>3, <2>8 DEF Abandon, Midnight, UpdateRiskParams
    <2> QED
      BY <2>2, <2>3, <2>4, <2>5, <2>6, <2>7, <2>8 DEF Next
  <1> QED
    BY <1>1, TypeCorrect, PTL DEF Spec, HaltLasts

-----------------------------------------------------------------------------
(* If consistency_pct is below 100%, no signal is accepted while the day is *)
(* ahead and no earlier day has earned a profit: the first winning day ends *)
(* with its first net gain.                                                 *)
THEOREM FirstGainStops ==
    ASSUME ConsistencyPct < 100
    PROVE  Spec => NoTradeWhileFirstAhead
  <1>1. ASSUME TypeOK, [Next]_vars, NEW sig \in Signals, Accept(sig),
               rm'.realizedToday > 0, TotalProfit(rm') > 0
        PROVE  TotalProfit(rm') - rm'.realizedToday > 0
    <2> DEFINE r == Rollover(rm, now)
               day == r.realizedToday
               profit == r.currentBalance - StartingBalance
    <2>0. rm \in RiskType /\ now \in Nat
      BY <1>1 DEF TypeOK
    <2>1. /\ rm' = AfterEvaluate(rm, now, limits, sig)
          /\ Decide(rm, now, limits, sig) = "OK"
      BY <1>1 DEF Accept, EvaluateAccept, EvaluatePark
    <2>2. rm'.realizedToday = day /\ TotalProfit(rm') = profit
      BY <2>0, <2>1, EvaluateFields DEF TotalProfit
    <2>3. day \in Int /\ profit \in Int
      <3>1. r \in RiskType
        BY <2>0, RolloverType
      <3>2. r.realizedToday \in Int /\ r.currentBalance \in Int
        BY <3>1 DEF RiskType
      <3>3. StartingBalance \in Int
        BY SettingsAssumption
      <3> HIDE DEF r
      <3> QED
        BY <3>2, <3>3
    <2>4. ~ConsistencyBroken(r)
      BY <2>1, AcceptedGuards
    <2>5. ~(profit > 0 /\ 100 * day > ConsistencyPct * profit)
      BY <2>4 DEF ConsistencyBroken, TotalProfit
    <2> HIDE DEF r, day, profit
    <2>6. day > 0 /\ profit > 0
      BY <1>1, <2>2
    <2>7. 100 * day <= ConsistencyPct * profit
      BY <2>3, <2>5, <2>6, SettingsAssumption
    <2>8. ConsistencyPct * profit < 100 * profit
      BY <2>3, <2>6, SettingsAssumption
    <2>9. day < profit
      BY <2>3, <2>7, <2>8, SettingsAssumption
    <2> QED
      BY <2>2, <2>3, <2>9
  <1> DEFINE Rule == AcceptStep =>
          LET r == rm'
          IN  (r.realizedToday > 0 /\ TotalProfit(r) > 0)
                => TotalProfit(r) - r.realizedToday > 0
  <1>2. ASSUME TypeOK, [Next]_vars PROVE [Rule]_vars
    BY <1>1, <1>2 DEF AcceptStep
  <1> QED
    BY <1>2, TypeCorrect, PTL DEF Spec, NoTradeWhileFirstAhead

-----------------------------------------------------------------------------
(* The size of an accepted order is at least one lot step, and its loss at  *)
(* the stop is within risk_per_trade_pct of the balance, for every balance, *)
(* stop distance and pip value: rounding is always downwards.               *)
THEOREM SizingIsSafe == Spec => SizeWithinBudget
  <1>1. ASSUME TypeOK, NEW sig \in Signals, Accept(sig)
        PROVE  /\ SizePosition(rm', sig) >= 1
               /\ SizePosition(rm', sig) * sig.riskPips * QuotePerPipPerLot
                    <= rm'.currentBalance * RiskPerTradePct
    <2> DEFINE r == Rollover(rm, now)
               money == r.currentBalance * RiskPerTradePct
               perLot == sig.riskPips * QuotePerPipPerLot
               lots == money \div perLot
    <2>0. rm \in RiskType /\ now \in Nat
      BY <1>1 DEF TypeOK
    <2>1. /\ rm' = AfterEvaluate(rm, now, limits, sig)
          /\ Decide(rm, now, limits, sig) = "OK"
      BY <1>1 DEF Accept, EvaluateAccept, EvaluatePark
    <2>2. rm'.currentBalance = r.currentBalance
      BY <2>0, <2>1, EvaluateFields
    <2>3. r.currentBalance \in Int
      <3>1. r \in RiskType
        BY <2>0, RolloverType
      <3> HIDE DEF r
      <3> QED
        BY <3>1 DEF RiskType
    <2>4. ~(sig.riskPips <= 0) /\ ~(SizePosition(r, sig) <= 0)
      BY <2>1, AcceptedGuards
    <2>5. sig.riskPips \in Nat \ {0}
      BY <2>4, RiskManagerAssumption DEF SignalType
    <2>6. SizePosition(r, sig) = lots /\ SizePosition(rm', sig) = lots
      BY <2>2, <2>5 DEF SizePosition
    <2> HIDE DEF r
    <2>7. money \in Int
      BY <2>3, SettingsAssumption
    <2>8. perLot \in Nat \ {0}
      BY <2>5, SettingsAssumption, ProductNat
    <2> HIDE DEF money, perLot
    <2>9. lots \in Int /\ lots * perLot <= money
      BY <2>7, <2>8, FloorDivision
    <2> HIDE DEF lots
    <2>10. lots >= 1
      BY <2>4, <2>6, <2>9
    <2>11. lots * sig.riskPips * QuotePerPipPerLot = lots * perLot
      BY <2>5, <2>9, SettingsAssumption, ProductAssoc DEF perLot
    <2> QED
      BY <2>2, <2>6, <2>9, <2>10, <2>11 DEF money
  <1> DEFINE Sized ==
        \A sig \in Signals : Accept(sig) =>
          /\ SizePosition(rm', sig) >= 1
          /\ SizePosition(rm', sig) * sig.riskPips * QuotePerPipPerLot
               <= rm'.currentBalance * RiskPerTradePct
  <1>2. ASSUME TypeOK PROVE [Sized]_vars
    BY <1>1, <1>2
  <1> QED
    BY <1>2, TypeCorrect, PTL DEF Spec, SizeWithinBudget

-----------------------------------------------------------------------------
(***************************************************************************)
(* The figures and the history.  The figures are inductive together with    *)
(* what the lazy rollover relies on: no trade closed or opened after the    *)
(* manager's day, and tradesToday tells whether that day is a trading day.  *)
(* Recorded says it of any manager, list of results and set of days, so     *)
(* that the rollover every method starts with is one lemma.                 *)
(***************************************************************************)
Result == [day : Nat, pnl : Int]

DaysBefore(days, day) == {d \in days : d < day}

Figures(r, res, days) ==
    /\ r.currentBalance = Equity(res)[Len(res)]
    /\ r.realizedToday = RunningSum(0, PnlsOf(res, r.today))[Len(res)]
    /\ \A k \in 0..Len(res) : r.highWaterMark >= Equity(res)[k]
    /\ \E k \in 0..Len(res) : r.highWaterMark = Equity(res)[k]
    /\ r.consecutiveLosses = TrailingLosses(res, r.today)
    /\ r.tradingDaysCounted = Cardinality(DaysBefore(days, r.today))
    /\ r.tradingStartDate = IF days = {} THEN NoDay ELSE Min(days)

Recorded(r, res, days) ==
    /\ Figures(r, res, days)
    /\ \A i \in 1..Len(res) : res[i].day <= r.today
    /\ days \subseteq 0..r.today
    /\ r.tradesToday > 0 <=> r.today \in days

LEMMA ResultFields ==
    ASSUME NEW res \in Seq(Result)
    PROVE  /\ Len(res) \in Nat
           /\ DOMAIN res = 1..Len(res)
           /\ \A i \in 1..Len(res) : res[i].day \in Nat /\ res[i].pnl \in Int
  <1>1. /\ Len(res) \in Nat /\ DOMAIN res = 1..Len(res)
        /\ res \in [1..Len(res) -> Result]
    BY LenProperties
  <1>2. \A i \in 1..Len(res) : res[i] \in Result
    BY <1>1
  <1>3. \A i \in 1..Len(res) : res[i].day \in Nat /\ res[i].pnl \in Int
    BY <1>2 DEF Result
  <1> QED
    BY <1>1, <1>3

\* The history's numbers, as sequences.
LEMMA PnlSequences ==
    ASSUME NEW res \in Seq(Result), NEW day \in Nat
    PROVE  /\ AllPnls(res) \in Seq(Int)
           /\ Len(AllPnls(res)) = Len(res)
           /\ \A i \in 1..Len(res) : AllPnls(res)[i] = res[i].pnl
           /\ PnlsOf(res, day) \in Seq(Int)
           /\ Len(PnlsOf(res, day)) = Len(res)
           /\ \A i \in 1..Len(res) :
                PnlsOf(res, day)[i] = IF res[i].day = day THEN res[i].pnl ELSE 0
  <1> DEFINE n == Len(res)
  <1>1. n \in Nat /\ DOMAIN res = 1..n
    BY ResultFields
  <1>2. \A i \in 1..n : res[i].pnl \in Int /\ res[i].day \in Nat
    BY ResultFields
  <1> HIDE DEF n
  <1>3. /\ AllPnls(res) = [i \in 1..n |-> res[i].pnl]
        /\ PnlsOf(res, day) = [i \in 1..n |-> IF res[i].day = day THEN res[i].pnl ELSE 0]
    BY <1>1 DEF AllPnls, PnlsOf
  <1>4. /\ AllPnls(res) \in [1..n -> Int]
        /\ PnlsOf(res, day) \in [1..n -> Int]
    BY <1>2, <1>3
  <1>5. ASSUME NEW x \in [1..n -> Int] PROVE x \in Seq(Int) /\ Len(x) = n
    <2>1. x \in Seq(Int)
      BY <1>1, SeqDef
    <2>2. Len(x) \in Nat /\ DOMAIN x = 1..Len(x) /\ DOMAIN x = 1..n
      BY <2>1, LenProperties
    <2> QED
      BY <1>1, <2>1, <2>2
  <1> QED
    BY <1>3, <1>4, <1>5 DEF n

LEMMA MinExists ==
    ASSUME NEW S, S \subseteq Nat, S # {}
    PROVE  Min(S) \in S /\ \A y \in S : Min(S) <= y
  <1> DEFINE R == OpToRel(<, Nat)
  <1>1. IsWellFoundedOn(R, Nat)
    BY NatLessThanWellFounded
  <1>2. PICK x \in S : \A y \in S : ~(<<y, x>> \in R)
    <2> HIDE DEF R
    <2> QED
      BY <1>1, WFMin
  <1>3. \A y \in S : x <= y
    <2> TAKE y \in S
    <2>1. x \in Nat /\ y \in Nat
      OBVIOUS
    <2>2. ~(<<y, x>> \in R)
      BY <1>2
    <2>3. ~(y < x)
      BY <2>1, <2>2 DEF OpToRel
    <2> QED
      BY <2>1, <2>3
  <1>4. \E x_1 \in S : \A y \in S : x_1 <= y
    BY <1>3
  <1> QED
    BY <1>4 DEF Min

LEMMA NoLossesYet ==
    ASSUME NEW res \in Seq(Result), NEW day \in Nat,
           \A i \in 1..Len(res) : res[i].day < day
    PROVE  /\ TrailingLosses(res, day) = 0
           /\ RunningSum(0, PnlsOf(res, day))[Len(res)] = 0
  <1>1. DOMAIN res = 1..Len(res) /\ Len(res) \in Nat
        /\ \A i \in 1..Len(res) : res[i].day \in Nat
    BY ResultFields
  <1>2. \A i \in 1..Len(res) : res[i].day # day
    BY <1>1
  <1>3. {i \in DOMAIN res : /\ res[i].day = day /\ res[i].pnl < 0
                            /\ \A j \in DOMAIN res :
                                 j > i /\ res[j].day = day => res[j].pnl <= 0} = {}
    BY <1>1, <1>2
  <1>4. TrailingLosses(res, day) = 0
    BY <1>3, FS_EmptySet DEF TrailingLosses
  <1>5. RunningSum(0, PnlsOf(res, day))[Len(PnlsOf(res, day))] = 0
    BY <1>1, <1>2, PnlSequences, RunningSumZero
  <1> QED
    BY <1>4, <1>5, PnlSequences

\* The days counted up to a day no later than the last, when that day closes.
LEMMA DaysCounted ==
    ASSUME NEW today \in Nat, NEW day \in Nat, today < day,
           NEW days, days \subseteq 0..today
    PROVE  /\ today \in days => Cardinality(DaysBefore(days, day))
                                  = Cardinality(DaysBefore(days, today)) + 1
           /\ today \notin days => Cardinality(DaysBefore(days, day))
                                     = Cardinality(DaysBefore(days, today))
  <1> DEFINE old == DaysBefore(days, today)
             all == DaysBefore(days, day)
  <1>1. \A d \in days : d \in Nat /\ d <= today
    OBVIOUS
  <1>2. IsFiniteSet(old)
    <2>1. IsFiniteSet(0..today)
      BY FS_Interval
    <2>2. old \in SUBSET (0..today)
      BY DEF DaysBefore
    <2> HIDE DEF old
    <2> QED
      BY <2>1, <2>2, FS_Subset
  <1>3. CASE today \in days
    <2>1. \A d \in days : d < day <=> d < today \/ d = today
      BY <1>1
    <2>2. \A d : d \in all <=> d \in old \cup {today}
      BY <1>3, <2>1 DEF DaysBefore
    <2>3. all = old \cup {today} /\ today \notin old
      BY <2>2 DEF DaysBefore
    <2> HIDE DEF all, old
    <2>4. Cardinality(all) = Cardinality(old) + 1
      BY <1>2, <2>3, FS_AddElement
    <2> QED
      BY <1>3, <2>4 DEF all, old
  <1>4. CASE today \notin days
    <2>1. \A d \in days : d < day <=> d < today
      BY <1>1, <1>4
    <2>2. all = old
      BY <2>1 DEF DaysBefore
    <2> QED
      BY <1>4, <2>2
  <1> QED
    BY <1>3, <1>4

LEMMA RolloverRecorded ==
    ASSUME NEW r \in RiskType, NEW res \in Seq(Result), NEW days,
           NEW day \in Nat, r.today <= day, Recorded(r, res, days)
    PROVE  Recorded(Rollover(r, day), res, days)
  <1>1. CASE day = r.today
    BY <1>1 DEF Rollover
  <1>2. CASE day # r.today
    <2> DEFINE q == CloseDay(r, day)
    <2>1. r.today \in Nat /\ r.today < day /\ r.tradesToday \in Nat
          /\ r.tradingDaysCounted \in Nat
      BY <1>2 DEF RiskType
    <2>2. /\ q.today = day /\ q.tradesToday = 0 /\ q.realizedToday = 0
          /\ q.consecutiveLosses = 0
          /\ q.currentBalance = r.currentBalance
          /\ q.highWaterMark = r.highWaterMark
          /\ q.tradingStartDate = r.tradingStartDate
          /\ q.tradingDaysCounted = IF r.tradesToday > 0 THEN r.tradingDaysCounted + 1
                                                         ELSE r.tradingDaysCounted
      BY DEF CloseDay
    <2> HIDE DEF q
    <2>3. \A i \in 1..Len(res) : res[i].day < day
      <3> TAKE i \in 1..Len(res)
      <3>1. res[i].day <= r.today /\ res[i].day \in Nat
        BY ResultFields DEF Recorded
      <3> QED
        BY <2>1, <3>1
    <2>4. /\ q.consecutiveLosses = TrailingLosses(res, q.today)
          /\ q.realizedToday = RunningSum(0, PnlsOf(res, q.today))[Len(res)]
      BY <2>2, <2>3, NoLossesYet
    <2>5. q.tradingDaysCounted = Cardinality(DaysBefore(days, q.today))
      <3>1. /\ r.tradingDaysCounted = Cardinality(DaysBefore(days, r.today))
            /\ days \subseteq 0..r.today
            /\ r.tradesToday > 0 <=> r.today \in days
        BY DEF Recorded, Figures
      <3>2. /\ r.today \in days => Cardinality(DaysBefore(days, day))
                                     = r.tradingDaysCounted + 1
            /\ r.today \notin days => Cardinality(DaysBefore(days, day))
                                        = r.tradingDaysCounted
        <4> DEFINE today == r.today
        <4>1. today \in Nat /\ today < day /\ days \subseteq 0..today
          BY <2>1, <3>1
        <4>2. r.tradingDaysCounted = Cardinality(DaysBefore(days, today))
          BY <3>1
        <4> HIDE DEF today
        <4>3. /\ today \in days => Cardinality(DaysBefore(days, day))
                                   = Cardinality(DaysBefore(days, today)) + 1
              /\ today \notin days => Cardinality(DaysBefore(days, day))
                                      = Cardinality(DaysBefore(days, today))
          BY <4>1, DaysCounted
        <4> QED
          BY <4>2, <4>3 DEF today
      <3> QED
        BY <2>2, <3>1, <3>2
    <2>6. Figures(q, res, days)
      BY <2>2, <2>4, <2>5 DEF Recorded, Figures
    <2>7. \A i \in 1..Len(res) : res[i].day <= q.today
      <3> TAKE i \in 1..Len(res)
      <3>1. res[i].day \in Nat
        BY ResultFields
      <3> QED
        BY <2>2, <2>3, <3>1
    <2>8. days \subseteq 0..q.today /\ ~(q.tradesToday > 0) /\ q.today \notin days
      BY <2>1, <2>2 DEF Recorded
    <2>9. Recorded(q, res, days)
      BY <2>6, <2>7, <2>8 DEF Recorded
    <2> QED
      BY <1>2, <2>9 DEF Rollover, q
  <1> QED
    BY <1>1, <1>2

\* Evaluate, force_disable and the snapshot change no figure but by the rollover.
LEMMA SameFiguresRecorded ==
    ASSUME NEW r, NEW q, NEW res, NEW days, Recorded(r, res, days),
           q.today = r.today, q.tradesToday = r.tradesToday,
           q.realizedToday = r.realizedToday,
           q.consecutiveLosses = r.consecutiveLosses,
           q.currentBalance = r.currentBalance,
           q.highWaterMark = r.highWaterMark,
           q.tradingDaysCounted = r.tradingDaysCounted,
           q.tradingStartDate = r.tradingStartDate
    PROVE  Recorded(q, res, days)
  BY DEF Recorded, Figures

LEMMA EvaluateRecorded ==
    ASSUME NEW r \in RiskType, NEW res \in Seq(Result), NEW days,
           NEW day \in Nat, r.today <= day, Recorded(r, res, days),
           NEW lim, NEW sig
    PROVE  Recorded(AfterEvaluate(r, day, lim, sig), res, days)
  <1> DEFINE r1 == Rollover(r, day)
             q == AfterEvaluate(r, day, lim, sig)
  <1>1. r1 \in RiskType
    BY RolloverType
  <1>2. Recorded(r1, res, days)
    BY RolloverRecorded
  <1>3. \E d : q = [r1 EXCEPT !.disabled = d]
    BY DEF AfterEvaluate
  <1> HIDE DEF r1, q
  <1>4. /\ q.today = r1.today /\ q.tradesToday = r1.tradesToday
        /\ q.realizedToday = r1.realizedToday
        /\ q.consecutiveLosses = r1.consecutiveLosses
        /\ q.currentBalance = r1.currentBalance
        /\ q.highWaterMark = r1.highWaterMark
        /\ q.tradingDaysCounted = r1.tradingDaysCounted
        /\ q.tradingStartDate = r1.tradingStartDate
    BY <1>1, <1>3 DEF RiskType
  <1>5. Recorded(q, res, days)
    BY <1>2, <1>4, SameFiguresRecorded
  <1> QED
    BY <1>5 DEF q

LEMMA OpenRecorded ==
    ASSUME NEW r \in RiskType, NEW res \in Seq(Result), NEW days,
           NEW day \in Nat, r.today <= day, Recorded(r, res, days)
    PROVE  Recorded(AfterTradeOpen(r, day), res, days \cup {day})
  <1> DEFINE r1 == Rollover(r, day)
             q == AfterTradeOpen(r, day)
             days2 == days \cup {day}
  <1>1. r1 \in RiskType /\ r1.today = day
    BY RolloverType
  <1>2. Recorded(r1, res, days)
    BY RolloverRecorded
  <1>3. q = [r1 EXCEPT !.tradesToday = r1.tradesToday + 1,
                       !.tradingStartDate = IF r1.tradingStartDate = NoDay
                                            THEN day ELSE r1.tradingStartDate]
    BY DEF AfterTradeOpen
  <1> HIDE DEF r1, q
  <1>4. /\ q.today = r1.today /\ q.tradesToday = r1.tradesToday + 1
        /\ q.realizedToday = r1.realizedToday
        /\ q.consecutiveLosses = r1.consecutiveLosses
        /\ q.currentBalance = r1.currentBalance
        /\ q.highWaterMark = r1.highWaterMark
        /\ q.tradingDaysCounted = r1.tradingDaysCounted
        /\ q.tradingStartDate = IF r1.tradingStartDate = NoDay
                                THEN day ELSE r1.tradingStartDate
        /\ r1.tradesToday \in Nat
    BY <1>1, <1>3 DEF RiskType
  <1>5. \A d \in days : d \in Nat /\ d <= day
    BY <1>1, <1>2 DEF Recorded
  <1>6. DaysBefore(days2, day) = DaysBefore(days, day)
    BY DEF DaysBefore
  <1>7. q.tradingStartDate = IF days2 = {} THEN NoDay ELSE Min(days2)
    <2>1. days2 # {} /\ days2 \subseteq Nat
      BY <1>5
    <2>2. Min(days2) \in days2 /\ \A y \in days2 : Min(days2) <= y
      BY <2>1, MinExists
    <2>3. CASE days = {}
      <3>1. r1.tradingStartDate = NoDay
        BY <1>2, <2>3 DEF Recorded, Figures
      <3> QED
        BY <1>4, <2>1, <2>2, <2>3, <3>1
    <2>4. CASE days # {}
      <3>1. Min(days) \in days /\ \A y \in days : Min(days) <= y
        <4>1. days \subseteq Nat
          BY <1>5
        <4> QED
          BY <2>4, <4>1, MinExists
      <3>2. r1.tradingStartDate = Min(days)
        BY <1>2, <2>4 DEF Recorded, Figures
      <3>3. Min(days) # NoDay /\ Min(days) <= day
        BY <1>5, <3>1, SettingsAssumption
      <3>4. Min(days2) <= Min(days) /\ Min(days) <= Min(days2)
        BY <2>2, <3>1, <3>3
      <3>5. Min(days) \in Nat /\ Min(days2) \in Nat
        BY <1>5, <2>1, <2>2, <3>1
      <3>6. Min(days2) = Min(days)
        BY <3>4, <3>5
      <3> QED
        BY <1>4, <2>1, <3>2, <3>3, <3>6
    <2> QED
      BY <2>3, <2>4
  <1>8. Figures(q, res, days2)
    BY <1>1, <1>2, <1>4, <1>6, <1>7 DEF Recorded, Figures
  <1>9. days2 \subseteq 0..q.today
    BY <1>1, <1>4, <1>5
  <1>10. q.tradesToday > 0 /\ q.today \in days2
    BY <1>1, <1>4
  <1>11. Recorded(q, res, days2)
    BY <1>2, <1>4, <1>8, <1>9, <1>10 DEF Recorded
  <1> QED
    BY <1>11 DEF q

\* The losses since the day's last win.
LossesOf(s, day) ==
    {i \in 1..Len(s) : /\ s[i].day = day /\ s[i].pnl < 0
                       /\ \A j \in 1..Len(s) :
                            j > i /\ s[j].day = day => s[j].pnl <= 0}

LEMMA LossesAre ==
    ASSUME NEW res \in Seq(Result), NEW day
    PROVE  /\ TrailingLosses(res, day) = Cardinality(LossesOf(res, day))
           /\ IsFiniteSet(LossesOf(res, day))
  <1>1. DOMAIN res = 1..Len(res) /\ Len(res) \in Nat
    BY ResultFields
  <1>2. TrailingLosses(res, day) = Cardinality(LossesOf(res, day))
    BY <1>1 DEF TrailingLosses, LossesOf
  <1>3. IsFiniteSet(1..Len(res))
    BY <1>1, FS_Interval
  <1>4. LossesOf(res, day) \in SUBSET (1..Len(res))
    BY DEF LossesOf
  <1>5. IsFiniteSet(LossesOf(res, day))
    BY <1>3, <1>4, FS_Subset
  <1> QED
    BY <1>2, <1>5

LEMMA CloseHistory ==
    ASSUME NEW res \in Seq(Result), NEW day \in Nat, NEW pnl \in Int
    PROVE  LET s == Append(res, [day |-> day, pnl |-> pnl])
           IN  /\ s \in Seq(Result)
               /\ Len(s) = Len(res) + 1
               /\ \A i \in 1..Len(res) : s[i] = res[i]
               /\ s[Len(s)].day = day /\ s[Len(s)].pnl = pnl
  <1> DEFINE e == [day |-> day, pnl |-> pnl]
  <1>1. e \in Result /\ e.day = day /\ e.pnl = pnl
    BY DEF Result
  <1> HIDE DEF e
  <1>2. /\ Append(res, e) \in Seq(Result)
        /\ Len(Append(res, e)) = Len(res) + 1
        /\ \A i \in 1..Len(res) : Append(res, e)[i] = res[i]
        /\ Append(res, e)[Len(res) + 1] = e
    BY <1>1, AppendProperties
  <1> QED
    BY <1>1, <1>2 DEF e

\* The three sums and the streak after one more close on the given day.
LEMMA CloseSums ==
    ASSUME NEW res \in Seq(Result), NEW s \in Seq(Result),
           NEW day \in Nat, NEW pnl \in Int, Len(s) = Len(res) + 1,
           \A i \in 1..Len(res) : s[i] = res[i],
           s[Len(s)].day = day, s[Len(s)].pnl = pnl
    PROVE  /\ \A k \in 0..Len(res) : Equity(s)[k] = Equity(res)[k]
           /\ Equity(s)[Len(s)] = Equity(res)[Len(res)] + pnl
           /\ RunningSum(0, PnlsOf(s, day))[Len(s)]
                = RunningSum(0, PnlsOf(res, day))[Len(res)] + pnl
  <1> DEFINE n == Len(res)
             a == AllPnls(res)
             b == AllPnls(s)
             c == PnlsOf(res, day)
             d == PnlsOf(s, day)
  <1>1. /\ n \in Nat /\ Len(s) = n + 1
        /\ \A i \in 1..n : s[i] = res[i] /\ i \in 1..n + 1
        /\ s[n + 1].day = day /\ s[n + 1].pnl = pnl
        /\ n + 1 \in 1..n + 1
    BY ResultFields
  <1>2. /\ a \in Seq(Int) /\ Len(a) = n
        /\ \A i \in 1..n : a[i] = res[i].pnl
        /\ c \in Seq(Int) /\ Len(c) = n
        /\ \A i \in 1..n : c[i] = IF res[i].day = day THEN res[i].pnl ELSE 0
    BY PnlSequences
  <1>3. /\ b \in Seq(Int) /\ Len(b) = Len(s)
        /\ \A i \in 1..Len(s) : b[i] = s[i].pnl
        /\ d \in Seq(Int) /\ Len(d) = Len(s)
        /\ \A i \in 1..Len(s) : d[i] = IF s[i].day = day THEN s[i].pnl ELSE 0
    BY PnlSequences
  <1>4. StartingBalance \in Int
    BY SettingsAssumption
  <1> DEFINE A == RunningSum(StartingBalance, a)
             B == RunningSum(StartingBalance, b)
             C == RunningSum(0, c)
             D == RunningSum(0, d)
  <1>5. /\ Equity(res) = A /\ Equity(s) = B
    BY DEF Equity
  <1> HIDE DEF n, a, b, c, d
  <1>6. /\ \A i \in 1..n : b[i] = a[i]
        /\ \A i \in 1..n : d[i] = c[i]
        /\ b[n + 1] = pnl /\ d[n + 1] = pnl
    <2>1. ASSUME NEW i \in 1..n PROVE b[i] = a[i] /\ d[i] = c[i]
      <3>1. i \in 1..Len(s) /\ s[i] = res[i]
        BY <1>1
      <3>2. b[i] = res[i].pnl /\ a[i] = res[i].pnl
        BY <1>2, <1>3, <3>1
      <3>3. /\ d[i] = IF res[i].day = day THEN res[i].pnl ELSE 0
            /\ c[i] = IF res[i].day = day THEN res[i].pnl ELSE 0
        BY <1>2, <1>3, <3>1
      <3> QED
        BY <3>2, <3>3
    <2>2. n + 1 \in 1..Len(s) /\ s[n + 1].day = day /\ s[n + 1].pnl = pnl
      BY <1>1
    <2>3. b[n + 1] = pnl /\ d[n + 1] = pnl
      BY <1>3, <2>2
    <2> QED
      BY <2>1, <2>3
  <1>7. /\ \A k \in 0..n : B[k] = A[k]
        /\ B[Len(b)] = A[n] + b[Len(b)]
    <2>1. /\ a \in Seq(Int) /\ b \in Seq(Int)
          /\ Len(b) = Len(a) + 1 /\ \A i \in 1..Len(a) : b[i] = a[i]
      BY <1>1, <1>2, <1>3, <1>6
    <2>2. /\ \A k \in 0..Len(a) : B[k] = A[k]
          /\ B[Len(b)] = A[Len(a)] + b[Len(b)]
      BY <1>4, <2>1, RunningSumAppend
    <2> QED
      BY <1>2, <2>2
  <1>8. D[Len(d)] = C[n] + d[Len(d)]
    <2>1. /\ c \in Seq(Int) /\ d \in Seq(Int) /\ 0 \in Int
          /\ Len(d) = Len(c) + 1 /\ \A i \in 1..Len(c) : d[i] = c[i]
      BY <1>1, <1>2, <1>3, <1>6
    <2>2. D[Len(d)] = C[Len(c)] + d[Len(d)]
      BY <2>1, RunningSumAppend
    <2> QED
      BY <1>2, <2>2
  <1> HIDE DEF A, B
  <1>9. /\ \A k \in 0..n : Equity(s)[k] = Equity(res)[k]
        /\ Equity(s)[n + 1] = Equity(res)[n] + pnl
    BY <1>1, <1>3, <1>5, <1>6, <1>7
  <1>10. RunningSum(0, d)[n + 1] = RunningSum(0, c)[n] + pnl
    BY <1>1, <1>3, <1>6, <1>8
  <1> QED
    BY <1>1, <1>9, <1>10 DEF n, c, d

LEMMA CloseStreak ==
    ASSUME NEW res \in Seq(Result), NEW s \in Seq(Result),
           NEW day \in Nat, NEW pnl \in Int, Len(s) = Len(res) + 1,
           \A i \in 1..Len(res) : s[i] = res[i],
           s[Len(s)].day = day, s[Len(s)].pnl = pnl
    PROVE  TrailingLosses(s, day) = StreakAfter(TrailingLosses(res, day), pnl)
  <1> DEFINE n == Len(res)
             old == LossesOf(res, day)
             new == LossesOf(s, day)
  <1>1. /\ n \in Nat /\ Len(s) = n + 1
        /\ \A i \in 1..n : s[i] = res[i] /\ res[i].pnl \in Int
        /\ s[n + 1].day = day /\ s[n + 1].pnl = pnl
    BY ResultFields
  <1>2. /\ TrailingLosses(s, day) = Cardinality(new)
        /\ TrailingLosses(res, day) = Cardinality(old)
        /\ IsFiniteSet(old)
    BY LossesAre
  <1>3. /\ old = {i \in 1..n : /\ res[i].day = day /\ res[i].pnl < 0
                               /\ \A j \in 1..n :
                                    j > i /\ res[j].day = day => res[j].pnl <= 0}
        /\ new = {i \in 1..n + 1 : /\ s[i].day = day /\ s[i].pnl < 0
                                   /\ \A j \in 1..n + 1 :
                                        j > i /\ s[j].day = day => s[j].pnl <= 0}
    BY <1>1 DEF LossesOf
  <1>4. n + 1 \notin old
    BY <1>1, <1>3
  <1> HIDE DEF old, new, n
  <1>5. CASE pnl > 0
    <2>1. ASSUME NEW i \in new PROVE FALSE
      <3>1. CASE i = n + 1
        BY <1>1, <1>3, <1>5, <2>1, <3>1
      <3>2. CASE i # n + 1
        <4>1. i \in 1..n + 1 /\ n + 1 \in 1..n + 1 /\ n + 1 > i
          BY <1>1, <1>3, <3>2
        <4> QED
          BY <1>1, <1>3, <1>5, <4>1
      <3> QED
        BY <3>1, <3>2
    <2>2. new = {}
      BY <2>1
    <2> QED
      BY <1>2, <1>5, <2>2, FS_EmptySet DEF StreakAfter
  <1>6. ASSUME pnl <= 0, NEW i \in 1..n
        PROVE  i \in new <=> i \in old
    <2>1. i \in 1..n + 1 /\ s[i] = res[i]
      BY <1>1
    <2>2. ASSUME i \in new PROVE i \in old
      <3>1. ASSUME NEW j \in 1..n, j > i, res[j].day = day PROVE res[j].pnl <= 0
        <4>1. j \in 1..n + 1 /\ s[j] = res[j]
          BY <1>1
        <4> QED
          BY <1>3, <2>2, <3>1, <4>1
      <3> QED
        BY <1>3, <2>1, <2>2, <3>1
    <2>3. ASSUME i \in old PROVE i \in new
      <3>1. ASSUME NEW j \in 1..n + 1, j > i, s[j].day = day PROVE s[j].pnl <= 0
        <4>1. CASE j = n + 1
          BY <1>1, <1>6, <4>1
        <4>2. CASE j # n + 1
          <5>1. j \in 1..n /\ s[j] = res[j]
            BY <1>1, <4>2
          <5> QED
            BY <1>3, <2>3, <3>1, <5>1
        <4> QED
          BY <4>1, <4>2
      <3> QED
        BY <1>3, <2>1, <2>3, <3>1
    <2> QED
      BY <2>2, <2>3
  <1>7. \A i : i \in new => i \in 1..n \/ i = n + 1
    BY <1>1, <1>3
  <1>8. \A i : i \in old => i \in 1..n
    BY <1>3
  <1>9. CASE pnl = 0
    <2>1. n + 1 \notin new
      BY <1>1, <1>3, <1>9
    <2>2. \A i \in 1..n : i \in new <=> i \in old
      BY <1>6, <1>9
    <2>3. new = old
      BY <1>7, <1>8, <2>1, <2>2
    <2> QED
      BY <1>2, <1>9, <2>3 DEF StreakAfter
  <1>10. CASE pnl < 0
    <2>1. n + 1 \in new
      <3>1. n + 1 \in 1..n + 1
        BY <1>1
      <3>2. ASSUME NEW j \in 1..n + 1, j > n + 1 PROVE FALSE
        BY <1>1, <3>2
      <3> QED
        BY <1>1, <1>3, <1>10, <3>1, <3>2
    <2>2. \A i \in 1..n : i \in new <=> i \in old
      BY <1>6, <1>10
    <2>3. new = old \cup {n + 1}
      BY <1>7, <1>8, <2>1, <2>2
    <2>4. Cardinality(new) = Cardinality(old) + 1
      BY <1>2, <1>4, <2>3, FS_AddElement
    <2> QED
      BY <1>2, <1>10, <2>4 DEF StreakAfter
  <1> QED
    BY <1>5, <1>9, <1>10

LEMMA CloseRecorded ==
    ASSUME NEW r \in RiskType, NEW res \in Seq(Result), NEW days,
           NEW day \in Nat, r.today <= day, Recorded(r, res, days),
           NEW pnl \in Int
    PROVE  Recorded(AfterTradeClose(r, day, pnl),
                    Append(res, [day |-> day, pnl |-> pnl]), days)
  <1> DEFINE r1 == Rollover(r, day)
             q == AfterTradeClose(r, day, pnl)
             s == Append(res, [day |-> day, pnl |-> pnl])
             n == Len(res)
             bal == r1.currentBalance + pnl
  <1>1. r1 \in RiskType /\ r1.today = day
    BY RolloverType
  <1>2. Recorded(r1, res, days)
    BY RolloverRecorded
  <1>3. q = [r1 EXCEPT !.currentBalance = r1.currentBalance + pnl,
                       !.realizedToday = r1.realizedToday + pnl,
                       !.highestDayPnl = MaxOf(r1.highestDayPnl,
                                               r1.realizedToday + pnl),
                       !.highWaterMark = MaxOf(r1.highWaterMark,
                                               r1.currentBalance + pnl),
                       !.consecutiveLosses = StreakAfter(r1.consecutiveLosses, pnl)]
    BY DEF AfterTradeClose
  <1> HIDE DEF r1, q
  <1>4. /\ q.today = r1.today /\ q.tradesToday = r1.tradesToday
        /\ q.realizedToday = r1.realizedToday + pnl
        /\ q.consecutiveLosses = StreakAfter(r1.consecutiveLosses, pnl)
        /\ q.currentBalance = bal
        /\ q.highWaterMark = MaxOf(r1.highWaterMark, bal)
        /\ q.tradingDaysCounted = r1.tradingDaysCounted
        /\ q.tradingStartDate = r1.tradingStartDate
    BY <1>1, <1>3 DEF RiskType
  <1>5. r1.highWaterMark \in Int /\ bal \in Int
    <2>1. r1.highWaterMark \in Int /\ r1.currentBalance \in Int
      BY <1>1, Zenon DEF RiskType
    <2> QED
      BY <2>1
  <1>6. /\ s \in Seq(Result) /\ Len(s) = n + 1
        /\ \A i \in 1..n : s[i] = res[i]
        /\ s[Len(s)].day = day /\ s[Len(s)].pnl = pnl
    BY CloseHistory
  <1> HIDE DEF s
  <1>7. n \in Nat /\ \A i \in 1..n : res[i].day \in Nat
    BY ResultFields
  <1>8. /\ \A k \in 0..n : Equity(s)[k] = Equity(res)[k]
        /\ Equity(s)[Len(s)] = Equity(res)[n] + pnl
        /\ RunningSum(0, PnlsOf(s, day))[Len(s)]
             = RunningSum(0, PnlsOf(res, day))[n] + pnl
    BY <1>6, CloseSums
  <1>9. TrailingLosses(s, day) = StreakAfter(TrailingLosses(res, day), pnl)
    BY <1>6, CloseStreak
  <1>10. /\ r1.currentBalance = Equity(res)[n]
         /\ r1.realizedToday = RunningSum(0, PnlsOf(res, day))[n]
         /\ \A k \in 0..n : r1.highWaterMark >= Equity(res)[k]
         /\ \E k \in 0..n : r1.highWaterMark = Equity(res)[k]
         /\ r1.consecutiveLosses = TrailingLosses(res, day)
         /\ r1.tradingDaysCounted = Cardinality(DaysBefore(days, day))
         /\ r1.tradingStartDate = IF days = {} THEN NoDay ELSE Min(days)
         /\ \A i \in 1..n : res[i].day <= day
         /\ days \subseteq 0..day
         /\ r1.tradesToday > 0 <=> day \in days
    BY <1>1, <1>2 DEF Recorded, Figures
  <1> HIDE DEF n, bal
  <1>11. Equity(s)[n + 1] = bal
    BY <1>6, <1>8, <1>10 DEF bal
  <1>12. \A k \in 0..Len(s) : q.highWaterMark >= Equity(s)[k]
    <2> TAKE k \in 0..Len(s)
    <2>1. /\ q.highWaterMark \in Int
          /\ q.highWaterMark >= r1.highWaterMark
          /\ q.highWaterMark >= bal
      BY <1>4, <1>5, MaxOfInt
    <2>2. CASE k = n + 1
      BY <1>11, <2>1, <2>2
    <2>3. CASE k # n + 1
      <3>1. k \in 0..n
        BY <1>6, <1>7, <2>3
      <3>2. /\ Equity(s)[k] = Equity(res)[k]
            /\ r1.highWaterMark >= Equity(res)[k]
        BY <1>8, <1>10, <3>1
      <3>3. Equity(res)[k] \in Int
        <4>1. AllPnls(res) \in Seq(Int) /\ Len(AllPnls(res)) = n
          BY PnlSequences DEF n
        <4>2. StartingBalance \in Int
          BY SettingsAssumption
        <4>3. Equity(res) \in [0..n -> Int]
          BY <4>1, <4>2, RunningSumIs DEF Equity
        <4> QED
          BY <3>1, <4>3
      <3> QED
        BY <1>5, <2>1, <3>2, <3>3
    <2> QED
      BY <2>2, <2>3
  <1>13. \E k \in 0..Len(s) : q.highWaterMark = Equity(s)[k]
    <2>1. n + 1 \in 0..Len(s)
      BY <1>6, <1>7
    <2>2. CASE r1.highWaterMark >= bal
      <3>1. q.highWaterMark = r1.highWaterMark
        BY <1>4, <2>2 DEF MaxOf
      <3>2. PICK k \in 0..n : r1.highWaterMark = Equity(res)[k]
        BY <1>10
      <3>3. k \in 0..Len(s) /\ Equity(s)[k] = Equity(res)[k]
        BY <1>6, <1>7, <1>8
      <3> QED
        BY <3>1, <3>2, <3>3
    <2>3. CASE ~(r1.highWaterMark >= bal)
      <3>1. q.highWaterMark = bal
        BY <1>4, <2>3 DEF MaxOf
      <3> QED
        BY <1>11, <2>1, <3>1
    <2> QED
      BY <2>2, <2>3
  <1>14. Figures(q, s, days)
    <2>1. q.currentBalance = Equity(s)[Len(s)]
      BY <1>4, <1>6, <1>11
    <2>2. q.realizedToday = RunningSum(0, PnlsOf(s, q.today))[Len(s)]
      BY <1>1, <1>4, <1>8, <1>10
    <2>3. q.consecutiveLosses = TrailingLosses(s, q.today)
      BY <1>1, <1>4, <1>9, <1>10
    <2>4. /\ q.tradingDaysCounted = Cardinality(DaysBefore(days, q.today))
          /\ q.tradingStartDate = IF days = {} THEN NoDay ELSE Min(days)
      BY <1>1, <1>4, <1>10
    <2> QED
      BY <1>12, <1>13, <2>1, <2>2, <2>3, <2>4 DEF Figures
  <1>15. \A i \in 1..Len(s) : s[i].day <= q.today
    <2> TAKE i \in 1..Len(s)
    <2>1. CASE i = n + 1
      BY <1>1, <1>4, <1>6, <2>1
    <2>2. CASE i # n + 1
      <3>1. i \in 1..n
        BY <1>6, <1>7, <2>2
      <3> QED
        BY <1>1, <1>4, <1>6, <1>10, <3>1
    <2> QED
      BY <2>1, <2>2
  <1>16. /\ days \subseteq 0..q.today
         /\ q.tradesToday > 0 <=> q.today \in days
    BY <1>1, <1>4, <1>10
  <1>17. Recorded(q, s, days)
    BY <1>14, <1>15, <1>16 DEF Recorded
  <1> QED
    BY <1>17 DEF q, s

(***************************************************************************)
(* The manager never runs ahead of the clock.                               *)
(***************************************************************************)
FiguresInv ==
    /\ Recorded(rm, results, openDays)
    /\ rm.today <= now

LEMMA FiguresInit == Init => FiguresInv
  <1> SUFFICES ASSUME Init PROVE FiguresInv
    OBVIOUS
  <1>1. /\ rm.today = 0 /\ rm.tradesToday = 0 /\ rm.realizedToday = 0
        /\ rm.consecutiveLosses = 0 /\ rm.currentBalance = StartingBalance
        /\ rm.highWaterMark = StartingBalance /\ rm.tradingDaysCounted = 0
        /\ rm.tradingStartDate = NoDay
        /\ results = <<>> /\ openDays = {} /\ now = 0
    BY DEF Init, FreshManager
  <1>2. results \in Seq(Result) /\ Len(results) = 0
    BY <1>1
  <1>3. AllPnls(results) \in Seq(Int) /\ Len(AllPnls(results)) = 0
    BY <1>2, PnlSequences
  <1>4. StartingBalance \in Int
    BY SettingsAssumption
  <1>5. Equity(results)[0] = StartingBalance
    BY <1>3, <1>4, RunningSumIs DEF Equity
  <1>6. /\ TrailingLosses(results, 0) = 0
        /\ RunningSum(0, PnlsOf(results, 0))[Len(results)] = 0
    <2> DEFINE day == 0
    <2>1. day \in Nat /\ \A i \in 1..Len(results) : results[i].day < day
      BY <1>2
    <2> HIDE DEF day
    <2>2. /\ TrailingLosses(results, day) = 0
          /\ RunningSum(0, PnlsOf(results, day))[Len(results)] = 0
      BY <1>2, <2>1, NoLossesYet
    <2> QED
      BY <2>2 DEF day
  <1>7. Cardinality(DaysBefore(openDays, 0)) = 0
    <2>1. DaysBefore(openDays, 0) = {}
      BY <1>1 DEF DaysBefore
    <2> QED
      BY <2>1, FS_EmptySet
  <1>8. \A k \in 0..Len(results) : k = 0
    BY <1>2
  <1>9. 0 \in 0..Len(results)
    BY <1>2
  <1>10. Figures(rm, results, openDays)
    <2>1. /\ rm.currentBalance = Equity(results)[Len(results)]
          /\ \A k \in 0..Len(results) : rm.highWaterMark >= Equity(results)[k]
          /\ \E k \in 0..Len(results) : rm.highWaterMark = Equity(results)[k]
      <3>1. \A k \in 0..Len(results) : Equity(results)[k] = StartingBalance
        BY <1>5, <1>8
      <3>2. Len(results) \in 0..Len(results)
        BY <1>2
      <3>3. rm.highWaterMark >= StartingBalance
        BY <1>1, <1>4
      <3> QED
        BY <1>1, <3>1, <3>2, <3>3
    <2>2. /\ rm.realizedToday = RunningSum(0, PnlsOf(results, rm.today))[Len(results)]
          /\ rm.consecutiveLosses = TrailingLosses(results, rm.today)
      BY <1>1, <1>6
    <2>3. /\ rm.tradingDaysCounted = Cardinality(DaysBefore(openDays, rm.today))
          /\ rm.tradingStartDate = IF openDays = {} THEN NoDay ELSE Min(openDays)
      BY <1>1, <1>7
    <2> QED
      BY <2>1, <2>2, <2>3 DEF Figures
  <1> QED
    BY <1>1, <1>2, <1>10 DEF FiguresInv, Recorded

LEMMA FiguresStep == TypeOK /\ FiguresInv /\ [Next]_vars => FiguresInv'
  <1> SUFFICES ASSUME TypeOK, FiguresInv, [Next]_vars PROVE FiguresInv'
    OBVIOUS
  <1>0. /\ rm \in RiskType /\ now \in Nat /\ results \in Seq(Result)
        /\ rm.today <= now /\ rm.today \in Nat
        /\ Recorded(rm, results, openDays)
    BY DEF TypeOK, FiguresInv, Result, RiskType
  <1>1. ASSUME NEW sig \in Signals,
               EvaluateReject(sig) \/ EvaluateAccept(sig) \/ EvaluatePark(sig)
        PROVE  FiguresInv'
    <2>1. /\ rm' = AfterEvaluate(rm, now, limits, sig)
          /\ UNCHANGED <<now, results, openDays>>
      BY <1>1 DEF EvaluateReject, EvaluateAccept, EvaluatePark, history
    <2>2. Recorded(rm', results', openDays')
      BY <1>0, <2>1, EvaluateRecorded
    <2>3. rm'.today = now
      BY <1>0, <2>1, EvaluateFields
    <2> QED
      BY <1>0, <2>1, <2>2, <2>3 DEF FiguresInv
  <1>2. CASE RegisterTradeOpen
    <2>1. /\ rm' = AfterTradeOpen(rm, now) /\ openDays' = openDays \cup {now}
          /\ UNCHANGED <<now, results>>
      BY <1>2 DEF RegisterTradeOpen
    <2>2. Recorded(rm', results', openDays')
      BY <1>0, <2>1, OpenRecorded
    <2>3. rm'.today = now
      BY <1>0, <2>1, OpenFields
    <2> QED
      BY <1>0, <2>1, <2>2, <2>3 DEF FiguresInv
  <1>3. ASSUME NEW pnl \in Pnls, RegisterTradeClose(pnl) PROVE FiguresInv'
    <2>1. /\ rm' = AfterTradeClose(rm, now, pnl) /\ pnl \in Int
          /\ results' = Append(results, [day |-> now, pnl |-> pnl])
          /\ UNCHANGED <<now, openDays>>
      BY <1>3, RiskManagerAssumption DEF RegisterTradeClose
    <2>2. Recorded(rm', results', openDays')
      BY <1>0, <2>1, CloseRecorded
    <2>3. rm'.today = now
      BY <1>0, <2>1, CloseFields
    <2> QED
      BY <1>0, <2>1, <2>2, <2>3 DEF FiguresInv
  <1>4. CASE ForceDisable
    <2>1. rm' = [rm EXCEPT !.disabled = TRUE] /\ UNCHANGED <<now, results, openDays>>
      BY <1>4 DEF ForceDisable, AfterForceDisable, history
    <2>2. /\ rm'.today = rm.today /\ rm'.tradesToday = rm.tradesToday
          /\ rm'.realizedToday = rm.realizedToday
          /\ rm'.consecutiveLosses = rm.consecutiveLosses
          /\ rm'.currentBalance = rm.currentBalance
          /\ rm'.highWaterMark = rm.highWaterMark
          /\ rm'.tradingDaysCounted = rm.tradingDaysCounted
          /\ rm'.tradingStartDate = rm.tradingStartDate
      BY <1>0, <2>1 DEF RiskType
    <2>3. Recorded(rm', results', openDays')
      BY <1>0, <2>1, <2>2, SameFiguresRecorded
    <2> QED
      BY <1>0, <2>1, <2>2, <2>3 DEF FiguresInv
  <1>5. CASE Snapshot
    <2>1. rm' = Rollover(rm, now) /\ UNCHANGED <<now, results, openDays>>
      BY <1>5 DEF Snapshot, history
    <2>2. Recorded(rm', results', openDays')
      BY <1>0, <2>1, RolloverRecorded
    <2>3. rm'.today = now
      BY <1>0, <2>1, RolloverType
    <2> QED
      BY <1>0, <2>1, <2>2, <2>3 DEF FiguresInv
  <1>6. CASE Midnight
    <2>1. now' = now + 1 /\ UNCHANGED <<rm, results, openDays>>
      BY <1>6 DEF Midnight, history
    <2> QED
      BY <1>0, <2>1 DEF FiguresInv
  <1>7. CASE Abandon \/ (\E lim \in Limits : UpdateRiskParams(lim)) \/ UNCHANGED vars
    <2>1. UNCHANGED <<rm, now, results, openDays>>
      BY <1>7 DEF Abandon, UpdateRiskParams, history, vars
    <2> QED
      BY <1>0, <2>1 DEF FiguresInv
  <1> QED
    BY <1>1, <1>2, <1>3, <1>4, <1>5, <1>6, <1>7 DEF Next

(* The balance, the day's result, the high-water mark, the loss streak, the *)
(* trading days and the first of them agree with the trades that opened and *)
(* closed, for any number of days and trades and whenever a rollover runs.  *)
THEOREM FiguresAreTheHistory == Spec => []FiguresMatchHistory
  <1>1. ASSUME TypeOK, FiguresInv PROVE FiguresMatchHistory
    <2>1. Figures(rm, results, openDays)
      BY <1>1 DEF FiguresInv, Recorded
    <2> QED
      BY <2>1 DEF Figures, DaysBefore, FiguresMatchHistory
  <1> QED
    BY <1>1, FiguresInit, FiguresStep, TypeCorrect, PTL DEF Spec
=============================================================================
