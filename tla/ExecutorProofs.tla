--------------------------- MODULE ExecutorProofs ---------------------------
(***************************************************************************)
(* The executor for every number of feeds, trades, staged signals, days and *)
(* attempts, every journal and every order stream.                          *)
(***************************************************************************)
EXTENDS Executor, RiskRulesProofs, FiniteSetTheorems, SequenceTheorems

\* A task has a trade exactly while it is suspended.
Holding == \A t \in Tasks : pc[t] = "idle" <=> job[t] = NoTrade

\* No staged signal ever reaches _fire.
TraderIdle == pc[Trader] = "idle"

Saving == {t \in Tasks : pc[t] \in {"saving", "committing"}}

\* What is saved is registered, and booked if it is saved as closed.
SavesKnown ==
    \A t \in Saving :
        /\ job[t] \in openTrades \cup Booked
        /\ status[t] = "CLOSED" => job[t] \in Booked

IInv == TypeOK /\ Holding /\ TraderIdle /\ SavesKnown /\ OneOwner /\ NoPhantomTrade

USE ExecutorAssumption DEF ExecutorAssumption, Tasks

-----------------------------------------------------------------------------
LEMMA BookedGrows ==
    ASSUME NEW R, closed \in Seq(R), NEW e \in R, closed' = Append(closed, e)
    PROVE  Booked' = Booked \cup {e.id}
  <1>1. /\ Len(closed') = Len(closed) + 1 /\ Len(closed) \in Nat
        /\ closed'[Len(closed) + 1] = e
        /\ \A i \in 1..Len(closed) : closed'[i] = closed[i]
    OBVIOUS
  <1>2. 1..Len(closed') = 1..Len(closed) \cup {Len(closed) + 1}
    BY <1>1
  <1> QED
    BY <1>1, <1>2 DEF Booked

LEMMA BookedKnown == TypeOK => Booked \subseteq TradeIds
  <1> SUFFICES ASSUME TypeOK, NEW i \in 1..Len(closed) PROVE closed[i].id \in TradeIds
    BY DEF Booked
  <1> DEFINE R == [id : TradeIds, day : Nat, pnl : Pnls]
  <1>1. closed \in Seq(R)
    BY DEF TypeOK
  <1>2. closed[i] \in R
    <2> HIDE DEF R
    <2> QED
      BY <1>1
  <1> QED
    BY <1>2

LEMMA BookedSame == UNCHANGED closed => Booked' = Booked
  BY DEF Booked

-----------------------------------------------------------------------------
(***************************************************************************)
(* Types.                                                                   *)
(***************************************************************************)
LEMMA TypeInit == Init => TypeOK
  <1> SUFFICES ASSUME Init PROVE TypeOK
    OBVIOUS
  <1>1. rm \in RiskType
    BY SettingsAssumption DEF Init, FreshManager, RiskType
  <1>2. limits \in LimitsType /\ peakCap \in 1..50
    BY DEF Init, LimitsType
  <1> QED
    BY <1>1, <1>2 DEF Init, TypeOK

LEMMA FireType ==
    ASSUME TypeOK, NEW t \in Tasks, Fire(t)
    PROVE  /\ pc' \in [Tasks -> {"idle", "placing", "saving", "committing", "hung"}]
           /\ job' \in [Tasks -> TradeIds \cup {NoTrade}]
           /\ status' \in [Tasks -> {"OPEN", "CLOSED"}]
           /\ attempt' \in [Tasks -> 0..MaxAttempts]
           /\ seen' \in [Tasks -> BOOLEAN]
  BY DEF TypeOK, Fire

LEMMA TypeStep == TypeOK /\ Holding /\ [Next]_vars => TypeOK'
  <1> SUFFICES ASSUME TypeOK, Holding, [Next]_vars PROVE TypeOK'
    OBVIOUS
  <1> USE DEF TypeOK, taskVars, bookVars, brokerVars, history, rowHistory
  <1>1. ASSUME NEW f \in Feeds, SignalStep(f) PROVE TypeOK'
    <2>1. ASSUME NEW sig \in Signals, SignalRejected(f, sig) PROVE TypeOK'
      BY <2>1, EvaluateType DEF SignalRejected
    <2>2. ASSUME NEW sig \in Signals, SignalFired(f, sig) PROVE TypeOK'
      <3>1. rm' \in RiskType
        BY <2>2, EvaluateType DEF SignalFired
      <3> QED
        BY <2>2, <3>1, FireType DEF SignalFired
    <2>3. ASSUME NEW sig \in Signals, SignalStaged(f, sig) PROVE TypeOK'
      <3>1. rm' \in RiskType
        BY <2>3, EvaluateType DEF SignalStaged
      <3> QED
        BY <2>3, <3>1 DEF SignalStaged
    <2> QED
      BY <1>1, <2>1, <2>2, <2>3 DEF SignalStep
  <1>2. ASSUME NEW t \in Tasks, PlaceStep(t) PROVE TypeOK'
    <2>1. broker' \in [TradeIds -> {"none", "live", "flat"}]
      <3>1. broker \in [TradeIds -> {"none", "live", "flat"}]
        OBVIOUS
      <3>2. BrokerTakes(t) \/ BrokerMisses
        BY <1>2 DEF PlaceStep, PlaceRetry, PlaceFailed, PlaceHangs, PlaceFilled
      <3>3. broker' = broker \/ broker' = [broker EXCEPT ![job[t]] = "live"]
        BY <3>1, <3>2 DEF BrokerTakes, BrokerMisses
      <3> QED
        BY <3>1, <3>3
    <2>2. CASE PlaceRetry(t)
      <3>1. attempt' \in [Tasks -> 0..MaxAttempts]
        BY <2>2 DEF PlaceRetry, AttemptLeft, NextAttempt
      <3> QED
        BY <2>1, <2>2, <3>1 DEF PlaceRetry
    <2>3. CASE PlaceFailed(t)
      BY <2>1, <2>3 DEF PlaceFailed
    <2>4. CASE PlaceFilled(t)
      <3>1. rm' \in RiskType
        BY <2>4, OpenType DEF PlaceFilled
      <3>2. job[t] \in TradeIds
        BY <2>4 DEF PlaceFilled, Holding
      <3> QED
        BY <2>1, <2>4, <3>1, <3>2 DEF PlaceFilled
    <2>5. CASE PlaceHangs(t)
      BY <2>1, <2>5 DEF PlaceHangs
    <2> QED
      BY <1>2, <2>2, <2>3, <2>4, <2>5 DEF PlaceStep
  <1>3. ASSUME NEW t \in Tasks, SaveStep(t) PROVE TypeOK'
    <2>1. CASE SaveBegin(t)
      BY <2>1 DEF SaveBegin
    <2>2. CASE SaveCommit(t)
      <3>1. job[t] \in TradeIds
        BY <2>2 DEF SaveCommit, Holding
      <3>2. stats' \subseteq TradeIds
        BY <2>2, <3>1 DEF SaveCommit, StatsAfter
      <3>3. journal' \in [TradeIds -> {"none", "OPEN", "CLOSED"}]
        BY <2>2, <3>1 DEF SaveCommit, RowWritten
      <3> QED
        BY <2>2, <3>2, <3>3 DEF SaveCommit, TaskDone
    <2>3. CASE SaveRaised(t)
      <3>1. job[t] \in TradeIds
        BY <2>3 DEF SaveRaised, Holding
      <3>2. unsaved' \subseteq TradeIds
        BY <2>3, <3>1 DEF SaveRaised
      <3> QED
        BY <2>3, <3>2 DEF SaveRaised, TaskDone
    <2> QED
      BY <1>3, <2>1, <2>2, <2>3 DEF SaveStep
  <1>4. ASSUME NEW p \in PendingIds, PendingStep(p) PROVE TypeOK'
    <2>1. CASE PendingExpires(p)
      BY <2>1 DEF PendingExpires
    <2>2. CASE ConfirmPending(p)
      BY <2>2 DEF ConfirmPending, UtcNowAware, ExpiresAtAware
    <2>3. CASE CancelPending(p)
      BY <2>3 DEF CancelPending
    <2> QED
      BY <1>4, <2>1, <2>2, <2>3 DEF PendingStep
  <1>5. ASSUME NEW id \in TradeIds, NEW pnl \in Pnls,
               BrokerCloses(id, pnl) \/ BrokerReportsFill(id, pnl)
        PROVE  TypeOK'
    <2>1. updates' \subseteq [id : TradeIds, pnl : Pnls]
      <3>1. [id |-> id, pnl |-> pnl] \in [id : TradeIds, pnl : Pnls]
        OBVIOUS
      <3>2. updates' = updates \cup {[id |-> id, pnl |-> pnl]}
        BY <1>5 DEF BrokerCloses, BrokerReportsFill
      <3> QED
        BY <3>1, <3>2
    <2>2. broker' \in [TradeIds -> {"none", "live", "flat"}]
      <3>1. broker \in [TradeIds -> {"none", "live", "flat"}]
        OBVIOUS
      <3>2. broker' = broker \/ broker' = [broker EXCEPT ![id] = "flat"]
        BY <1>5 DEF BrokerCloses, BrokerReportsFill
      <3> QED
        BY <3>1, <3>2
    <2>3. UNCHANGED <<rm, now, limits, mode, taskVars, openTrades, pending, bookVars, history>>
      BY <1>5 DEF BrokerCloses, BrokerReportsFill
    <2> QED
      BY <2>1, <2>2, <2>3
  <1>6. ASSUME NEW u \in updates, UpdateStep(u) PROVE TypeOK'
    <2>1. u.id \in TradeIds /\ u.pnl \in Pnls /\ u.pnl \in Int
      OBVIOUS
    <2>2. CASE LoseUpdate(u) \/ IgnoreUpdate(u)
      BY <2>2 DEF LoseUpdate, IgnoreUpdate
    <2>3. CASE CloseTrade(u)
      <3>1. rm' \in RiskType
        BY <2>1, <2>3, CloseType DEF CloseTrade
      <3>2. closed' \in Seq([id : TradeIds, day : Nat, pnl : Pnls])
        BY <2>1, <2>3 DEF CloseTrade
      <3>3. updates' \subseteq updates /\ openTrades' \subseteq openTrades
        BY <2>3 DEF CloseTrade, Deliver, Popped
      <3>4. raced' \subseteq TradeIds
        BY <2>1, <2>3 DEF CloseTrade
      <3> QED
        BY <2>1, <2>3, <3>1, <3>2, <3>3, <3>4 DEF CloseTrade
    <2> QED
      BY <1>6, <2>2, <2>3 DEF UpdateStep
  <1>7. CASE ForceDisable
    <2>1. rm' \in RiskType
      BY <1>7 DEF ForceDisable, AfterForceDisable, RiskType
    <2> QED
      BY <1>7, <2>1 DEF ForceDisable
  <1>8. CASE Snapshot
    BY <1>8, RolloverType DEF Snapshot
  <1>9. ASSUME NEW lim \in Limits, UpdateRiskParams(lim) PROVE TypeOK'
    <2>1. lim \in LimitsType /\ lim.maxTradesPerDay \in 1..50
      BY DEF LimitsType
    <2>2. peakCap' \in 1..50
      BY <1>9, <2>1 DEF UpdateRiskParams, MaxOf
    <2> QED
      BY <1>9, <2>1, <2>2 DEF UpdateRiskParams
  <1>10. CASE Midnight
    BY <1>10 DEF Midnight
  <1>11. CASE UNCHANGED vars
    BY <1>11 DEF vars
  <1> QED
    BY <1>1, <1>2, <1>3, <1>4, <1>5, <1>6, <1>7, <1>8, <1>9, <1>10, <1>11 DEF Next

-----------------------------------------------------------------------------
(***************************************************************************)
(* The inductive invariant.  Most steps leave the trades alone and suspend  *)
(* or release at most one task; five do more.                               *)
(***************************************************************************)
LEMMA QuietStep ==
    ASSUME IInv, TypeOK',
           UNCHANGED <<status, openTrades, journal, stats, closed>>,
           \A id \in TradeIds : broker[id] # "none" => broker'[id] # "none",
           \/ UNCHANGED <<pc, job>>
           \/ \E t \in Tasks : /\ pc' = [pc EXCEPT ![t] = "idle"]
                               /\ job' = [job EXCEPT ![t] = NoTrade]
           \/ \E t \in Placing : pc' = [pc EXCEPT ![t] = "hung"] /\ job' = job
    PROVE  IInv'
  <1> USE DEF IInv
  <1>1. Booked' = Booked
    BY BookedSame
  <1>2. \A t \in Tasks : \/ pc'[t] = pc[t] /\ job'[t] = job[t]
                         \/ pc'[t] = "idle" /\ job'[t] = NoTrade
                         \/ /\ pc[t] = "placing" /\ pc'[t] = "hung"
                            /\ job'[t] = job[t]
    BY DEF TypeOK, Placing
  <1>3. Holding' /\ TraderIdle'
    BY <1>2 DEF Holding, TraderIdle
  <1>4. SavesKnown'
    BY <1>1, <1>2 DEF SavesKnown, Saving
  <1>5. OneOwner'
    <2>1. \A t \in Tasks : pc'[t] = "placing" => pc[t] = "placing" /\ job'[t] = job[t]
      BY <1>2
    <2>2. (\A t \in Placing : job[t] \notin openTrades \cup Booked)'
      BY <1>1, <2>1 DEF OneOwner, Placing
    <2>3. (\A t, u \in Placing : job[t] = job[u] => t = u)'
      BY <2>1 DEF OneOwner, Placing
    <2> QED
      BY <1>1, <2>2, <2>3 DEF OneOwner
  <1>6. NoPhantomTrade'
    <2>1. openTrades \cup Booked \subseteq TradeIds
      BY BookedKnown DEF TypeOK
    <2> QED
      BY <1>1, <2>1 DEF NoPhantomTrade
  <1> QED
    BY <1>3, <1>4, <1>5, <1>6

LEMMA FiredStep ==
    ASSUME IInv, TypeOK', NEW f \in Feeds, NEW sig \in Signals, SignalFired(f, sig)
    PROVE  IInv'
  <1> USE DEF IInv
  <1>1. PICK id \in TradeIds : FreshId(id) /\ job' = [job EXCEPT ![f] = id]
    BY DEF SignalFired, Fire
  <1>2. pc' = [pc EXCEPT ![f] = "placing"] /\ pc[f] = "idle"
    BY DEF SignalFired, Fire
  <1>3. UNCHANGED <<status, openTrades, journal, stats, closed, broker>>
    BY DEF SignalFired, Fire, bookVars, brokerVars, history
  <1>4. Booked' = Booked
    BY <1>3, BookedSame
  <1>5. /\ pc'[f] = "placing" /\ job'[f] = id
        /\ \A t \in Tasks \ {f} : pc'[t] = pc[t] /\ job'[t] = job[t]
    BY <1>1, <1>2 DEF TypeOK
  <1>6. id \notin openTrades \cup Booked
    BY <1>1 DEF FreshId, NoPhantomTrade
  <1>7. Holding' /\ TraderIdle'
    BY <1>5 DEF Holding, TraderIdle
  <1>8. SavesKnown'
    BY <1>3, <1>4, <1>5 DEF SavesKnown, Saving
  <1>9. OneOwner'
    <2>1. \A t \in Placing : job[t] # id
      BY <1>1 DEF FreshId, Placing
    <2>2. Placing' = Placing \cup {f} /\ f \notin Placing
      BY <1>2, <1>5 DEF Placing
    <2>3. (\A t \in Placing : job[t] \notin openTrades \cup Booked)'
      BY <1>3, <1>4, <1>5, <1>6, <2>2 DEF OneOwner, Placing
    <2>4. (\A t, u \in Placing : job[t] = job[u] => t = u)'
      BY <1>5, <2>1, <2>2 DEF OneOwner, Placing
    <2> QED
      BY <1>3, <1>4, <2>3, <2>4 DEF OneOwner
  <1>10. NoPhantomTrade'
    BY <1>3, <1>4 DEF NoPhantomTrade
  <1> QED
    BY <1>7, <1>8, <1>9, <1>10

LEMMA FilledStep ==
    ASSUME IInv, TypeOK', NEW t \in Tasks, PlaceFilled(t)
    PROVE  IInv'
  <1> USE DEF IInv
  <1>1. pc' = [pc EXCEPT ![t] = "saving"] /\ pc[t] = "placing" /\ job' = job
    BY DEF PlaceFilled
  <1>2. /\ openTrades' = openTrades \cup {job[t]}
        /\ status' = [status EXCEPT ![t] = "OPEN"]
        /\ UNCHANGED <<journal, stats, closed>>
    BY DEF PlaceFilled, bookVars
  <1>3. Booked' = Booked
    BY <1>2, BookedSame
  <1>4. job[t] \in TradeIds /\ job[t] \notin openTrades \cup Booked
    BY <1>1 DEF TypeOK, Holding, OneOwner, Placing
  <1>5. \A id \in TradeIds : broker'[id] # "none" <=> broker[id] # "none" \/ id = job[t]
    BY <1>4 DEF PlaceFilled, BrokerTakes, TypeOK
  <1>6. Placing' = Placing \ {t} /\ t \in Placing
    BY <1>1 DEF Placing, TypeOK
  <1>7. Holding' /\ TraderIdle'
    BY <1>1 DEF Holding, TraderIdle, TypeOK
  <1>8. SavesKnown'
    <2>1. Saving' = Saving \cup {t}
      BY <1>1 DEF Saving, TypeOK
    <2>2. \A u \in Tasks : status'[u] = IF u = t THEN "OPEN" ELSE status[u]
      BY <1>2 DEF TypeOK
    <2> QED
      BY <1>1, <1>2, <1>3, <2>1, <2>2 DEF SavesKnown
  <1>9. OneOwner'
    BY <1>1, <1>2, <1>3, <1>4, <1>6 DEF OneOwner
  <1>10. NoPhantomTrade'
    <2>1. openTrades \cup Booked \subseteq TradeIds
      BY BookedKnown DEF TypeOK
    <2> QED
      BY <1>2, <1>3, <1>4, <1>5, <2>1 DEF NoPhantomTrade
  <1> QED
    BY <1>7, <1>8, <1>9, <1>10

LEMMA ClosedStep ==
    ASSUME IInv, TypeOK', NEW u \in updates, CloseTrade(u)
    PROVE  IInv'
  <1> USE DEF IInv
  <1> DEFINE e == [id |-> u.id, day |-> now, pnl |-> u.pnl]
  <1>1. /\ pc' = [pc EXCEPT ![Ws] = "saving"] /\ pc[Ws] = "idle"
        /\ job' = [job EXCEPT ![Ws] = u.id]
        /\ status' = [status EXCEPT ![Ws] = "CLOSED"]
    BY DEF CloseTrade
  <1>2. /\ openTrades' = openTrades \ {u.id} /\ u.id \in openTrades
        /\ closed' = Append(closed, e)
        /\ UNCHANGED <<journal, stats, broker>>
    BY DEF CloseTrade, Popped, bookVars
  <1>3. u.id \in TradeIds /\ e \in [id : TradeIds, day : Nat, pnl : Pnls]
    BY DEF TypeOK
  <1>4. closed \in Seq([id : TradeIds, day : Nat, pnl : Pnls])
    BY DEF TypeOK
  <1>5. Booked' = Booked \cup {u.id}
    <2>1. Booked' = Booked \cup {e.id}
      <3> HIDE DEF e
      <3> QED
        BY <1>2, <1>3, <1>4, BookedGrows
    <2> QED
      BY <2>1
  <1>6. /\ pc'[Ws] = "saving" /\ job'[Ws] = u.id /\ status'[Ws] = "CLOSED"
        /\ \A t \in Tasks \ {Ws} : pc'[t] = pc[t] /\ job'[t] = job[t] /\ status'[t] = status[t]
    BY <1>1 DEF TypeOK
  <1>7. u.id \notin Booked
    BY <1>2 DEF OneOwner
  <1>8. Holding' /\ TraderIdle'
    BY <1>3, <1>6 DEF Holding, TraderIdle
  <1>9. SavesKnown'
    BY <1>2, <1>5, <1>6 DEF SavesKnown, Saving
  <1>10. OneOwner'
    <2>1. Placing' = Placing /\ Ws \notin Placing
      BY <1>1, <1>6 DEF Placing
    <2>2. (openTrades \cap Booked = {})'
      BY <1>2, <1>5 DEF OneOwner
    <2>3. (\A t \in Placing : job[t] \notin openTrades \cup Booked)'
      BY <1>2, <1>5, <1>6, <2>1 DEF OneOwner, Placing
    <2>4. (\A t, v \in Placing : job[t] = job[v] => t = v)'
      BY <1>6, <2>1 DEF OneOwner, Placing
    <2>5. (\A i, j \in 1..Len(closed) : closed[i].id = closed[j].id => i = j)'
      <3>1. /\ Len(closed') = Len(closed) + 1 /\ Len(closed) \in Nat
            /\ closed'[Len(closed) + 1] = e
            /\ \A i \in 1..Len(closed) : closed'[i] = closed[i]
        <4> HIDE DEF e
        <4> QED
          BY <1>2, <1>3, <1>4
      <3>2. \A i \in 1..Len(closed) : closed'[i].id # u.id
        BY <1>7, <3>1 DEF Booked
      <3>3. closed'[Len(closed) + 1].id = u.id
        BY <3>1
      <3>4. \A i \in 1..Len(closed') : i \in 1..Len(closed) \/ i = Len(closed) + 1
        BY <3>1
      <3>5. \A i, j \in 1..Len(closed) : closed'[i].id = closed'[j].id => i = j
        BY <3>1 DEF OneOwner
      <3> QED
        BY <3>2, <3>3, <3>4, <3>5
    <2> QED
      BY <2>2, <2>3, <2>4, <2>5 DEF OneOwner
  <1>11. NoPhantomTrade'
    BY <1>2, <1>5 DEF NoPhantomTrade
  <1> QED
    BY <1>8, <1>9, <1>10, <1>11

LEMMA SavedStep ==
    ASSUME IInv, TypeOK', NEW t \in Tasks, SaveBegin(t) \/ SaveCommit(t)
    PROVE  IInv'
  <1> USE DEF IInv
  <1>1. UNCHANGED <<status, openTrades, closed, broker>>
    BY DEF SaveBegin, SaveCommit, TaskDone, brokerVars, history
  <1>2. Booked' = Booked
    BY <1>1, BookedSame
  <1>3. t \in Saving /\ job[t] \in TradeIds
    BY DEF SaveBegin, SaveCommit, Saving, TypeOK, Holding
  <1>4. /\ \A u \in Tasks \ {t} : pc'[u] = pc[u] /\ job'[u] = job[u]
        /\ \/ pc'[t] = "committing" /\ job'[t] = job[t]
           \/ pc'[t] = "idle" /\ job'[t] = NoTrade
    BY DEF SaveBegin, SaveCommit, TaskDone, TypeOK
  <1>5. Holding' /\ TraderIdle'
    BY <1>3, <1>4 DEF Holding, TraderIdle, Saving
  <1>6. SavesKnown'
    BY <1>1, <1>2, <1>3, <1>4 DEF SavesKnown, Saving
  <1>7. OneOwner'
    <2>1. \A u \in Tasks : pc'[u] = "placing" => pc[u] = "placing" /\ job'[u] = job[u]
      BY <1>4
    <2>2. (\A u \in Placing : job[u] \notin openTrades \cup Booked)'
      BY <1>1, <1>2, <2>1 DEF OneOwner, Placing
    <2>3. (\A u, v \in Placing : job[u] = job[v] => u = v)'
      BY <2>1 DEF OneOwner, Placing
    <2> QED
      BY <1>1, <1>2, <2>2, <2>3 DEF OneOwner
  <1>8. NoPhantomTrade'
    <2>1. CASE SaveBegin(t)
      BY <1>1, <1>2, <2>1 DEF SaveBegin, NoPhantomTrade, bookVars
    <2>2. CASE SaveCommit(t)
      <3>1. \A id \in TradeIds : journal'[id] = IF id = job[t] THEN status[t] ELSE journal[id]
        BY <1>3, <2>2 DEF SaveCommit, RowWritten, TypeOK
      <3>2. /\ job[t] \in openTrades \cup Booked
            /\ status[t] = "CLOSED" => job[t] \in Booked
        BY <1>3 DEF SavesKnown
      <3>3. stats' \subseteq Booked
        BY <2>2, <3>2 DEF SaveCommit, StatsAfter, NoPhantomTrade
      <3> QED
        BY <1>1, <1>2, <3>1, <3>2, <3>3 DEF NoPhantomTrade
    <2> QED
      BY <2>1, <2>2
  <1> QED
    BY <1>5, <1>6, <1>7, <1>8

LEMMA InvInit == Init => IInv
  <1> SUFFICES ASSUME Init PROVE IInv
    OBVIOUS
  <1>1. closed = <<>> /\ Booked = {}
    BY DEF Init, Booked
  <1>2. \A t \in Tasks : pc[t] = "idle" /\ job[t] = NoTrade
    BY DEF Init
  <1>3. Holding /\ TraderIdle /\ SavesKnown
    BY <1>2 DEF Holding, TraderIdle, SavesKnown, Saving
  <1>4. OneOwner
    BY <1>1, <1>2 DEF Init, OneOwner, Placing
  <1>5. NoPhantomTrade
    BY <1>1 DEF Init, NoPhantomTrade
  <1> QED
    BY <1>3, <1>4, <1>5, TypeInit DEF IInv

LEMMA InvStep == IInv /\ [Next]_vars => IInv'
  <1> SUFFICES ASSUME IInv, [Next]_vars PROVE IInv'
    OBVIOUS
  <1>0. TypeOK /\ TypeOK'
    BY TypeStep DEF IInv
  <1> USE <1>0 DEF taskVars, bookVars, brokerVars, history
  <1>1. ASSUME NEW f \in Feeds, SignalStep(f) PROVE IInv'
    <2>1. ASSUME NEW sig \in Signals, SignalFired(f, sig) PROVE IInv'
      BY <2>1, FiredStep
    <2>2. ASSUME NEW sig \in Signals, SignalRejected(f, sig) \/ SignalStaged(f, sig)
          PROVE  IInv'
      BY <2>2, QuietStep DEF SignalRejected, SignalStaged
    <2> QED
      BY <1>1, <2>1, <2>2 DEF SignalStep
  <1>2. ASSUME NEW t \in Tasks, PlaceStep(t) PROVE IInv'
    <2>1. CASE PlaceFilled(t)
      BY <2>1, FilledStep
    <2>2. CASE PlaceRetry(t) \/ PlaceFailed(t) \/ PlaceHangs(t)
      <3>1. \A id \in TradeIds : broker[id] # "none" => broker'[id] # "none"
        BY <2>2 DEF PlaceRetry, PlaceFailed, PlaceHangs, BrokerTakes, BrokerMisses, TypeOK
      <3> QED
        BY <2>2, <3>1, QuietStep DEF PlaceRetry, PlaceFailed, PlaceHangs, Placing
    <2> QED
      BY <1>2, <2>1, <2>2 DEF PlaceStep
  <1>3. ASSUME NEW t \in Tasks, SaveStep(t) PROVE IInv'
    <2>1. CASE SaveBegin(t) \/ SaveCommit(t)
      BY <2>1, SavedStep
    <2>2. CASE SaveRaised(t)
      BY <2>2, QuietStep DEF SaveRaised, TaskDone
    <2> QED
      BY <1>3, <2>1, <2>2 DEF SaveStep
  <1>4. ASSUME NEW p \in PendingIds, PendingStep(p) PROVE IInv'
    BY <1>4, QuietStep
       DEF PendingStep, PendingExpires, ConfirmPending, CancelPending,
           UtcNowAware, ExpiresAtAware
  <1>5. ASSUME NEW id \in TradeIds, NEW pnl \in Pnls,
               BrokerCloses(id, pnl) \/ BrokerReportsFill(id, pnl)
        PROVE  IInv'
    <2>1. \A x \in TradeIds : broker[x] # "none" => broker'[x] # "none"
      BY <1>5 DEF BrokerCloses, BrokerReportsFill, TypeOK
    <2> QED
      BY <1>5, <2>1, QuietStep DEF BrokerCloses, BrokerReportsFill
  <1>6. ASSUME NEW u \in updates, UpdateStep(u) PROVE IInv'
    <2>1. CASE CloseTrade(u)
      BY <2>1, ClosedStep
    <2>2. CASE LoseUpdate(u) \/ IgnoreUpdate(u)
      BY <2>2, QuietStep DEF LoseUpdate, IgnoreUpdate
    <2> QED
      BY <1>6, <2>1, <2>2 DEF UpdateStep
  <1>7. CASE \/ ForceDisable \/ Snapshot \/ Midnight
             \/ \E lim \in Limits : UpdateRiskParams(lim)
    BY <1>7, QuietStep DEF ForceDisable, Snapshot, Midnight, UpdateRiskParams
  <1>8. CASE UNCHANGED vars
    BY <1>8, QuietStep DEF vars
  <1> QED
    BY <1>1, <1>2, <1>3, <1>4, <1>5, <1>6, <1>7, <1>8 DEF Next

LEMMA Invariant == Spec => []IInv
  BY InvInit, InvStep, PTL DEF Spec

(* Every reachable state of the executor is well typed.                     *)
THEOREM TypeCorrect == Spec => []TypeOK
  <1>1. IInv => TypeOK
    BY DEF IInv
  <1> QED
    BY <1>1, Invariant, PTL

(* No order is registered or booked twice, and no two tasks place the same  *)
(* order, whatever the retries, the crashes of the journal and the lost,    *)
(* late or repeated order updates.                                          *)
THEOREM OneOwnerHolds == Spec => []OneOwner
  <1>1. IInv => OneOwner
    BY DEF IInv
  <1> QED
    BY <1>1, Invariant, PTL

(* What the bot tracks, books and writes to its journal are orders the      *)
(* broker has taken, and a row or a statistic never runs ahead of the       *)
(* registers it is written from.                                            *)
THEOREM NoPhantomTradeHolds == Spec => []NoPhantomTrade
  <1>1. IInv => NoPhantomTrade
    BY DEF IInv
  <1> QED
    BY <1>1, Invariant, PTL

-----------------------------------------------------------------------------
\* Only an accepted signal starts an order: confirm_pending never does.
LEMMA OrderStarts ==
    ASSUME TypeOK, [Next]_vars, NEW t \in Tasks, pc[t] # "placing", pc'[t] = "placing"
    PROVE  \E f \in Feeds, sig \in Signals : SignalFired(f, sig)
  <1> USE DEF TypeOK, taskVars, bookVars, brokerVars, history
  <1>1. ASSUME NEW f \in Feeds, SignalStep(f)
        PROVE  \E sig \in Signals : SignalFired(f, sig)
    BY <1>1 DEF SignalStep, SignalRejected, SignalStaged
  <1>2. ASSUME NEW u \in Tasks, PlaceStep(u) \/ SaveStep(u) PROVE FALSE
    BY <1>2 DEF PlaceStep, PlaceRetry, PlaceFailed, PlaceHangs, PlaceFilled,
                SaveStep, SaveBegin, SaveCommit, SaveRaised, TaskDone
  <1>3. ASSUME NEW p \in PendingIds, PendingStep(p) PROVE FALSE
    BY <1>3 DEF PendingStep, PendingExpires, ConfirmPending, CancelPending,
                UtcNowAware, ExpiresAtAware
  <1>4. ASSUME NEW id \in TradeIds, NEW pnl \in Pnls,
               BrokerCloses(id, pnl) \/ BrokerReportsFill(id, pnl)
        PROVE  FALSE
    BY <1>4 DEF BrokerCloses, BrokerReportsFill
  <1>5. ASSUME NEW u \in updates, UpdateStep(u) PROVE FALSE
    BY <1>5 DEF UpdateStep, LoseUpdate, CloseTrade, IgnoreUpdate
  <1>6. ASSUME \/ ForceDisable \/ Snapshot \/ Midnight \/ UNCHANGED vars
               \/ \E lim \in Limits : UpdateRiskParams(lim)
        PROVE  FALSE
    BY <1>6 DEF ForceDisable, Snapshot, Midnight, UpdateRiskParams, vars
  <1> QED
    BY <1>1, <1>2, <1>3, <1>4, <1>5, <1>6 DEF Next

(* An order is placed only in the step in which the risk manager accepts a  *)
(* signal, in every mode.                                                   *)
THEOREM NoUnvettedOrderHolds == Spec => NoUnvettedOrder
  <1> DEFINE Vetted ==
        \A t \in Tasks :
          pc[t] # "placing" /\ pc'[t] = "placing"
            => \E sig \in Signals : Decide(rm, now, limits, sig) = "OK"
  <1>1. ASSUME TypeOK, [Next]_vars PROVE [Vetted]_vars
    BY <1>1, OrderStarts DEF SignalFired, Accepted
  <1> QED
    BY <1>1, TypeCorrect, PTL DEF Spec, NoUnvettedOrder

-----------------------------------------------------------------------------
(***************************************************************************)
(* The refinement of AccountLedger: only the close of an open trade changes *)
(* the balance, and it books a trade that was not booked.                   *)
(***************************************************************************)
LEMMA LedgerUnmoved ==
    ASSUME rm'.currentBalance = rm.currentBalance,
           rm'.highWaterMark = rm.highWaterMark,
           UNCHANGED closed
    PROVE  UNCHANGED Ledger!vars
  BY BookedSame DEF Ledger!vars

LEMMA LedgerStep == IInv /\ [Next]_vars => [Ledger!Next]_(Ledger!vars)
  <1> SUFFICES ASSUME IInv, [Next]_vars PROVE [Ledger!Next]_(Ledger!vars)
    OBVIOUS
  <1>0. /\ rm \in RiskType /\ now \in Nat
        /\ closed \in Seq([id : TradeIds, day : Nat, pnl : Pnls])
        /\ updates \subseteq [id : TradeIds, pnl : Pnls]
    BY DEF IInv, TypeOK
  <1> USE <1>0 DEF history
  <1>1. ASSUME NEW f \in Feeds, SignalStep(f) PROVE UNCHANGED Ledger!vars
    <2>1. PICK sig \in Signals : rm' = AfterEvaluate(rm, now, limits, sig)
      BY <1>1 DEF SignalStep, SignalRejected, SignalFired, SignalStaged
    <2>2. UNCHANGED closed
      BY <1>1 DEF SignalStep, SignalRejected, SignalFired, SignalStaged
    <2> QED
      BY <2>1, <2>2, EvaluateMoney, LedgerUnmoved
  <1>2. ASSUME NEW t \in Tasks, PlaceFilled(t) PROVE UNCHANGED Ledger!vars
    BY <1>2, OpenMoney, LedgerUnmoved DEF PlaceFilled
  <1>3. ASSUME NEW t \in Tasks,
               PlaceRetry(t) \/ PlaceFailed(t) \/ PlaceHangs(t) \/ SaveStep(t)
        PROVE  UNCHANGED Ledger!vars
    BY <1>3, LedgerUnmoved
       DEF PlaceRetry, PlaceFailed, PlaceHangs, SaveStep, SaveBegin, SaveCommit, SaveRaised
  <1>4. ASSUME NEW p \in PendingIds, PendingStep(p) PROVE UNCHANGED Ledger!vars
    BY <1>4, LedgerUnmoved DEF PendingStep, PendingExpires, ConfirmPending, CancelPending
  <1>5. ASSUME NEW id \in TradeIds, NEW pnl \in Pnls,
               BrokerCloses(id, pnl) \/ BrokerReportsFill(id, pnl)
        PROVE  UNCHANGED Ledger!vars
    BY <1>5, LedgerUnmoved DEF BrokerCloses, BrokerReportsFill
  <1>6. ASSUME NEW u \in updates, CloseTrade(u) PROVE Ledger!Next
    <2>1. u.id \in TradeIds /\ u.pnl \in Pnls /\ u.pnl \in Int
      OBVIOUS
    <2>2. u.id \notin Booked
      BY <1>6 DEF CloseTrade, IInv, OneOwner
    <2>3. Booked' = Booked \cup {u.id}
      <3> DEFINE e == [id |-> u.id, day |-> now, pnl |-> u.pnl]
      <3>1. closed' = Append(closed, e) /\ e.id = u.id
        BY <1>6 DEF CloseTrade
      <3>2. e \in [id : TradeIds, day : Nat, pnl : Pnls]
        BY <2>1
      <3> HIDE DEF e
      <3> QED
        BY <3>1, <3>2, BookedGrows
    <2>4. /\ rm'.currentBalance = rm.currentBalance + u.pnl
          /\ rm'.highWaterMark = MaxOf(rm.highWaterMark, rm.currentBalance + u.pnl)
      BY <1>6, <2>1, CloseMoney DEF CloseTrade
    <2>5. Ledger!Book(u.id, u.pnl)
      BY <2>2, <2>3, <2>4 DEF Ledger!Book, MaxOf
    <2> QED
      BY <2>1, <2>5 DEF Ledger!Next
  <1>7. ASSUME NEW u \in updates, LoseUpdate(u) \/ IgnoreUpdate(u)
        PROVE  UNCHANGED Ledger!vars
    BY <1>7, LedgerUnmoved DEF LoseUpdate, IgnoreUpdate
  <1>8. ASSUME ForceDisable PROVE UNCHANGED Ledger!vars
    <2>1. /\ rm'.currentBalance = rm.currentBalance
          /\ rm'.highWaterMark = rm.highWaterMark
      BY <1>8 DEF ForceDisable, AfterForceDisable, RiskType
    <2> QED
      BY <1>8, <2>1, LedgerUnmoved DEF ForceDisable
  <1>9. ASSUME Snapshot PROVE UNCHANGED Ledger!vars
    BY <1>9, RolloverMoney, LedgerUnmoved DEF Snapshot
  <1>10. ASSUME Midnight \/ (\E lim \in Limits : UpdateRiskParams(lim)) \/ UNCHANGED vars
         PROVE  UNCHANGED Ledger!vars
    BY <1>10, LedgerUnmoved DEF Midnight, UpdateRiskParams, vars
  <1> QED
    BY <1>1, <1>2, <1>3, <1>4, <1>5, <1>6, <1>7, <1>8, <1>9, <1>10
       DEF Next, PlaceStep, UpdateStep

(* The executor implements the account ledger: the result of a trade enters *)
(* the balance at most once, with the close that takes the trade out of the *)
(* register, nothing else moves the balance, and the high-water mark is the *)
(* running maximum.                                                         *)
THEOREM LedgerImplemented == Spec => ImplementsLedger
  <1>1. Init => Ledger!Init
    BY DEF Init, Ledger!Init, FreshManager, Booked
  <1> QED
    BY <1>1, Invariant, LedgerStep, PTL DEF Spec, ImplementsLedger, Ledger!Spec

-----------------------------------------------------------------------------
(***************************************************************************)
(* The refinement of RiskManager.                                           *)
(***************************************************************************)

\* The instance has its own copy of the operators of RiskRules.
LEMMA SameRollover ==
    ASSUME NEW r, NEW day
    PROVE  RM!Rollover(r, day) = Rollover(r, day)
  BY DEF RM!Rollover, Rollover, RM!CloseDay, CloseDay, RM!MaxOf, MaxOf

LEMMA SameDecide ==
    ASSUME NEW r, NEW day, NEW lim, NEW sig
    PROVE  /\ RM!Decide(r, day, lim, sig) = Decide(r, day, lim, sig)
           /\ RM!AfterEvaluate(r, day, lim, sig) = AfterEvaluate(r, day, lim, sig)
  <1>1. ASSUME NEW q PROVE RM!RejectReason(q, lim, sig) = RejectReason(q, lim, sig)
    BY DEF RM!RejectReason, RejectReason,
           RM!TradeCapReached, TradeCapReached, RM!LossStreakReached, LossStreakReached,
           RM!DailyLossReached, DailyLossReached, RM!DrawdownReached, DrawdownReached,
           RM!ConsistencyBroken, ConsistencyBroken, RM!TotalProfit, TotalProfit,
           RM!SpreadTooWide, SpreadTooWide, RM!SizePosition, SizePosition
  <1> QED
    BY <1>1, SameRollover DEF RM!Decide, Decide, RM!AfterEvaluate, AfterEvaluate,
                              RM!HaltingReasons, HaltingReasons

LEMMA SameBooking ==
    ASSUME NEW r, NEW day, NEW pnl
    PROVE  /\ RM!AfterTradeOpen(r, day) = AfterTradeOpen(r, day)
           /\ RM!AfterTradeClose(r, day, pnl) = AfterTradeClose(r, day, pnl)
           /\ RM!AfterForceDisable(r) = AfterForceDisable(r)
  BY SameRollover
     DEF RM!AfterTradeOpen, AfterTradeOpen, RM!AfterTradeClose, AfterTradeClose,
         RM!StreakAfter, StreakAfter, RM!MaxOf, MaxOf,
         RM!AfterForceDisable, AfterForceDisable

\* The order in flight of each feed.
LEMMA PlacingFinite ==
    ASSUME IInv
    PROVE  Placing \subseteq Feeds /\ IsFiniteSet(Placing) /\ Cardinality(Placing) \in Nat
  <1>1. Placing \subseteq Feeds
    BY DEF IInv, TraderIdle, Placing
  <1> QED
    BY <1>1, FS_Subset, FS_CardinalityType

\* Every trade opened so far is open or booked, and counted once.
LEMMA OpenedOnce ==
    ASSUME IInv
    PROVE  /\ IsFiniteSet(openTrades) /\ Cardinality(openTrades) \in Nat
           /\ Cardinality(openTrades) + Len(closed) = Cardinality(openTrades \cup Booked)
  <1>1. /\ Booked \subseteq TradeIds /\ openTrades \subseteq TradeIds
        /\ openTrades \cap Booked = {}
    BY BookedKnown DEF IInv, TypeOK, OneOwner
  <1>2. IsFiniteSet(Booked) /\ IsFiniteSet(openTrades)
    BY <1>1, FS_Subset
  <1>3. Cardinality(Booked) = Len(closed)
    <2>1. Len(closed) \in Nat
      BY DEF IInv, TypeOK
    <2> DEFINE f == [i \in 1..Len(closed) |-> closed[i].id]
    <2>2. f \in Bijection(1..Len(closed), Booked)
      <3>1. f \in Injection(1..Len(closed), Booked)
        <4>1. f \in [1..Len(closed) -> Booked]
          BY DEF Booked
        <4>2. \A i, j \in 1..Len(closed) : f[i] = f[j] => i = j
          BY DEF IInv, OneOwner
        <4> HIDE DEF f
        <4> QED
          BY <4>1, <4>2 DEF Injection, IsInjective
      <3>2. \A id \in Booked : \E i \in 1..Len(closed) : f[i] = id
        BY DEF Booked
      <3> HIDE DEF f
      <3> QED
        BY <3>1, <3>2 DEF Bijection, Injection, Surjection
    <2> HIDE DEF f
    <2>3. ExistsBijection(1..Len(closed), Booked)
      BY <2>2 DEF ExistsBijection
    <2>4. IsFiniteSet(1..Len(closed)) /\ Cardinality(1..Len(closed)) = Len(closed)
      <3>1. 1 \in Int /\ Len(closed) \in Int
        BY <2>1
      <3>2. /\ IsFiniteSet(1..Len(closed))
            /\ Cardinality(1..Len(closed))
                 = IF 1 > Len(closed) THEN 0 ELSE Len(closed) - 1 + 1
        BY <3>1, FS_Interval, Zenon
      <3> QED
        BY <2>1, <3>2
    <2> DEFINE S == 1..Len(closed)
    <2>5. IsFiniteSet(S) /\ ExistsBijection(S, Booked)
      BY <2>3, <2>4
    <2> HIDE DEF S
    <2>6. Cardinality(Booked) = Cardinality(S)
      BY <2>5, FS_Bijection
    <2> QED
      BY <2>4, <2>6 DEF S
  <1>4. Len(closed) \in Nat /\ Cardinality(openTrades) \in Nat
    BY <1>2, FS_CardinalityType DEF IInv, TypeOK
  <1>5. Cardinality(openTrades \cup Booked)
          = Cardinality(openTrades) + Cardinality(Booked) - Cardinality(openTrades \cap Booked)
    BY <1>2, FS_Union
  <1> QED
    BY <1>1, <1>2, <1>3, <1>4, <1>5, FS_EmptySet

\* The history of the risk manager, read off the trades booked.
Results == [i \in 1..Len(closed) |-> [day |-> closed[i].day, pnl |-> closed[i].pnl]]

LEMMA ResultsGrow ==
    ASSUME NEW R, closed \in Seq(R), NEW e \in R, closed' = Append(closed, e)
    PROVE  Results' = Append(Results, [day |-> e.day, pnl |-> e.pnl])
  <1> DEFINE Res(c) == [day |-> c.day, pnl |-> c.pnl]
             T == {Res(c) : c \in R}
             n == Len(closed)
             d == Res(e)
  <1>1. n \in Nat /\ d \in T
    OBVIOUS
  <1>2. /\ Len(closed') = n + 1 /\ closed'[n + 1] = e
        /\ \A i \in 1..n : closed'[i] = closed[i] /\ closed[i] \in R
    OBVIOUS
  <1>3. Results = [i \in 1..n |-> Res(closed[i])]
    BY DEF Results
  <1>4. Results' = [i \in 1..(n + 1) |-> Res(closed'[i])]
    BY <1>2 DEF Results
  <1>5. /\ n + 1 \in 1..(n + 1)
        /\ \A i \in 1..n : i \in 1..(n + 1)
        /\ \A i \in 1..(n + 1) : i \in 1..n \/ i = n + 1
    BY <1>1
  <1>6. \A i \in 1..n : Res(closed'[i]) = Res(closed[i]) /\ Res(closed[i]) \in T
    BY <1>2
  <1>7. Res(closed'[n + 1]) = d
    BY <1>2
  <1> HIDE DEF T, n, d, Res
  <1>8. Results \in Seq(T) /\ Len(Results) = n
    <2>1. Results \in [1..n -> T]
      BY <1>3, <1>6
    <2> QED
      BY <1>1, <2>1
  <1>9. Results' \in Seq(T) /\ Len(Results') = n + 1
    <2>1. Results' \in [1..(n + 1) -> T]
      BY <1>1, <1>4, <1>5, <1>6, <1>7
    <2> QED
      BY <1>1, <2>1
  <1>10. /\ Append(Results, d) \in Seq(T) /\ Len(Append(Results, d)) = n + 1
         /\ Append(Results, d)[n + 1] = d
         /\ \A i \in 1..n : Append(Results, d)[i] = Results[i]
    BY <1>1, <1>8
  <1>11. \A i \in 1..(n + 1) : Results'[i] = Append(Results, d)[i]
    <2>1. \A i \in 1..n : Results'[i] = Results[i]
      BY <1>3, <1>4, <1>5, <1>6, Zenon
    <2>2. Results'[n + 1] = d
      BY <1>4, <1>5, <1>7, Zenon
    <2> QED
      BY <1>5, <1>10, <2>1, <2>2
  <1>12. Results' = Append(Results, d)
    BY <1>9, <1>10, <1>11, SeqEqual
  <1> QED
    BY <1>12 DEF d, Res

\* A task leaves or enters the broker's answer.
LEMMA FlightEnds ==
    ASSUME IInv, NEW t \in Tasks, pc[t] = "placing", NEW next \in {"idle", "saving", "hung"},
           pc' = [pc EXCEPT ![t] = next]
    PROVE  Cardinality(Placing) > 0 /\ Cardinality(Placing') = Cardinality(Placing) - 1
  <1>1. t \in Placing /\ Placing' = Placing \ {t}
    BY DEF Placing, IInv, TypeOK
  <1>2. Cardinality(Placing') = Cardinality(Placing) - 1
    BY <1>1, PlacingFinite, FS_RemoveElement
  <1>3. Cardinality(Placing) # 0
    BY <1>1, PlacingFinite, FS_EmptySet
  <1> QED
    BY <1>2, <1>3, PlacingFinite

LEMMA FlightStarts ==
    ASSUME IInv, NEW f \in Feeds, pc[f] = "idle", pc' = [pc EXCEPT ![f] = "placing"]
    PROVE  /\ Cardinality(Placing) < Cardinality(Feeds)
           /\ Cardinality(Placing') = Cardinality(Placing) + 1
  <1>1. f \notin Placing /\ Placing' = Placing \cup {f}
    BY DEF Placing, IInv, TypeOK
  <1>2. Placing \cup {f} \subseteq Feeds
    BY PlacingFinite
  <1>3. Cardinality(Placing \cup {f}) = Cardinality(Placing) + 1
    BY <1>1, PlacingFinite, FS_AddElement
  <1>4. /\ Cardinality(Placing \cup {f}) <= Cardinality(Feeds)
        /\ Cardinality(Feeds) \in Nat
    BY <1>2, FS_Subset, FS_CardinalityType
  <1> QED
    BY <1>1, <1>3, <1>4, PlacingFinite

LEMMA FlightGoesOn ==
    ASSUME IInv,
           \/ UNCHANGED pc
           \/ \E t \in Tasks, next \in {"idle", "saving", "committing"} :
                 pc[t] # "placing" /\ pc' = [pc EXCEPT ![t] = next]
    PROVE  Placing' = Placing
  BY DEF Placing, IInv, TypeOK

LEMMA FiredAccepts ==
    ASSUME IInv, NEW f \in Feeds, NEW sig \in Signals, SignalFired(f, sig)
    PROVE  RM!EvaluateAccept(sig)
  <1>1. /\ Cardinality(Placing) < Cardinality(Feeds)
        /\ Cardinality(Placing') = Cardinality(Placing) + 1
    BY FlightStarts DEF SignalFired, Fire
  <1> QED
    BY <1>1, SameDecide DEF SignalFired, Accepted, history, RM!EvaluateAccept, RM!history

LEMMA ManagerUnmoved ==
    ASSUME UNCHANGED <<rm, now, limits, openTrades, closed, openDays, peakCap>>,
           Placing' = Placing
    PROVE  UNCHANGED RM!vars
  BY DEF RM!vars, RM!caller, RM!history

LEMMA ManagerStep == IInv /\ [Next]_vars => [RM!Next]_(RM!vars)
  <1> SUFFICES ASSUME IInv, [Next]_vars PROVE [RM!Next]_(RM!vars)
    OBVIOUS
  <1> USE DEF history, RM!caller, RM!history
  <1>1. ASSUME NEW f \in Feeds, NEW sig \in Signals, SignalRejected(f, sig)
        PROVE  RM!Next
    <2>1. Placing' = Placing
      BY <1>1, FlightGoesOn DEF SignalRejected, taskVars
    <2>2. RM!EvaluateReject(sig)
      BY <1>1, <2>1, SameDecide DEF SignalRejected, Accepted, RM!EvaluateReject
    <2> QED
      BY <2>2 DEF RM!Next
  <1>2. ASSUME NEW f \in Feeds, NEW sig \in Signals, SignalFired(f, sig)
        PROVE  RM!Next
    BY <1>2, FiredAccepts DEF RM!Next
  <1>3. ASSUME NEW f \in Feeds, NEW sig \in Signals, SignalStaged(f, sig)
        PROVE  RM!Next
    <2>1. Placing' = Placing
      BY <1>3, FlightGoesOn DEF SignalStaged, taskVars
    <2>2. RM!EvaluatePark(sig)
      BY <1>3, <2>1, SameDecide DEF SignalStaged, Accepted, RM!EvaluatePark
    <2> QED
      BY <2>2 DEF RM!Next
  <1>4. ASSUME NEW t \in Tasks, PlaceRetry(t) PROVE UNCHANGED RM!vars
    BY <1>4, FlightGoesOn, ManagerUnmoved DEF PlaceRetry
  <1>5. ASSUME NEW t \in Tasks, PlaceFailed(t) \/ PlaceHangs(t) PROVE RM!Next
    <2>1. Cardinality(Placing) > 0 /\ Cardinality(Placing') = Cardinality(Placing) - 1
      BY <1>5, FlightEnds DEF PlaceFailed, PlaceHangs
    <2>2. RM!Abandon
      BY <1>5, <2>1 DEF PlaceFailed, PlaceHangs, RM!Abandon
    <2> QED
      BY <2>2 DEF RM!Next
  <1>6. ASSUME NEW t \in Tasks, PlaceFilled(t) PROVE RM!Next
    <2>1. Cardinality(Placing) > 0 /\ Cardinality(Placing') = Cardinality(Placing) - 1
      BY <1>6, FlightEnds DEF PlaceFilled
    <2>2. job[t] \in TradeIds /\ job[t] \notin openTrades \cup Booked
      BY <1>6 DEF PlaceFilled, IInv, TypeOK, Holding, OneOwner, Placing
    <2>3. Cardinality(openTrades') = Cardinality(openTrades) + 1
      BY <1>6, <2>2, OpenedOnce, FS_AddElement DEF PlaceFilled
    <2>4. Cardinality(openTrades) + Len(Results) < Cardinality(TradeIds)
      <3> DEFINE known == openTrades \cup Booked
      <3>1. known \subseteq TradeIds /\ known # TradeIds
        BY <2>2, BookedKnown DEF IInv, TypeOK
      <3> HIDE DEF known
      <3>2. /\ Cardinality(known) <= Cardinality(TradeIds)
            /\ Cardinality(known) # Cardinality(TradeIds)
            /\ Cardinality(known) \in Nat /\ Cardinality(TradeIds) \in Nat
        BY <3>1, FS_Subset, FS_CardinalityType
      <3>3. Cardinality(openTrades) + Len(closed) = Cardinality(known)
        BY OpenedOnce DEF known
      <3>4. Len(Results) = Len(closed)
        <4>1. Len(closed) \in Nat
          BY DEF IInv, TypeOK
        <4> QED
          BY <4>1 DEF Results
      <3> QED
        BY <3>2, <3>3, <3>4
    <2>5. RM!RegisterTradeOpen
      BY <1>6, <2>1, <2>3, <2>4, SameBooking
         DEF PlaceFilled, RM!RegisterTradeOpen, Results
    <2> QED
      BY <2>5 DEF RM!Next
  <1>7. ASSUME NEW t \in Tasks, SaveStep(t) PROVE UNCHANGED RM!vars
    <2>1. Placing' = Placing
      BY <1>7, FlightGoesOn DEF SaveStep, SaveBegin, SaveCommit, SaveRaised, TaskDone
    <2> QED
      BY <1>7, <2>1, ManagerUnmoved DEF SaveStep, SaveBegin, SaveCommit, SaveRaised
  <1>8. ASSUME NEW p \in PendingIds, PendingStep(p) PROVE UNCHANGED RM!vars
    <2>1. UNCHANGED pc
      BY <1>8 DEF PendingStep, PendingExpires, ConfirmPending, CancelPending,
                  UtcNowAware, ExpiresAtAware, taskVars
    <2> QED
      BY <1>8, <2>1, FlightGoesOn, ManagerUnmoved
         DEF PendingStep, PendingExpires, ConfirmPending, CancelPending
  <1>9. ASSUME NEW id \in TradeIds, NEW pnl \in Pnls,
               BrokerCloses(id, pnl) \/ BrokerReportsFill(id, pnl)
        PROVE  UNCHANGED RM!vars
    BY <1>9, FlightGoesOn, ManagerUnmoved DEF BrokerCloses, BrokerReportsFill, taskVars
  <1>10. ASSUME NEW u \in updates, CloseTrade(u) PROVE RM!Next
    <2>1. u.id \in TradeIds /\ u.pnl \in Pnls
      BY DEF IInv, TypeOK
    <2>2. u.id \in openTrades
      BY <1>10 DEF CloseTrade
    <2>3. Placing' = Placing
      BY <1>10, FlightGoesOn DEF CloseTrade
    <2>4. /\ Cardinality(openTrades') = Cardinality(openTrades) - 1
          /\ Cardinality(openTrades) > 0
      <3>1. Cardinality(openTrades \ {u.id}) = Cardinality(openTrades) - 1
        BY <2>2, OpenedOnce, FS_RemoveElement
      <3>2. Cardinality(openTrades) # 0
        BY <2>2, OpenedOnce, FS_EmptySet
      <3> QED
        BY <1>10, <3>1, <3>2, OpenedOnce DEF CloseTrade, Popped
    <2>5. Results' = Append(Results, [day |-> now, pnl |-> u.pnl])
      <3> DEFINE e == [id |-> u.id, day |-> now, pnl |-> u.pnl]
                 R == [id : TradeIds, day : Nat, pnl : Pnls]
      <3>1. closed' = Append(closed, e) /\ e.day = now /\ e.pnl = u.pnl
        BY <1>10 DEF CloseTrade
      <3>2. e \in R /\ closed \in Seq(R)
        BY <2>1 DEF IInv, TypeOK
      <3> HIDE DEF e, R
      <3> QED
        BY <3>1, <3>2, ResultsGrow
    <2>6. RM!RegisterTradeClose(u.pnl)
      BY <1>10, <2>3, <2>4, <2>5, SameBooking
         DEF CloseTrade, RM!RegisterTradeClose, Results
    <2> QED
      BY <2>1, <2>6 DEF RM!Next
  <1>11. ASSUME NEW u \in updates, LoseUpdate(u) \/ IgnoreUpdate(u)
         PROVE  UNCHANGED RM!vars
    BY <1>11, FlightGoesOn, ManagerUnmoved DEF LoseUpdate, IgnoreUpdate, taskVars
  <1>12. ASSUME ForceDisable PROVE RM!Next
    <2>1. RM!ForceDisable
      BY <1>12, FlightGoesOn, SameBooking DEF ForceDisable, RM!ForceDisable, taskVars
    <2> QED
      BY <2>1 DEF RM!Next
  <1>13. ASSUME Snapshot PROVE RM!Next
    <2>1. RM!Snapshot
      BY <1>13, FlightGoesOn, SameRollover DEF Snapshot, RM!Snapshot, taskVars
    <2> QED
      BY <2>1 DEF RM!Next
  <1>14. ASSUME NEW lim \in Limits, UpdateRiskParams(lim) PROVE RM!Next
    <2>1. RM!UpdateRiskParams(lim)
      BY <1>14, FlightGoesOn
         DEF UpdateRiskParams, RM!UpdateRiskParams, taskVars, MaxOf, RM!MaxOf
    <2> QED
      BY <2>1 DEF RM!Next
  <1>15. ASSUME Midnight PROVE RM!Next
    <2>1. RM!Midnight
      BY <1>15, FlightGoesOn DEF Midnight, RM!Midnight, taskVars
    <2> QED
      BY <2>1 DEF RM!Next
  <1>16. ASSUME UNCHANGED vars PROVE UNCHANGED RM!vars
    BY <1>16, FlightGoesOn, ManagerUnmoved DEF vars, taskVars
  <1> QED
    BY <1>1, <1>2, <1>3, <1>4, <1>5, <1>6, <1>7, <1>8, <1>9, <1>10, <1>11, <1>12,
       <1>13, <1>14, <1>15, <1>16
       DEF Next, SignalStep, PlaceStep, UpdateStep

(* The concurrent executor drives the risk manager as RiskManager assumes:  *)
(* one acceptance per order in flight and one order in flight per feed,     *)
(* trades registered only from a flight, and closed only if open.           *)
THEOREM RiskManagerImplemented == Spec => ImplementsRiskManager
  <1>1. Init => RM!Init
    <2> SUFFICES ASSUME Init PROVE RM!Init
      OBVIOUS
    <2>1. Placing = {} /\ openTrades = {} /\ closed = <<>>
      BY DEF Init, Placing
    <2>2. Cardinality(Placing) = 0 /\ Cardinality(openTrades) = 0
      BY <2>1, FS_EmptySet
    <2>3. Results = <<>>
      BY <2>1 DEF Results
    <2> QED
      BY <2>2, <2>3 DEF Init, RM!Init, FreshManager, RM!FreshManager, Results
  <1> QED
    BY <1>1, Invariant, ManagerStep, PTL DEF Spec, ImplementsRiskManager, RM!Spec

-----------------------------------------------------------------------------
(***************************************************************************)
(* What is proved of RiskManager therefore holds of the executor.  RMP is   *)
(* the instance that carries the theorems; its specification is that of RM. *)
(***************************************************************************)
RMP == INSTANCE RiskManagerProofs
        WITH Slots <- Cardinality(Feeds),
             MaxOpens <- Cardinality(TradeIds),
             inFlight <- Cardinality(Placing),
             openCount <- Cardinality(openTrades),
             results <- Results

\* Each instance has its own copy of the operators.
LEMMA CopiedDecide ==
    ASSUME NEW r, NEW day, NEW lim, NEW sig
    PROVE  /\ RMP!Decide(r, day, lim, sig) = RM!Decide(r, day, lim, sig)
           /\ RMP!AfterEvaluate(r, day, lim, sig) = RM!AfterEvaluate(r, day, lim, sig)
           /\ RMP!Rollover(r, day) = RM!Rollover(r, day)
  <1>1. ASSUME NEW q PROVE RMP!RejectReason(q, lim, sig) = RM!RejectReason(q, lim, sig)
    BY DEF RM!RejectReason, RMP!RejectReason,
           RM!TradeCapReached, RMP!TradeCapReached,
           RM!LossStreakReached, RMP!LossStreakReached,
           RM!DailyLossReached, RMP!DailyLossReached,
           RM!DrawdownReached, RMP!DrawdownReached,
           RM!ConsistencyBroken, RMP!ConsistencyBroken,
           RM!TotalProfit, RMP!TotalProfit,
           RM!SpreadTooWide, RMP!SpreadTooWide, RM!SizePosition, RMP!SizePosition
  <1>2. RMP!Rollover(r, day) = RM!Rollover(r, day)
    BY DEF RM!Rollover, RMP!Rollover, RM!CloseDay, RMP!CloseDay, RM!MaxOf, RMP!MaxOf
  <1> QED
    BY <1>1, <1>2 DEF RM!Decide, RMP!Decide, RM!AfterEvaluate, RMP!AfterEvaluate,
                      RM!HaltingReasons, RMP!HaltingReasons

LEMMA CopiedBooking ==
    ASSUME NEW r, NEW day, NEW pnl
    PROVE  /\ RMP!AfterTradeOpen(r, day) = RM!AfterTradeOpen(r, day)
           /\ RMP!AfterTradeClose(r, day, pnl) = RM!AfterTradeClose(r, day, pnl)
           /\ RMP!AfterForceDisable(r) = RM!AfterForceDisable(r)
  BY CopiedDecide
     DEF RM!AfterTradeOpen, RMP!AfterTradeOpen, RM!AfterTradeClose, RMP!AfterTradeClose,
         RM!StreakAfter, RMP!StreakAfter, RM!MaxOf, RMP!MaxOf,
         RM!AfterForceDisable, RMP!AfterForceDisable

LEMMA CopiedManager ==
    /\ RM!Init => RMP!Init
    /\ [RM!Next]_(RM!vars) => [RMP!Next]_(RMP!vars)
  <1>1. RM!Init => RMP!Init
    BY DEF RM!Init, RMP!Init, RM!FreshManager, RMP!FreshManager, Results
  <1> USE DEF RM!caller, RMP!caller, RM!history, RMP!history, Results
  <1>2. UNCHANGED RM!vars => UNCHANGED RMP!vars
    BY DEF RM!vars, RMP!vars
  <1>3. RM!Next => RMP!Next
    <2> SUFFICES ASSUME RM!Next PROVE RMP!Next
      OBVIOUS
    <2>1. ASSUME NEW sig \in Signals,
                 RM!EvaluateReject(sig) \/ RM!EvaluateAccept(sig) \/ RM!EvaluatePark(sig)
          PROVE  RMP!EvaluateReject(sig) \/ RMP!EvaluateAccept(sig) \/ RMP!EvaluatePark(sig)
      BY <2>1, CopiedDecide
         DEF RM!EvaluateReject, RMP!EvaluateReject, RM!EvaluateAccept, RMP!EvaluateAccept,
             RM!EvaluatePark, RMP!EvaluatePark
    <2>2. CASE RM!Abandon
      BY <2>2 DEF RM!Abandon, RMP!Abandon, RMP!Next
    <2>3. CASE RM!RegisterTradeOpen
      BY <2>3, CopiedBooking DEF RM!RegisterTradeOpen, RMP!RegisterTradeOpen, RMP!Next
    <2>4. ASSUME NEW pnl \in Pnls, RM!RegisterTradeClose(pnl) PROVE RMP!RegisterTradeClose(pnl)
      BY <2>4, CopiedBooking DEF RM!RegisterTradeClose, RMP!RegisterTradeClose
    <2>5. CASE RM!ForceDisable \/ RM!Snapshot \/ RM!Midnight
      BY <2>5, CopiedDecide, CopiedBooking
         DEF RM!ForceDisable, RMP!ForceDisable, RM!Snapshot, RMP!Snapshot,
             RM!Midnight, RMP!Midnight, RMP!Next
    <2>6. ASSUME NEW lim \in Limits, RM!UpdateRiskParams(lim) PROVE RMP!UpdateRiskParams(lim)
      BY <2>6 DEF RM!UpdateRiskParams, RMP!UpdateRiskParams, RM!MaxOf, RMP!MaxOf
    <2> QED
      BY <2>1, <2>2, <2>3, <2>4, <2>5, <2>6 DEF RM!Next, RMP!Next
  <1> QED
    BY <1>1, <1>2, <1>3

\* The assumptions of RiskManager and RiskRules, under the mapping.
LEMMA ManagerParameters ==
    /\ Signals \subseteq RMP!SignalType
    /\ Limits \subseteq RMP!LimitsType
    /\ Limits # {}
    /\ Pnls \subseteq Int
    /\ Cardinality(Feeds) \in Nat \ {0}
    /\ MaxDay \in Nat
    /\ Cardinality(TradeIds) \in Nat
  <1>1. Cardinality(Feeds) \in Nat /\ Cardinality(TradeIds) \in Nat
    BY FS_CardinalityType
  <1>2. Cardinality(Feeds) # 0
    BY FS_EmptySet
  <1> QED
    BY <1>1, <1>2 DEF RMP!SignalType, SignalType, RMP!LimitsType, LimitsType

LEMMA ManagerTheorems ==
    Spec => /\ []RMP!CapOvershootBound /\ RMP!HaltLasts /\ RMP!SizeWithinBudget
            /\ []RMP!FiguresMatchHistory
  <1>1. /\ StartingBalance \in Nat \ {0}
        /\ AccountBalance \in Nat \ {0}
        /\ RiskPerTradePct \in 0..100
        /\ MaxConsecutiveLosses \in 1..10
        /\ MaxTotalDdPct \in 0..100
        /\ ConsistencyPct \in 0..100
        /\ MaxSpreadFx \in Nat
        /\ MaxSpreadMetals \in Nat
        /\ QuotePerPipPerLot \in Nat \ {0}
        /\ NoDay \notin Nat
    BY SettingsAssumption
  <1>2. RMP!Spec => []RMP!CapOvershootBound
    BY <1>1, ManagerParameters, RMP!CapOvershoot
  <1>3. RMP!Spec => RMP!HaltLasts
    BY <1>1, ManagerParameters, RMP!HaltIsSticky
  <1>4. RMP!Spec => RMP!SizeWithinBudget
    BY <1>1, ManagerParameters, RMP!SizingIsSafe
  <1>5. RMP!Spec => []RMP!FiguresMatchHistory
    BY <1>1, ManagerParameters, RMP!FiguresAreTheHistory
  <1>6. Spec => RMP!Spec
    BY RiskManagerImplemented, CopiedManager, PTL
       DEF ImplementsRiskManager, RM!Spec, RMP!Spec
  <1> QED
    BY <1>2, <1>3, <1>4, <1>5, <1>6, PTL

(* The figures stay those of the trades when several feeds, the HTTP tasks  *)
(* and midnight interleave: RMP!FiguresMatchHistory reads the executor's    *)
(* own list of closed trades, with the days and results it booked.          *)
THEOREM FiguresUnderConcurrency == Spec => []RMP!FiguresMatchHistory
  BY ManagerTheorems, PTL

(* The daily cap with concurrent feeds: the trades registered today plus    *)
(* the orders being placed exceed the highest configured cap by at most the *)
(* number of feeds minus one, whatever the retries, failures and closes.    *)
THEOREM DailyCap ==
    Spec => [](rm.tradesToday + Cardinality(Placing) <= peakCap + Cardinality(Feeds) - 1)
  <1>1. RMP!CapOvershootBound
          => rm.tradesToday + Cardinality(Placing) <= peakCap + Cardinality(Feeds) - 1
    BY DEF RMP!CapOvershootBound
  <1> QED
    BY <1>1, ManagerTheorems, PTL

(* A halt stops the executor: until the manager's day rolls over it stays   *)
(* halted, and no task starts to place an order.                            *)
THEOREM HaltStopsOrders ==
    Spec => [][ rm.disabled /\ rm'.today = rm.today
                  => /\ rm'.disabled
                     /\ \A t \in Tasks : pc'[t] = "placing" => pc[t] = "placing" ]_vars
  <1> DEFINE Halted == rm.disabled /\ rm'.today = rm.today
             NoStart == \A t \in Tasks : pc'[t] = "placing" => pc[t] = "placing"
             Kept == Halted => rm'.disabled /\ ~RMP!AcceptStep
  <1>1. ASSUME TypeOK, [Next]_vars, Halted PROVE NoStart
    <2> SUFFICES ASSUME NEW t \in Tasks, pc'[t] = "placing", pc[t] # "placing"
                 PROVE  FALSE
      OBVIOUS
    <2>1. PICK f \in Feeds, sig \in Signals : SignalFired(f, sig)
      BY <1>1, OrderStarts
    <2>2. rm \in RiskType /\ now \in Nat
      BY <1>1 DEF TypeOK
    <2>3. Rollover(rm, now) = rm
      BY <1>1, <2>1, <2>2, EvaluateFields, RolloverCount DEF SignalFired
    <2> QED
      BY <1>1, <2>1, <2>3, AcceptedGuards DEF SignalFired, Accepted
  <1>2. [Kept]_(RMP!vars) /\ Halted => rm'.disabled
    BY DEF RMP!vars
  <1>3. TypeOK /\ [Next]_vars /\ [Kept]_(RMP!vars) => [Halted => rm'.disabled /\ NoStart]_vars
    BY <1>1, <1>2
  <1> QED
    BY <1>3, TypeCorrect, ManagerTheorems, PTL DEF Spec, RMP!HaltLasts

(* Whatever else runs between the evaluation of a signal and the fill of    *)
(* its order, the order is at least one lot step, and its loss at the stop  *)
(* is within risk_per_trade_pct of the balance on which it was accepted.    *)
THEOREM OrdersWithinBudget ==
    Spec => [][ \A f \in Feeds, sig \in Signals : SignalFired(f, sig) =>
                  /\ SizePosition(rm', sig) >= 1
                  /\ SizePosition(rm', sig) * sig.riskPips * QuotePerPipPerLot
                       <= rm'.currentBalance * RiskPerTradePct ]_vars
  <1> DEFINE Sized(sig) ==
               /\ SizePosition(rm', sig) >= 1
               /\ SizePosition(rm', sig) * sig.riskPips * QuotePerPipPerLot
                    <= rm'.currentBalance * RiskPerTradePct
             Budget == \A sig \in Signals : RMP!Accept(sig) =>
               /\ RMP!SizePosition(rm', sig) >= 1
               /\ RMP!SizePosition(rm', sig) * sig.riskPips * QuotePerPipPerLot
                    <= rm'.currentBalance * RiskPerTradePct
  <1>1. ASSUME IInv, [Budget]_(RMP!vars), NEW f \in Feeds, NEW sig \in Signals,
               SignalFired(f, sig)
        PROVE  Sized(sig)
    <2>1. RM!EvaluateAccept(sig)
      BY <1>1, FiredAccepts
    <2>2. RMP!Accept(sig)
      BY <2>1, CopiedDecide
         DEF RM!EvaluateAccept, RMP!EvaluateAccept, RMP!Accept, RM!history, RMP!history,
             Results
    <2>3. RMP!vars' # RMP!vars
      BY <2>1, PlacingFinite, <1>1 DEF RM!EvaluateAccept, RMP!vars, RMP!caller
    <2> QED
      BY <1>1, <2>2, <2>3 DEF SizePosition, RMP!SizePosition
  <1>2. IInv /\ [Budget]_(RMP!vars)
          => [\A f \in Feeds, sig \in Signals : SignalFired(f, sig) => Sized(sig)]_vars
    BY <1>1
  <1> QED
    BY <1>2, Invariant, ManagerTheorems, PTL DEF RMP!SizeWithinBudget

-----------------------------------------------------------------------------
(***************************************************************************)
(* The journal and the statistics, with any number of feeds and a database  *)
(* that may fail.  Only the stream's task saves a close; a booked trade is  *)
(* being saved closed, or recorded, or its closing save raised; another     *)
(* task that still saves it open was overtaken by the close; and a closing  *)
(* save that found no row meets one at its commit only after such a race.   *)
(***************************************************************************)
SavingClose(t) == t \in Saving /\ status[t] = "CLOSED"

Recorded(id) == id \in stats /\ (journal[id] = "CLOSED" \/ id \in raced)

Skipped(id) ==
    /\ id \in unsaved /\ id \notin stats /\ journal[id] # "CLOSED"
    /\ DbMayFail \/ id \in raced

Accounted ==
    \A id \in Booked : Recorded(id) \/ Skipped(id) \/ (SavingClose(Ws) /\ job[Ws] = id)

StreamCloses ==
    \A t \in Saving : status[t] = "CLOSED" => t = Ws

OvertakenRaced ==
    \A t \in Saving : status[t] = "OPEN" /\ job[t] \in Booked => job[t] \in raced

CloseIsFirst ==
    SavingClose(Ws) =>
        /\ job[Ws] \notin stats /\ journal[job[Ws]] # "CLOSED"
        /\ pc[Ws] = "committing" /\ ~seen[Ws]
             => journal[job[Ws]] = "none" \/ job[Ws] \in raced

RecordInv == Accounted /\ StreamCloses /\ OvertakenRaced /\ CloseIsFirst

\* A step that saves nothing and starts no save.
LEMMA UnsavedStep ==
    ASSUME IInv, RecordInv,
           UNCHANGED <<status, journal, stats, closed, raced, unsaved>>,
           \A t \in Tasks :
              \/ pc'[t] = pc[t] /\ job'[t] = job[t] /\ seen'[t] = seen[t]
              \/ /\ pc[t] \notin {"saving", "committing"}
                 /\ pc'[t] \notin {"saving", "committing"}
    PROVE  RecordInv'
  <1>1. Booked' = Booked
    BY BookedSame
  <1>2. \A t \in Tasks : /\ t \in Saving' <=> t \in Saving
                         /\ t \in Saving => /\ job'[t] = job[t] /\ pc'[t] = pc[t]
                                            /\ seen'[t] = seen[t]
    BY DEF Saving
  <1>3. Ws \in Tasks /\ Saving' = Saving /\ Saving \subseteq Tasks
    BY <1>2 DEF Saving
  <1>4. Accounted'
    BY <1>1, <1>2, <1>3 DEF RecordInv, Accounted, Recorded, Skipped, SavingClose
  <1>5. StreamCloses' /\ OvertakenRaced'
    BY <1>1, <1>2, <1>3 DEF RecordInv, StreamCloses, OvertakenRaced
  <1>6. CloseIsFirst'
    BY <1>2, <1>3 DEF RecordInv, CloseIsFirst, SavingClose
  <1> QED
    BY <1>4, <1>5, <1>6 DEF RecordInv

LEMMA OpenedRecord ==
    ASSUME IInv, RecordInv, NEW t \in Tasks, PlaceFilled(t)
    PROVE  RecordInv'
  <1> USE DEF IInv, TypeOK, bookVars, rowHistory
  <1>1. /\ pc[t] = "placing" /\ job' = job /\ seen' = seen
        /\ pc'[t] = "saving" /\ status'[t] = "OPEN"
        /\ \A u \in Tasks \ {t} : pc'[u] = pc[u] /\ status'[u] = status[u]
        /\ UNCHANGED <<journal, stats, closed, raced, unsaved>>
    BY DEF PlaceFilled
  <1>2. Booked' = Booked /\ job[t] \notin Booked
    BY <1>1, BookedSame DEF OneOwner, Placing
  <1>3. Saving' = Saving \cup {t} /\ t \notin Saving
    BY <1>1 DEF Saving
  <1>4. (SavingClose(Ws) <=> SavingClose(Ws)') /\ (SavingClose(Ws) => Ws # t)
    BY <1>1, <1>3 DEF SavingClose
  <1>5. Accounted'
    BY <1>1, <1>2, <1>4 DEF RecordInv, Accounted, Recorded, Skipped
  <1>6. StreamCloses' /\ OvertakenRaced'
    BY <1>1, <1>2, <1>3 DEF RecordInv, StreamCloses, OvertakenRaced, Saving
  <1>7. CloseIsFirst'
    BY <1>1, <1>4 DEF RecordInv, CloseIsFirst
  <1> QED
    BY <1>5, <1>6, <1>7 DEF RecordInv

LEMMA ClosedRecord ==
    ASSUME IInv, RecordInv, NEW u \in updates, CloseTrade(u)
    PROVE  RecordInv'
  <1> USE DEF IInv, TypeOK, bookVars
  <1>1. /\ pc[Ws] = "idle" /\ pc'[Ws] = "saving"
        /\ job'[Ws] = u.id /\ status'[Ws] = "CLOSED"
        /\ \A t \in Tasks \ {Ws} : pc'[t] = pc[t] /\ status'[t] = status[t] /\ job'[t] = job[t]
        /\ UNCHANGED <<journal, stats, seen, unsaved>>
        /\ u.id \in openTrades /\ u.id \in TradeIds
    BY DEF CloseTrade
  <1>2. Booked' = Booked \cup {u.id}
    <2> DEFINE e == [id |-> u.id, day |-> now, pnl |-> u.pnl]
               R == [id : TradeIds, day : Nat, pnl : Pnls]
    <2>1. closed' = Append(closed, e) /\ e.id = u.id
      BY DEF CloseTrade
    <2>2. e \in R /\ closed \in Seq(R)
      OBVIOUS
    <2> HIDE DEF e, R
    <2> QED
      BY <2>1, <2>2, BookedGrows
  <1>3. u.id \notin Booked /\ u.id \notin stats /\ journal[u.id] # "CLOSED"
    BY <1>1 DEF OneOwner, NoPhantomTrade
  <1>4. raced \subseteq raced' /\ (~Settled(u.id) => u.id \in raced')
    BY DEF CloseTrade
  <1>5. Saving' = Saving \cup {Ws} /\ Ws \notin Saving
    BY <1>1 DEF Saving
  <1>6. Accounted'
    <2>1. \A id \in Booked : Recorded(id) \/ Skipped(id)
      BY <1>5 DEF RecordInv, Accounted, SavingClose
    <2>2. \A id \in Booked : Recorded(id)' \/ Skipped(id)'
      BY <1>1, <1>4, <2>1 DEF Recorded, Skipped
    <2>3. SavingClose(Ws)' /\ job'[Ws] = u.id
      BY <1>1, <1>5 DEF SavingClose
    <2> QED
      BY <1>2, <2>2, <2>3 DEF Accounted
  <1>7. StreamCloses'
    BY <1>1, <1>5 DEF RecordInv, StreamCloses, Saving
  <1>8. OvertakenRaced'
    <2> SUFFICES ASSUME NEW t \in Saving', status'[t] = "OPEN", job'[t] \in Booked'
                 PROVE  job'[t] \in raced'
      BY DEF OvertakenRaced
    <2>1. t # Ws /\ t \in Saving /\ t \in Tasks
      BY <1>1, <1>5 DEF Saving
    <2>2. job'[t] = job[t] /\ status[t] = "OPEN"
      BY <1>1, <2>1
    <2>3. CASE job[t] \in Booked
      BY <1>4, <2>1, <2>2, <2>3 DEF RecordInv, OvertakenRaced
    <2>4. CASE job[t] = u.id
      BY <1>4, <2>1, <2>2, <2>4 DEF Settled
    <2> QED
      BY <1>2, <2>2, <2>3, <2>4
  <1>9. CloseIsFirst'
    BY <1>1, <1>3 DEF CloseIsFirst
  <1> QED
    BY <1>6, <1>7, <1>8, <1>9 DEF RecordInv

LEMMA BegunRecord ==
    ASSUME IInv, RecordInv, NEW t \in Tasks, SaveBegin(t)
    PROVE  RecordInv'
  <1> USE DEF IInv, TypeOK, bookVars, history, rowHistory
  <1>1. /\ pc[t] = "saving" /\ pc'[t] = "committing"
        /\ seen'[t] = (journal[job[t]] # "none")
        /\ \A u \in Tasks \ {t} : pc'[u] = pc[u] /\ seen'[u] = seen[u]
        /\ UNCHANGED <<job, status, journal, stats, closed, raced, unsaved>>
    BY DEF SaveBegin
  <1>2. Booked' = Booked
    BY <1>1, BookedSame
  <1>3. Saving' = Saving
    BY <1>1 DEF Saving
  <1>4. Accounted' /\ StreamCloses' /\ OvertakenRaced'
    BY <1>1, <1>2, <1>3
       DEF RecordInv, Accounted, Recorded, Skipped, SavingClose, StreamCloses, OvertakenRaced
  <1>5. CloseIsFirst'
    BY <1>1, <1>3 DEF RecordInv, CloseIsFirst, SavingClose
  <1> QED
    BY <1>4, <1>5 DEF RecordInv

LEMMA CommittedRecord ==
    ASSUME IInv, RecordInv, NEW t \in Tasks, SaveCommit(t)
    PROVE  RecordInv'
  <1> USE DEF IInv, TypeOK, history, rowHistory
  <1>1. /\ pc[t] = "committing" /\ pc'[t] = "idle"
        /\ \A u \in Tasks \ {t} : pc'[u] = pc[u] /\ job'[u] = job[u]
        /\ UNCHANGED <<seen, status, closed, raced, unsaved>>
    BY DEF SaveCommit, TaskDone
  <1>2. Booked' = Booked /\ Booked \subseteq TradeIds
    BY <1>1, BookedSame, BookedKnown
  <1>3. Saving' = Saving \ {t} /\ t \in Saving /\ Saving \subseteq Tasks
    BY <1>1 DEF Saving
  <1>4. job[t] \in TradeIds
    BY <1>1 DEF Holding
  <1>5. \A id \in TradeIds : journal'[id] = IF id = job[t] THEN status[t] ELSE journal[id]
    BY <1>4 DEF SaveCommit, RowWritten
  <1>6. stats' = IF status[t] = "CLOSED" THEN stats \cup {job[t]} ELSE stats
    BY DEF SaveCommit, StatsAfter
  <1>7. StreamCloses' /\ OvertakenRaced'
    BY <1>1, <1>2, <1>3 DEF RecordInv, StreamCloses, OvertakenRaced
  <1>8. CASE status[t] = "CLOSED"
    <2>1. t = Ws /\ SavingClose(Ws)
      BY <1>3, <1>8 DEF RecordInv, StreamCloses, SavingClose
    <2>2. ~SavingClose(Ws)'
      BY <1>3, <2>1 DEF SavingClose
    <2>3. job[t] \in stats' /\ journal'[job[t]] = "CLOSED"
      BY <1>4, <1>5, <1>6, <1>8
    <2>4. ASSUME NEW id \in Booked, id # job[t] PROVE Recorded(id)' \/ Skipped(id)'
      <3>1. Recorded(id) \/ Skipped(id)
        BY <2>1, <2>4 DEF RecordInv, Accounted
      <3>2. journal'[id] = journal[id] /\ (id \in stats' <=> id \in stats)
        BY <1>2, <1>5, <1>6, <2>4
      <3> QED
        BY <1>1, <3>1, <3>2 DEF Recorded, Skipped
    <2>5. Accounted'
      BY <1>2, <2>3, <2>4 DEF Accounted, Recorded
    <2> QED
      BY <1>7, <2>2, <2>5 DEF RecordInv, CloseIsFirst
  <1>9. CASE status[t] = "OPEN"
    <2>1. job[t] \in Booked => job[t] \in raced
      BY <1>3, <1>9 DEF RecordInv, OvertakenRaced
    <2>2. \A id \in TradeIds \ {job[t]} : journal'[id] = journal[id]
      BY <1>5
    <2>3. stats' = stats /\ journal'[job[t]] = "OPEN"
      BY <1>4, <1>5, <1>6, <1>9
    <2>4. SavingClose(Ws)' <=> SavingClose(Ws)
      BY <1>1, <1>3, <1>9 DEF SavingClose
    <2>5. SavingClose(Ws) => /\ Ws # t /\ Ws \in Tasks /\ job[Ws] \in TradeIds
                             /\ job'[Ws] = job[Ws] /\ pc'[Ws] = pc[Ws]
                             /\ job[Ws] \in Booked
      <3> SUFFICES ASSUME SavingClose(Ws)
                   PROVE  /\ Ws # t /\ Ws \in Tasks /\ job[Ws] \in TradeIds
                          /\ job'[Ws] = job[Ws] /\ pc'[Ws] = pc[Ws]
                          /\ job[Ws] \in Booked
        OBVIOUS
      <3>1. Ws # t /\ Ws \in Tasks
        BY <1>9 DEF SavingClose
      <3>2. job[Ws] \in Booked
        BY DEF SavingClose, SavesKnown
      <3> QED
        BY <1>1, <1>2, <3>1, <3>2
    <2>6. Accounted'
      <3> SUFFICES ASSUME NEW id \in Booked
                   PROVE  Recorded(id)' \/ Skipped(id)' \/ (SavingClose(Ws)' /\ job'[Ws] = id)
        BY <1>2 DEF Accounted
      <3>1. CASE SavingClose(Ws) /\ job[Ws] = id
        BY <2>4, <2>5, <3>1
      <3>2. CASE Recorded(id)
        BY <1>1, <1>2, <2>1, <2>2, <2>3, <3>2 DEF Recorded
      <3>3. CASE Skipped(id)
        BY <1>1, <1>2, <2>2, <2>3, <3>3 DEF Skipped
      <3> QED
        BY <3>1, <3>2, <3>3 DEF RecordInv, Accounted
    <2>7. CloseIsFirst'
      <3> SUFFICES ASSUME SavingClose(Ws)'
                   PROVE  /\ job'[Ws] \notin stats' /\ journal'[job'[Ws]] # "CLOSED"
                          /\ pc'[Ws] = "committing" /\ ~seen'[Ws]
                               => journal'[job'[Ws]] = "none" \/ job'[Ws] \in raced'
        BY DEF CloseIsFirst
      <3>1. /\ Ws # t /\ job[Ws] \in TradeIds /\ job'[Ws] = job[Ws] /\ pc'[Ws] = pc[Ws]
            /\ job[Ws] \in Booked
        BY <2>4, <2>5
      <3>2. /\ job[Ws] \notin stats /\ journal[job[Ws]] # "CLOSED"
            /\ pc[Ws] = "committing" /\ ~seen[Ws]
                 => journal[job[Ws]] = "none" \/ job[Ws] \in raced
        BY <2>4 DEF RecordInv, CloseIsFirst
      <3>3. CASE job[Ws] = job[t]
        BY <1>1, <2>1, <2>3, <3>1, <3>2, <3>3
      <3>4. CASE job[Ws] # job[t]
        BY <1>1, <2>2, <2>3, <3>1, <3>2, <3>4
      <3> QED
        BY <3>3, <3>4
    <2> QED
      BY <1>7, <2>6, <2>7 DEF RecordInv
  <1> QED
    BY <1>8, <1>9

LEMMA RaisedRecord ==
    ASSUME IInv, RecordInv, NEW t \in Tasks, SaveRaised(t)
    PROVE  RecordInv'
  <1> USE DEF IInv, TypeOK, bookVars
  <1>1. /\ pc[t] \in {"saving", "committing"} /\ pc'[t] = "idle"
        /\ \A u \in Tasks \ {t} : pc'[u] = pc[u] /\ job'[u] = job[u]
        /\ UNCHANGED <<seen, status, journal, stats, closed, raced>>
        /\ unsaved' = IF status[t] = "CLOSED" THEN unsaved \cup {job[t]} ELSE unsaved
    BY DEF SaveRaised, TaskDone
  <1>2. Booked' = Booked
    BY <1>1, BookedSame
  <1>3. Saving' = Saving \ {t} /\ t \in Saving /\ Saving \subseteq Tasks
    BY <1>1 DEF Saving
  <1>4. StreamCloses' /\ OvertakenRaced'
    BY <1>1, <1>2, <1>3 DEF RecordInv, StreamCloses, OvertakenRaced
  <1>5. \A id \in Booked : (Recorded(id) => Recorded(id)') /\ (Skipped(id) => Skipped(id)')
    BY <1>1 DEF Recorded, Skipped
  <1>6. CASE status[t] = "CLOSED"
    <2>1. t = Ws /\ SavingClose(Ws) /\ ~SavingClose(Ws)'
      BY <1>3, <1>6 DEF RecordInv, StreamCloses, SavingClose
    <2>2. DbMayFail \/ job[t] \in raced
      <3>1. DbMayFail \/ (pc[t] = "committing" /\ ~seen[t] /\ journal[job[t]] # "none")
        BY DEF SaveRaised, InsertConflict
      <3> QED
        BY <2>1, <3>1 DEF RecordInv, CloseIsFirst
    <2>3. ASSUME NEW id, id = job[t] PROVE Skipped(id)'
      BY <1>1, <1>6, <2>1, <2>2, <2>3 DEF RecordInv, CloseIsFirst, Skipped
    <2>4. Accounted'
      BY <1>2, <1>5, <2>1, <2>3 DEF RecordInv, Accounted
    <2> QED
      BY <1>4, <2>1, <2>4 DEF RecordInv, CloseIsFirst
  <1>7. CASE status[t] = "OPEN"
    <2>1. SavingClose(Ws)' <=> SavingClose(Ws)
      BY <1>1, <1>3, <1>7 DEF SavingClose
    <2>2. SavingClose(Ws) => job'[Ws] = job[Ws] /\ pc'[Ws] = pc[Ws]
      BY <1>1, <1>7 DEF SavingClose
    <2>3. Accounted'
      BY <1>2, <1>5, <2>1, <2>2 DEF RecordInv, Accounted
    <2>4. CloseIsFirst'
      BY <1>1, <2>1, <2>2 DEF RecordInv, CloseIsFirst
    <2> QED
      BY <1>4, <2>3, <2>4 DEF RecordInv
  <1> QED
    BY <1>6, <1>7

LEMMA RecordStep ==
    ASSUME IInv, RecordInv, [Next]_vars
    PROVE  RecordInv'
  <1>0. /\ pc \in [Tasks -> {"idle", "placing", "saving", "committing", "hung"}]
        /\ job \in [Tasks -> TradeIds \cup {NoTrade}]
    BY DEF IInv, TypeOK
  <1> USE <1>0 DEF taskVars, bookVars, brokerVars, history, rowHistory
  <1>1. ASSUME NEW f \in Feeds, SignalStep(f) PROVE RecordInv'
    <2>1. \A t \in Tasks :
             \/ pc'[t] = pc[t] /\ job'[t] = job[t] /\ seen'[t] = seen[t]
             \/ pc[t] = "idle" /\ pc'[t] = "placing"
      BY <1>1 DEF SignalStep, SignalRejected, SignalFired, SignalStaged, Fire
    <2>2. UNCHANGED <<status, journal, stats, closed, raced, unsaved>>
      BY <1>1 DEF SignalStep, SignalRejected, SignalFired, SignalStaged, Fire
    <2> QED
      BY <2>1, <2>2, UnsavedStep
  <1>2. ASSUME NEW t \in Tasks, PlaceRetry(t) \/ PlaceFailed(t) \/ PlaceHangs(t)
        PROVE  RecordInv'
    BY <1>2, UnsavedStep DEF PlaceRetry, PlaceFailed, PlaceHangs
  <1>3. ASSUME NEW t \in Tasks, PlaceFilled(t) PROVE RecordInv'
    BY <1>3, OpenedRecord
  <1>4. ASSUME NEW t \in Tasks, SaveStep(t) PROVE RecordInv'
    BY <1>4, BegunRecord, CommittedRecord, RaisedRecord DEF SaveStep
  <1>5. ASSUME NEW p \in PendingIds, PendingStep(p) PROVE RecordInv'
    BY <1>5, UnsavedStep DEF PendingStep, PendingExpires, ConfirmPending, CancelPending,
                             UtcNowAware, ExpiresAtAware
  <1>6. ASSUME NEW id \in TradeIds, NEW pnl \in Pnls,
               BrokerCloses(id, pnl) \/ BrokerReportsFill(id, pnl)
        PROVE  RecordInv'
    BY <1>6, UnsavedStep DEF BrokerCloses, BrokerReportsFill
  <1>7. ASSUME NEW u \in updates, CloseTrade(u) PROVE RecordInv'
    BY <1>7, ClosedRecord
  <1>8. ASSUME NEW u \in updates, LoseUpdate(u) \/ IgnoreUpdate(u) PROVE RecordInv'
    BY <1>8, UnsavedStep DEF LoseUpdate, IgnoreUpdate
  <1>9. CASE \/ ForceDisable \/ Snapshot \/ Midnight \/ UNCHANGED vars
             \/ \E lim \in Limits : UpdateRiskParams(lim)
    BY <1>9, UnsavedStep DEF ForceDisable, Snapshot, Midnight, UpdateRiskParams, vars
  <1> QED
    BY <1>1, <1>2, <1>3, <1>4, <1>5, <1>6, <1>7, <1>8, <1>9
       DEF Next, PlaceStep, UpdateStep

LEMMA RecordInvariant == Spec => []RecordInv
  <1>1. Init => RecordInv
    <2> SUFFICES ASSUME Init PROVE RecordInv
      OBVIOUS
    <2>1. Booked = {} /\ Saving = {}
      BY DEF Init, Booked, Saving
    <2> QED
      BY <2>1 DEF RecordInv, Accounted, StreamCloses, OvertakenRaced, CloseIsFirst, SavingClose
  <1>2. IInv /\ RecordInv /\ [Next]_vars => RecordInv'
    BY RecordStep
  <1> QED
    BY <1>1, <1>2, Invariant, PTL DEF Spec

(* With any number of feeds, on SQLite or Postgres, and a database that may *)
(* fail: once no save of a booked trade is running, its row says CLOSED,    *)
(* unless the close overtook the opening save of another task or the        *)
(* closing save raised.                                                     *)
THEOREM JournalFollowsCloseHolds == Spec => []JournalFollowsClose
  <1>1. RecordInv => JournalFollowsClose
    BY DEF RecordInv, Accounted, Recorded, Skipped, SavingClose, Saving,
           JournalFollowsClose, Settled
  <1> QED
    BY <1>1, RecordInvariant, PTL

(* The statistics have every booked trade whose save has ended, except one  *)
(* whose closing save raised, and it raised because the database failed or  *)
(* because it met the row another task's opening save had just inserted;    *)
(* without such a race the statistics and the CLOSED rows are the same      *)
(* trades.                                                                  *)
THEOREM StatsCompleteHolds == Spec => []StatsComplete
  <1>1. ASSUME RecordInv, NEW id \in Booked, Settled(id)
        PROVE  Recorded(id) \/ Skipped(id)
    BY <1>1 DEF RecordInv, Accounted, SavingClose, Saving, Settled
  <1>2. RecordInv => StatsComplete
    <2> SUFFICES ASSUME RecordInv, NEW id \in Booked, Settled(id)
                 PROVE  /\ \/ id \in stats
                           \/ /\ id \in unsaved
                              /\ journal[id] # "CLOSED"
                              /\ DbMayFail \/ id \in raced
                        /\ id \notin raced => (journal[id] = "CLOSED" <=> id \in stats)
      BY DEF StatsComplete
    <2>1. Recorded(id) \/ Skipped(id)
      BY <1>1
    <2> QED
      BY <2>1 DEF Recorded, Skipped
  <1> QED
    BY <1>2, RecordInvariant, PTL
=============================================================================
