------------------------------ MODULE Executor ------------------------------
(***************************************************************************)
(* Executor (src/app/execution/executor.py) with the risk manager, the      *)
(* trade journal, the statistics and the broker it works with.              *)
(*                                                                         *)
(* Processes are asyncio tasks: the feeds that call handle_signal (the      *)
(* WebSocket consumer and the price poller both do in the live modes) and   *)
(* the trader who confirms semi-auto signals.  A task runs alone between    *)
(* two awaits, so every action is the code from one await to the next.      *)
(* Each feed awaits its handler before it takes its next message, and only  *)
(* the WebSocket consumer receives order updates.                           *)
(*                                                                         *)
(* The awaits at which another task may run: the broker's answer            *)
(* (_with_retry), the opening of the journal transaction and its commit     *)
(* (TradeJournal.save).  Notifier.notify never raises and changes no state: *)
(* it is left out.                                                          *)
(***************************************************************************)
EXTENDS RiskRules, Sequences, FiniteSets

CONSTANTS
    Feeds,          \* tasks that call handle_signal
    Ws,             \* the feed that also receives order updates
    Trader,         \* the task that calls confirm_pending
    TradeIds,       \* client order ids (uuid4)
    PendingIds,     \* ids of staged semi-auto signals
    Modes,          \* the values of settings.app_mode to start with
    Upsert,         \* the journal is SQLite; Postgres otherwise
    DbMayFail,      \* the database may raise
    FillUpdates,    \* the order stream also reports opening fills, with price
    Signals, Limits, Pnls,
    MaxAttempts,    \* stop_after_attempt
    MaxDay,         \* bound: last UTC day
    NoTrade

ASSUME ExecutorAssumption ==
    /\ IsFiniteSet(Feeds) /\ Ws \in Feeds
    /\ Trader \notin Feeds
    /\ IsFiniteSet(TradeIds)
    /\ NoTrade \notin TradeIds
    /\ Modes \subseteq {"paper", "semi_auto", "full_auto"}
    /\ Upsert \in BOOLEAN
    /\ DbMayFail \in BOOLEAN
    /\ FillUpdates \in BOOLEAN
    /\ Signals \subseteq SignalType
    /\ Limits \subseteq LimitsType
    /\ Limits # {}
    /\ Pnls \subseteq Int
    /\ MaxAttempts \in Nat \ {0}
    /\ MaxDay \in Nat

Tasks == Feeds \cup {Trader}

VARIABLES
    rm, now, limits,
    mode,       \* _mode, fixed for the life of the executor
    pc,         \* where each task is suspended: "idle", "placing", "saving",
                \* "committing", or "hung" behind a lock nobody gives back
    job,        \* the trade it works on, or NoTrade
    status,     \* the status of the Trade it saves: "OPEN" or "CLOSED"
    attempt,    \* attempts of _with_retry so far
    seen,       \* whether save found a row (Postgres path)
    openTrades, \* keys of _open_trades
    pending,    \* _pending: "none", "staged", or "expired" once the ttl has passed
    journal,    \* status column of the trades table, "none" without a row
    stats,      \* trades the aggregator has recorded
    broker,     \* the broker's own view of an order: "none", "live" or "flat"
    updates,    \* order updates [id, pnl] on their way to the WebSocket
    \* History, read by no action:
    closed,     \* the trades close_trade has closed, in order: [id, day, pnl]
    openDays, peakCap,
    raced,      \* trades closed while their opening save was under way
    unsaved     \* trades whose closing save raised

taskVars == <<pc, job, status, attempt, seen>>
bookVars == <<journal, stats>>
brokerVars == <<broker, updates>>
rowHistory == <<raced, unsaved>>
history == <<closed, openDays, peakCap, rowHistory>>
vars == <<rm, now, limits, mode, taskVars, openTrades, pending, bookVars, brokerVars, history>>

TypeOK ==
    /\ rm \in RiskType /\ now \in Nat /\ limits \in LimitsType
    /\ mode \in Modes
    /\ pc \in [Tasks -> {"idle", "placing", "saving", "committing", "hung"}]
    /\ job \in [Tasks -> TradeIds \cup {NoTrade}]
    /\ status \in [Tasks -> {"OPEN", "CLOSED"}]
    /\ attempt \in [Tasks -> 0..MaxAttempts]
    /\ seen \in [Tasks -> BOOLEAN]
    /\ openTrades \subseteq TradeIds
    /\ pending \in [PendingIds -> {"none", "staged", "expired"}]
    /\ journal \in [TradeIds -> {"none", "OPEN", "CLOSED"}]
    /\ stats \subseteq TradeIds
    /\ broker \in [TradeIds -> {"none", "live", "flat"}]
    /\ updates \subseteq [id : TradeIds, pnl : Pnls]
    /\ closed \in Seq([id : TradeIds, day : Nat, pnl : Pnls])
    /\ openDays \subseteq Nat
    /\ peakCap \in 1..50
    /\ raced \subseteq TradeIds /\ unsaved \subseteq TradeIds

Init ==
    /\ now = 0
    /\ rm = FreshManager(now)
    /\ limits \in Limits
    /\ mode \in Modes
    /\ pc = [t \in Tasks |-> "idle"]
    /\ job = [t \in Tasks |-> NoTrade]
    /\ status = [t \in Tasks |-> "OPEN"]
    /\ attempt = [t \in Tasks |-> 0]
    /\ seen = [t \in Tasks |-> FALSE]
    /\ openTrades = {}
    /\ pending = [p \in PendingIds |-> "none"]
    /\ journal = [id \in TradeIds |-> "none"]
    /\ stats = {}
    /\ broker = [id \in TradeIds |-> "none"]
    /\ updates = {}
    /\ closed = <<>>
    /\ openDays = {}
    /\ peakCap = limits.maxTradesPerDay
    /\ raced = {}
    /\ unsaved = {}

Booked == {closed[i].id : i \in 1..Len(closed)}

\* No task is about to write the row of this trade.
Settled(id) == \A t \in Tasks : job[t] # id

-----------------------------------------------------------------------------
(***************************************************************************)
(* _fire and _with_retry.                                                   *)
(***************************************************************************)

\* uuid4: an id no order has been sent under and no task holds.
FreshId(id) ==
    /\ broker[id] = "none"
    /\ \A t \in Tasks : pc[t] # "idle" => job[t] # id

\* _fire up to its first await: build the order, start the first attempt.
Fire(t) ==
    /\ \E id \in TradeIds : FreshId(id) /\ job' = [job EXCEPT ![t] = id]
    /\ pc' = [pc EXCEPT ![t] = "placing"]
    /\ attempt' = [attempt EXCEPT ![t] = 1]
    /\ UNCHANGED <<status, seen>>

\* The broker acts on the order of task t, or never sees it.  An order sent
\* again under the same client order id is the same order.
BrokerTakes(t) ==
    broker' = [broker EXCEPT ![job[t]] = IF @ = "none" THEN "live" ELSE @]

BrokerMisses == UNCHANGED broker

\* stop_after_attempt.
AttemptLeft(t) == attempt[t] < MaxAttempts

\* Seeded fault: the counter wraps round before it reaches the limit.
AttemptWraps(t) == (attempt[t] + 1) % MaxAttempts

NextAttempt(t) == attempt[t] + 1

\* An attempt that raised: transport error, timeout or rejection.  The order
\* may have reached the broker all the same.
PlaceRetry(t) ==
    /\ pc[t] = "placing"
    /\ AttemptLeft(t)
    /\ BrokerTakes(t) \/ BrokerMisses
    /\ attempt' = [attempt EXCEPT ![t] = NextAttempt(t)]
    /\ UNCHANGED <<rm, now, limits, mode, pc, job, status, seen, openTrades, pending,
                   bookVars, updates, history>>

\* The last attempt raised: "order placement permanently failed".
PlaceFailed(t) ==
    /\ pc[t] = "placing"
    /\ ~AttemptLeft(t)
    /\ BrokerTakes(t) \/ BrokerMisses
    /\ pc' = [pc EXCEPT ![t] = "idle"]
    /\ job' = [job EXCEPT ![t] = NoTrade]
    /\ attempt' = [attempt EXCEPT ![t] = 0]
    /\ UNCHANGED <<rm, now, limits, mode, status, seen, openTrades, pending,
                   bookVars, updates, history>>

\* A 401: _request asks for a new token, and _auth_lock is held for ever by a
\* refresh that was itself refused (TradeLockerAuth, RefreshEnds).  An earlier
\* attempt may have reached the broker.  The paper broker has no such lock.
PlaceHangs(t) ==
    /\ mode # "paper"
    /\ pc[t] = "placing"
    /\ BrokerTakes(t) \/ BrokerMisses
    /\ pc' = [pc EXCEPT ![t] = "hung"]
    /\ UNCHANGED <<rm, now, limits, mode, job, status, attempt, seen, openTrades,
                   pending, bookVars, updates, history>>

\* The broker answered FILLED or SUBMITTED: count the trade, keep it among
\* the open ones, and start to save it.
PlaceFilled(t) ==
    /\ pc[t] = "placing"
    /\ BrokerTakes(t)
    /\ rm' = AfterTradeOpen(rm, now)
    /\ openTrades' = openTrades \cup {job[t]}
    /\ openDays' = openDays \cup {now}
    /\ pc' = [pc EXCEPT ![t] = "saving"]
    /\ status' = [status EXCEPT ![t] = "OPEN"]
    /\ attempt' = [attempt EXCEPT ![t] = 0]
    /\ UNCHANGED <<now, limits, mode, job, seen, pending, bookVars, updates,
                   closed, peakCap, rowHistory>>

-----------------------------------------------------------------------------
(***************************************************************************)
(* handle_signal and the semi-auto path.                                    *)
(***************************************************************************)
\* decision.accepted.  Seeded fault: it is not looked at.
AcceptedAlways(sig) == TRUE

Accepted(sig) == Decide(rm, now, limits, sig) = "OK"

SignalRejected(f, sig) ==
    /\ pc[f] = "idle"
    /\ ~Accepted(sig)
    /\ rm' = AfterEvaluate(rm, now, limits, sig)
    /\ UNCHANGED <<now, limits, mode, taskVars, openTrades, pending, bookVars,
                   brokerVars, history>>

SignalFired(f, sig) ==
    /\ pc[f] = "idle"
    /\ mode # "semi_auto"
    /\ Accepted(sig)
    /\ rm' = AfterEvaluate(rm, now, limits, sig)
    /\ Fire(f)
    /\ UNCHANGED <<now, limits, mode, openTrades, pending, bookVars, brokerVars, history>>

\* _stage_semi_auto.  Nothing ever purges an entry nobody confirms.
SignalStaged(f, sig) ==
    /\ pc[f] = "idle"
    /\ mode = "semi_auto"
    /\ Accepted(sig)
    /\ rm' = AfterEvaluate(rm, now, limits, sig)
    /\ \E p \in PendingIds :
          /\ pending[p] = "none"
          /\ pending' = [pending EXCEPT ![p] = "staged"]
    /\ UNCHANGED <<now, limits, mode, taskVars, openTrades, bookVars, brokerVars, history>>

\* semi_auto_ttl_sec have passed.
PendingExpires(p) ==
    /\ pending[p] = "staged"
    /\ pending' = [pending EXCEPT ![p] = "expired"]
    /\ UNCHANGED <<rm, now, limits, mode, taskVars, openTrades, bookVars, brokerVars, history>>

\* Whether a datetime carries a time zone: utcnow() does, the result of
\* fromtimestamp(...) called without one does not.
UtcNowAware == TRUE

\* Seeded fault: expires_at in UTC, with no new look at the risk manager.
ExpiresAtInUtc == TRUE

ExpiresAtAware == FALSE

\* confirm_pending pops the entry, then compares utcnow() with expires_at.
\* Python refuses to order an aware and a naive datetime: TypeError.
ConfirmPending(p) ==
    /\ pc[Trader] = "idle"
    /\ pending[p] # "none"
    /\ pending' = [pending EXCEPT ![p] = "none"]
    /\ IF UtcNowAware = ExpiresAtAware /\ pending[p] = "staged"
       THEN Fire(Trader)
       ELSE UNCHANGED taskVars
    /\ UNCHANGED <<rm, now, limits, mode, openTrades, bookVars, brokerVars, history>>

CancelPending(p) ==
    /\ pending[p] # "none"
    /\ pending' = [pending EXCEPT ![p] = "none"]
    /\ UNCHANGED <<rm, now, limits, mode, taskVars, openTrades, bookVars, brokerVars, history>>

-----------------------------------------------------------------------------
(***************************************************************************)
(* The broker's side, external: a position it took is closed at its stop or *)
(* target, and an update may reach the WebSocket late, twice or never.      *)
(***************************************************************************)
BrokerCloses(id, pnl) ==
    /\ broker[id] = "live"
    /\ broker' = [broker EXCEPT ![id] = "flat"]
    /\ updates' = updates \cup {[id |-> id, pnl |-> pnl]}
    /\ UNCHANGED <<rm, now, limits, mode, taskVars, openTrades, pending, bookVars, history>>

\* "filled" with a fill price: _on_order_update does not tell the fill of the
\* opening order from a close.  The result is the slippage of the entry.
BrokerReportsFill(id, pnl) ==
    /\ FillUpdates
    /\ broker[id] = "live"
    /\ updates' = updates \cup {[id |-> id, pnl |-> pnl]}
    /\ UNCHANGED <<rm, now, limits, mode, taskVars, openTrades, pending, bookVars,
                   broker, history>>

LoseUpdate(u) ==
    /\ updates' = updates \ {u}
    /\ UNCHANGED <<rm, now, limits, mode, taskVars, openTrades, pending, bookVars,
                   broker, history>>

\* The channel delivers u, and may deliver it again.
Deliver(u) == updates' = updates \/ updates' = updates \ {u}

\* _open_trades.pop.  Seeded fault: the trade is read and left there.
NotPopped(u) == openTrades

Popped(u) == openTrades \ {u.id}

\* _on_order_update -> close_trade of a trade the executor knows: pop it,
\* book the result, start to save the closed trade.
CloseTrade(u) ==
    /\ pc[Ws] = "idle"
    /\ u.id \in openTrades
    /\ Deliver(u)
    /\ openTrades' = Popped(u)
    /\ rm' = AfterTradeClose(rm, now, u.pnl)
    /\ closed' = Append(closed, [id |-> u.id, day |-> now, pnl |-> u.pnl])
    /\ pc' = [pc EXCEPT ![Ws] = "saving"]
    /\ job' = [job EXCEPT ![Ws] = u.id]
    /\ status' = [status EXCEPT ![Ws] = "CLOSED"]
    /\ raced' = IF Settled(u.id) THEN raced ELSE raced \cup {u.id}
    /\ UNCHANGED <<now, limits, mode, attempt, seen, pending, bookVars, broker,
                   openDays, peakCap, unsaved>>

\* close_trade of a trade it does not know (already closed, or not yet
\* registered): nothing happens and the update is gone.
IgnoreUpdate(u) ==
    /\ pc[Ws] = "idle"
    /\ u.id \notin openTrades
    /\ updates' = updates \ {u}
    /\ UNCHANGED <<rm, now, limits, mode, taskVars, openTrades, pending, bookVars,
                   broker, history>>

-----------------------------------------------------------------------------
(***************************************************************************)
(* _persist_trade: TradeJournal.save, then the statistics.                  *)
(***************************************************************************)

\* The session is open and Postgres has looked the row up; SQLite takes its
\* write lock only with the upsert itself, in SaveCommit.
SaveBegin(t) ==
    /\ pc[t] = "saving"
    /\ seen' = [seen EXCEPT ![t] = journal[job[t]] # "none"]
    /\ pc' = [pc EXCEPT ![t] = "committing"]
    /\ UNCHANGED <<rm, now, limits, mode, job, status, attempt, openTrades, pending,
                   bookVars, brokerVars, history>>

\* Postgres decided to insert, and another task has inserted since.
InsertConflict(t) == ~Upsert /\ ~seen[t] /\ journal[job[t]] # "none"

TaskDone(t) ==
    /\ pc' = [pc EXCEPT ![t] = "idle"]
    /\ job' = [job EXCEPT ![t] = NoTrade]
    /\ UNCHANGED <<status, attempt, seen>>

\* The row save leaves.  Seeded fault: on conflict do nothing.
RowKept(t) == IF journal[job[t]] = "none" THEN status[t] ELSE journal[job[t]]

RowWritten(t) == status[t]

\* _persist_trade records closed trades.  Seeded faults: it records every
\* save; it records only trades without a row.
StatsOnEverySave(t) == stats \cup {job[t]}

StatsOfNewRows(t) ==
    IF status[t] = "CLOSED" /\ ~seen[t] THEN stats \cup {job[t]} ELSE stats

StatsAfter(t) == IF status[t] = "CLOSED" THEN stats \cup {job[t]} ELSE stats

SaveCommit(t) ==
    /\ pc[t] = "committing"
    /\ ~InsertConflict(t)
    /\ journal' = [journal EXCEPT ![job[t]] = RowWritten(t)]
    /\ stats' = StatsAfter(t)
    /\ TaskDone(t)
    /\ UNCHANGED <<rm, now, limits, mode, openTrades, pending, brokerVars, history>>

\* The save raised; the feed's loop logs the exception and goes on.
SaveRaised(t) ==
    /\ pc[t] \in {"saving", "committing"}
    /\ DbMayFail \/ (pc[t] = "committing" /\ InsertConflict(t))
    /\ TaskDone(t)
    /\ unsaved' = IF status[t] = "CLOSED" THEN unsaved \cup {job[t]} ELSE unsaved
    /\ UNCHANGED <<rm, now, limits, mode, openTrades, pending, bookVars, brokerVars,
                   closed, openDays, peakCap, raced>>

-----------------------------------------------------------------------------
(***************************************************************************)
(* The API and the clock, as in RiskManager.                                *)
(***************************************************************************)
ForceDisable ==
    /\ rm' = AfterForceDisable(rm)
    /\ UNCHANGED <<now, limits, mode, taskVars, openTrades, pending, bookVars,
                   brokerVars, history>>

Snapshot ==
    /\ rm' = Rollover(rm, now)
    /\ UNCHANGED <<now, limits, mode, taskVars, openTrades, pending, bookVars,
                   brokerVars, history>>

UpdateRiskParams(lim) ==
    /\ limits' = lim
    /\ peakCap' = MaxOf(peakCap, lim.maxTradesPerDay)
    /\ UNCHANGED <<rm, now, mode, taskVars, openTrades, pending, bookVars,
                   brokerVars, closed, openDays, rowHistory>>

Midnight ==
    /\ now < MaxDay
    /\ now' = now + 1
    /\ UNCHANGED <<rm, limits, mode, taskVars, openTrades, pending, bookVars,
                   brokerVars, history>>

PlaceStep(t) ==
    PlaceRetry(t) \/ PlaceFailed(t) \/ PlaceHangs(t) \/ PlaceFilled(t)

SaveStep(t) == SaveBegin(t) \/ SaveCommit(t) \/ SaveRaised(t)

SignalStep(f) ==
    \E sig \in Signals :
        SignalRejected(f, sig) \/ SignalFired(f, sig) \/ SignalStaged(f, sig)

PendingStep(p) == PendingExpires(p) \/ ConfirmPending(p) \/ CancelPending(p)

UpdateStep(u) == LoseUpdate(u) \/ CloseTrade(u) \/ IgnoreUpdate(u)

Next ==
    \/ \E f \in Feeds : SignalStep(f)
    \/ \E t \in Tasks : PlaceStep(t) \/ SaveStep(t)
    \/ \E p \in PendingIds : PendingStep(p)
    \/ \E id \in TradeIds, pnl \in Pnls :
          BrokerCloses(id, pnl) \/ BrokerReportsFill(id, pnl)
    \/ \E u \in updates : UpdateStep(u)
    \/ ForceDisable
    \/ Snapshot
    \/ \E lim \in Limits : UpdateRiskParams(lim)
    \/ Midnight

Spec == Init /\ [][Next]_vars

(***************************************************************************)
(* What a task awaits ends, with an answer or an exception (httpx and the   *)
(* drivers have timeouts), or leaves the task hung: the one wait without a  *)
(* timeout is the broker's _auth_lock, and PlaceHangs is that outcome.      *)
(* Signals, closes and the clock are under no obligation.                   *)
(***************************************************************************)
FairSpec ==
    Spec /\ \A t \in Tasks : WF_vars(PlaceStep(t)) /\ WF_vars(SaveStep(t))

-----------------------------------------------------------------------------
(***************************************************************************)
(* The executor implements the two abstract specifications.                 *)
(***************************************************************************)
Placing == {t \in Tasks : pc[t] = "placing"}

RM == INSTANCE RiskManager
        WITH Slots <- Cardinality(Feeds),
             MaxOpens <- Cardinality(TradeIds),
             inFlight <- Cardinality(Placing),
             openCount <- Cardinality(openTrades),
             results <- [i \in 1..Len(closed) |->
                           [day |-> closed[i].day, pnl |-> closed[i].pnl]]

Ledger == INSTANCE AccountLedger
            WITH balance <- rm.currentBalance,
                 peak <- rm.highWaterMark,
                 booked <- Booked

(* The concurrent executor uses the risk manager as RiskManager assumes: an *)
(* order is in flight only after its own acceptance, at most one per feed;  *)
(* a trade is registered open only from a flight, and closed only if open.  *)
ImplementsRiskManager == RM!Spec

(* Whatever order updates are lost, repeated or late, and however the feeds *)
(* interleave, the result of a trade enters the balance at most once and    *)
(* the high-water mark follows the balance.                                 *)
ImplementsLedger == Ledger!Spec

-----------------------------------------------------------------------------
(***************************************************************************)
(* Safety.                                                                  *)
(***************************************************************************)

(* A trade id has one owner at a time: it is being placed by one task, or   *)
(* open, or booked, so a retry or a repeated update can neither open a      *)
(* trade twice nor close it twice.                                          *)
OneOwner ==
    /\ openTrades \cap Booked = {}
    /\ \A t \in Placing : job[t] \notin openTrades \cup Booked
    /\ \A t, u \in Placing : job[t] = job[u] => t = u
    /\ \A i, j \in 1..Len(closed) : closed[i].id = closed[j].id => i = j

(* The bot never tracks, books or records a trade the broker does not know: *)
(* open and booked trades were taken by the broker, a row of the journal    *)
(* belongs to an open or booked trade, CLOSED rows and statistics to booked *)
(* ones.                                                                    *)
NoPhantomTrade ==
    /\ \A id \in openTrades \cup Booked : broker[id] # "none"
    /\ \A id \in TradeIds :
          /\ journal[id] # "none" => id \in openTrades \cup Booked
          /\ journal[id] = "CLOSED" => id \in Booked
    /\ stats \subseteq Booked

(* The row of a booked trade that no task is about to write says CLOSED.    *)
(* Two things alone break this: the trade was closed by the stream while    *)
(* another feed's task was still saving it open (executor.py:188 and 225    *)
(* are two tasks, and nothing orders their commits), or the closing save    *)
(* itself raised.                                                           *)
JournalFollowsClose ==
    \A id \in Booked :
        Settled(id) => journal[id] = "CLOSED" \/ id \in raced \cup unsaved

(* "Re-saving an open trade after it closes simply updates the existing     *)
(* row" (repository.py:22), unqualified.  False: the opening save of        *)
(* another feed's task may commit after the closing one.                    *)
ResaveUpdatesRow ==
    \A id \in Booked : Settled(id) => journal[id] = "CLOSED"

(* The dashboard's statistics miss a booked trade only when its closing     *)
(* save raised, which skips stats.record (orchestrator.py:470): then its    *)
(* row does not say CLOSED either, and the cause is a failing database or   *)
(* the insert of the opening save it overlapped.  And without an overlap    *)
(* the journal and the statistics tell the same trades closed.              *)
StatsComplete ==
    \A id \in Booked : Settled(id) =>
        /\ \/ id \in stats
           \/ /\ id \in unsaved
              /\ journal[id] # "CLOSED"
              /\ DbMayFail \/ id \in raced
        /\ id \notin raced => (journal[id] = "CLOSED" <=> id \in stats)

(* "The executor never bypasses the risk manager": a task starts to place   *)
(* an order only in the step in which evaluate accepts.  In semi-auto mode  *)
(* this rests on confirm_pending never reaching _fire.                      *)
NoUnvettedOrder ==
    [][ \A t \in Tasks :
          pc[t] # "placing" /\ pc'[t] = "placing"
            => \E sig \in Signals : Decide(rm, now, limits, sig) = "OK" ]_vars

(* A task that waits for the broker or the journal gets back to its feed:   *)
(* retries end, and no failing broker or database leaves it suspended.  The *)
(* one exception is named: an order behind the _auth_lock that a refused    *)
(* refresh never gives back hangs its feed for good.                        *)
FeedReleased ==
    \A t \in Tasks : pc[t] # "idle" ~> pc[t] \in {"idle", "hung"}

=============================================================================
