------------------------------- MODULE Engine -------------------------------
(***************************************************************************)
(* The wiring of the running engine (src/app/engine/orchestrator.py): which *)
(* broker, risk manager and executor its handlers use while                 *)
(* switch_environment replaces them, orders are in flight and the process   *)
(* may die.  The models of the parts are reduced to what the wiring can     *)
(* disturb: Executor.tla has the order path in full, WebSocketClient.tla    *)
(* the stream.                                                              *)
(*                                                                         *)
(* A risk manager and the executor that uses it are created together: one   *)
(* entry of stacks.  The engine's attributes name the newest entry; the     *)
(* dashboard's app.state keeps the first.  Nothing keeps two switch         *)
(* requests apart.  All happens on one UTC day.                             *)
(***************************************************************************)
EXTENDS Integers, Sequences, FiniteSets

CONSTANTS
    TradeIds, NoTrade,
    StartMode,      \* APP_MODE of the environment
    Cap,            \* max_trades_per_day
    ConnectMayFail, \* the connection of a new broker may raise
    Requests,       \* POST /settings/environment calls that may overlap
    MaxBrokers,     \* bound: brokers one process creates
    MaxCrashes      \* bound: restarts

Modes == {"paper", "semi_auto", "full_auto"}

\* The callers of the executor: the poller and the consumers of the WebSocket
\* clients, numbered as they were created.
Poller == 0
Feeds == {Poller} \cup 1..MaxBrokers

ASSUME EngineAssumption ==
    /\ IsFiniteSet(TradeIds)
    /\ NoTrade \notin TradeIds
    /\ StartMode \in Modes
    /\ Cap \in Nat \ {0}
    /\ ConnectMayFail \in BOOLEAN
    /\ IsFiniteSet(Requests)
    /\ MaxBrokers \in Nat \ {0}
    /\ MaxCrashes \in Nat

VARIABLES
    mode,       \* settings.app_mode
    brokers,    \* the broker clients created so far
    broker,     \* index of self._broker
    stacks,     \* the risk manager + executor pairs created so far
    clients,    \* number of WebSocket clients created so far
    running,    \* those whose task runs
    ws,         \* self._ws, or 0
    placing,    \* per feed: the stack whose _fire awaits the broker, or 0
    order,      \* the order it awaits, or NoTrade
    sw,         \* per request: its switch_environment call
    taken,      \* orders the live broker has taken
    held,       \* positions open at the live broker
    \* History, read by no action but for fresh ids and bounds:
    used,       \* order ids given out so far
    lost,       \* orders the newest executor need not know: sent before it was
                \* created, given up after the last attempt, or taken for closed
                \* at their fill
    killed,     \* POST /risk/disable was called since the process started
    failed,     \* the last switch failed
    alone,      \* no other request was under way during the last switch
    overlapped, \* two requests were under way at once since the process started
    crashes

stream == <<clients, running, ws>>
flights == <<placing, order>>
orders == <<taken, held, used, lost>>
history == <<killed, failed, alone, overlapped, crashes>>
vars == <<mode, brokers, broker, stacks, stream, flights, sw, orders, history>>

Kind(m) == IF m = "paper" THEN "paper" ELSE "live"

BrokerType == [kind : {"paper", "live"}, link : {"new", "up", "closed"}]
StackType == [broker : Nat, mode : Modes, opened : Nat, disabled : BOOLEAN,
              trades : SUBSET TradeIds]
SwitchType == [pc : {"idle", "stoppingWs", "closing", "connecting", "balance"},
               target : Modes, oldMode : Modes, old : Nat, mine : Nat, client : Nat]

TypeOK ==
    /\ mode \in Modes
    /\ brokers \in Seq(BrokerType)
    /\ broker \in 1..Len(brokers)
    /\ stacks \in Seq(StackType)
    /\ \A i \in 1..Len(stacks) : stacks[i].broker \in 1..Len(brokers)
    /\ clients \in Nat /\ running \subseteq 1..clients /\ ws \in 0..clients
    /\ placing \in [Feeds -> 0..Len(stacks)]
    /\ order \in [Feeds -> TradeIds \cup {NoTrade}]
    /\ sw \in [Requests -> SwitchType]
    /\ used \subseteq TradeIds
    /\ taken \subseteq used /\ held \subseteq used /\ lost \subseteq used
    /\ killed \in BOOLEAN
    /\ failed \in BOOLEAN /\ alone \in BOOLEAN /\ overlapped \in BOOLEAN
    /\ crashes \in 0..MaxCrashes

NewStack(b, m) ==
    [broker |-> b, mode |-> m, opened |-> 0, disabled |-> FALSE, trades |-> {}]

NoSwitch ==
    [pc |-> "idle", target |-> StartMode, oldMode |-> StartMode, old |-> 0, mine |-> 0, client |-> 0]

\* Engine.start: nothing of an earlier process is read.
Started(md, bs, b, st, n, run, w, pl, od, s) ==
    /\ md = StartMode
    /\ bs = <<[kind |-> Kind(StartMode), link |-> "up"]>>
    /\ b = 1
    /\ st = <<NewStack(1, StartMode)>>
    /\ n = IF StartMode = "paper" THEN 0 ELSE 1
    /\ run = 1..n
    /\ w = n
    /\ pl = [f \in Feeds |-> 0]
    /\ od = [f \in Feeds |-> NoTrade]
    /\ s = [r \in Requests |-> NoSwitch]

Init ==
    /\ Started(mode, brokers, broker, stacks, clients, running, ws, placing, order, sw)
    /\ killed = FALSE /\ failed = FALSE /\ alone = TRUE /\ overlapped = FALSE
    /\ taken = {} /\ held = {} /\ used = {} /\ lost = {}
    /\ crashes = 0

Top == Len(stacks)

-----------------------------------------------------------------------------
(* Signals and order updates, through the engine's current attributes.      *)

\* The poller always runs.
Feeding(f) == placing[f] = 0 /\ (f = Poller \/ f \in running)

Approved == ~stacks[Top].disabled /\ stacks[Top].opened < Cap

\* _fire on stack i got its fill: count it and keep the trade.  Seeded
\* fault: it is counted only.
CountedOnly(i, id) == stacks' = [stacks EXCEPT ![i].opened = @ + 1]

Registered(i, id) ==
    stacks' = [stacks EXCEPT ![i].opened = @ + 1, ![i].trades = @ \cup {id}]

\* semi_auto stages the signal.
Fires == Approved /\ stacks[Top].mode # "semi_auto"

TopBroker == brokers[stacks[Top].broker]

\* The paper broker fills the order without an await.
PaperTrade(f, id) ==
    /\ Feeding(f)
    /\ Fires
    /\ TopBroker.kind = "paper"
    /\ id \notin used
    /\ used' = used \cup {id}
    /\ Registered(Top, id)
    /\ UNCHANGED <<mode, brokers, broker, stream, flights, sw, taken, held, lost, history>>

SendOrder(f, id) ==
    /\ Feeding(f)
    /\ Fires
    /\ TopBroker.kind = "live"
    /\ id \notin used
    /\ used' = used \cup {id}
    /\ placing' = [placing EXCEPT ![f] = Top]
    /\ order' = [order EXCEPT ![f] = id]
    /\ UNCHANGED <<mode, brokers, broker, stacks, stream, sw, taken, held, lost, history>>

\* The broker takes the order of f, at any of its attempts; the answer may
\* still be lost.
BrokerTakes(f) ==
    /\ placing[f] # 0
    /\ order[f] \notin taken
    /\ taken' = taken \cup {order[f]}
    /\ held' = held \cup {order[f]}
    /\ UNCHANGED <<mode, brokers, broker, stacks, stream, flights, sw, used, lost, history>>

\* _with_retry is over.
FlightOver(f) ==
    /\ placing' = [placing EXCEPT ![f] = 0]
    /\ order' = [order EXCEPT ![f] = NoTrade]

OrderFilled(f) ==
    /\ placing[f] # 0
    /\ brokers[stacks[placing[f]].broker].link = "up"
    /\ order[f] \in taken
    /\ Registered(placing[f], order[f])
    /\ FlightOver(f)
    /\ UNCHANGED <<mode, brokers, broker, stream, sw, orders, history>>

\* All attempts raised; a closed HTTP client raises at once.  The broker may
\* have taken the order all the same.
OrderFailed(f) ==
    /\ placing[f] # 0
    /\ FlightOver(f)
    /\ lost' = lost \cup {order[f]}
    /\ UNCHANGED <<mode, brokers, broker, stacks, stream, sw, taken, held, used, history>>

\* close_trade of the current executor: it ignores a trade it does not know.
Forgotten(i, id) == stacks' = [stacks EXCEPT ![i].trades = @ \ {id}]

\* The broker closes a position.  A stream may carry the update, or not.
PositionCloses(id) ==
    /\ id \in held
    /\ held' = held \ {id}
    /\ UNCHANGED stacks \/ (running # {} /\ Forgotten(Top, id))
    /\ UNCHANGED <<mode, brokers, broker, stream, flights, sw, taken, used, lost, history>>

\* The stream reports the fill of the opening order, with its price:
\* _on_order_update takes it for the close of the position.
FillTakenForClose(id) ==
    /\ id \in held \cap stacks[Top].trades
    /\ \E c \in running : placing[c] = 0
    /\ Forgotten(Top, id)
    /\ lost' = lost \cup {id}
    /\ UNCHANGED <<mode, brokers, broker, stream, flights, sw, taken, held, used, history>>

\* POST /risk/disable reaches the risk manager of app.state.
DisableTrading ==
    /\ stacks' = [stacks EXCEPT ![1].disabled = TRUE]
    /\ killed' = TRUE
    /\ UNCHANGED <<mode, brokers, broker, stream, flights, sw, orders,
                   failed, alone, overlapped, crashes>>

-----------------------------------------------------------------------------
(* switch_environment, from one await to the next.                          *)

Busy(r) == sw[r].pc # "idle"
Quiet == \A r \in Requests : ~Busy(r)

\* Closing a paper broker does not suspend: nothing happens between.
Urgent == \E r \in Requests : sw[r].pc = "closing" /\ brokers[sw[r].old].kind = "paper"

\* The current broker becomes old_broker, to be closed.
Closing(s) == [s EXCEPT !.pc = "closing", !.old = broker]

SwitchBegin(r, m) ==
    /\ ~Busy(r)
    /\ ~Urgent
    /\ m # mode
    /\ Len(brokers)
         + Cardinality({q \in Requests : sw[q].pc \in {"stoppingWs", "closing"}}) < MaxBrokers
    /\ LET s == [pc |-> "stoppingWs", target |-> m, oldMode |-> mode, old |-> 0,
                 mine |-> 0, client |-> ws]
       IN  sw' = [sw EXCEPT ![r] = IF ws # 0 THEN s ELSE Closing(s)]
    /\ alone' = Quiet
    /\ overlapped' = (overlapped \/ ~Quiet)
    /\ UNCHANGED <<mode, brokers, broker, stacks, stream, flights, orders,
                   killed, failed, crashes>>

\* ws.stop() waits for the consumer, and so for the handler it is in.
\* Seeded fault: it does not.
WsQuietAtOnce(c) == TRUE

WsQuiet(c) == placing[c] = 0

\* The end of its task wakes all the requests that wait for it.
WsStopped(c) ==
    LET waiting == {r \in Requests : sw[r].pc = "stoppingWs" /\ sw[r].client = c}
    IN  /\ waiting # {}
        /\ WsQuiet(c)
        /\ running' = running \ {c}
        /\ ws' = 0
        /\ sw' = [r \in Requests |-> IF r \in waiting THEN Closing(sw[r]) ELSE sw[r]]
        /\ UNCHANGED <<mode, brokers, broker, stacks, clients, flights, orders,
                       history>>

\* close() shuts the HTTP client; PaperBroker.close does nothing.
\* Seeded fault: it cancels the refresh task only.
LeftOpen(b) == b

ClosedBroker(b) == IF b.kind = "live" THEN [b EXCEPT !.link = "closed"] ELSE b

\* Steps 5 to 7: a fresh risk manager, an executor on self._broker b, the
\* stream if the mode and that broker have one.  Seeded fault: the executor
\* keeps old_broker.
OldBroker(r, b) == sw[r].old

ExecutorBroker(r, b) == b

Rebuild(r, b, kind) ==
    /\ stacks' = Append(stacks, NewStack(ExecutorBroker(r, b), sw[r].target))
    /\ IF sw[r].target # "paper" /\ kind = "live"
       THEN /\ clients' = clients + 1
            /\ running' = running \cup {clients + 1}
            /\ ws' = clients + 1
       ELSE UNCHANGED stream
    /\ sw' = [sw EXCEPT ![r] = NoSwitch]
    /\ failed' = FALSE
    /\ lost' = used

\* Broker b is created and logs in.
Connecting(s, b) == [s EXCEPT !.pc = "connecting", !.mine = b, !.client = 0]

\* The old broker is closed.  Connecting a paper broker and reading its
\* balance do not suspend; a live one has still to be connected.
BrokerClosed(r) ==
    /\ sw[r].pc = "closing"
    /\ mode' = sw[r].target
    /\ broker' = Len(brokers) + 1
    /\ brokers' = Append([brokers EXCEPT ![sw[r].old] = ClosedBroker(@)],
                         [kind |-> Kind(mode'),
                          link |-> IF mode' = "paper" THEN "up" ELSE "new"])
    /\ IF mode' = "paper"
       THEN Rebuild(r, broker', "paper")
       ELSE /\ sw' = [sw EXCEPT ![r] = Connecting(@, broker')]
            /\ UNCHANGED <<stacks, stream, failed, lost>>
    /\ UNCHANGED <<flights, taken, held, used, killed, alone, overlapped, crashes>>

\* Another request may have closed the broker while it logged in.
Connected(r) ==
    /\ sw[r].pc = "connecting"
    /\ brokers' = [brokers EXCEPT ![sw[r].mine].link = IF @ = "new" THEN "up" ELSE @]
    /\ sw' = [sw EXCEPT ![r].pc = "balance"]
    /\ UNCHANGED <<mode, broker, stacks, stream, flights, orders, history>>

\* The mode is put back.  old_broker.connect() works for a paper broker; the
\* closed HTTP client of a live one raises, which is passed over.
ConnectFailed(r) ==
    /\ sw[r].pc = "connecting"
    /\ ConnectMayFail \/ brokers[sw[r].mine].link = "closed"
    /\ mode' = sw[r].oldMode
    /\ broker' = IF brokers[sw[r].old].kind = "paper" THEN sw[r].old ELSE broker
    /\ sw' = [sw EXCEPT ![r] = NoSwitch]
    /\ failed' = TRUE
    /\ UNCHANGED <<brokers, stacks, stream, flights, orders, killed, alone,
                   overlapped, crashes>>

\* The balance of self._broker is read, or taken from the settings if that
\* raises.
BalanceRead(r) ==
    /\ sw[r].pc = "balance"
    /\ Rebuild(r, broker, brokers[broker].kind)
    /\ UNCHANGED <<mode, brokers, broker, flights, taken, held, used, killed, alone,
                   overlapped, crashes>>

-----------------------------------------------------------------------------
(* The process dies and the service manager starts it again.                *)
CrashRestart ==
    /\ crashes < MaxCrashes
    /\ crashes' = crashes + 1
    /\ Started(mode', brokers', broker', stacks', clients', running', ws', placing', order',
               sw')
    /\ killed' = FALSE /\ failed' = FALSE /\ alone' = TRUE /\ overlapped' = FALSE
    /\ lost' = used
    /\ UNCHANGED <<taken, held, used>>

SwitchStep(r) == BrokerClosed(r) \/ Connected(r) \/ ConnectFailed(r) \/ BalanceRead(r)

Next ==
    \/ \E f \in Feeds, id \in TradeIds : PaperTrade(f, id) \/ SendOrder(f, id)
    \/ \E f \in Feeds : BrokerTakes(f) \/ OrderFilled(f) \/ OrderFailed(f)
    \/ \E id \in TradeIds : PositionCloses(id) \/ FillTakenForClose(id)
    \/ DisableTrading
    \/ \E r \in Requests, m \in Modes : SwitchBegin(r, m)
    \/ \E c \in 1..clients : WsStopped(c)
    \/ \E r \in Requests : SwitchStep(r)
    \/ CrashRestart

Spec == Init /\ [][Next]_vars

-----------------------------------------------------------------------------
(***************************************************************************)
(* What the code does.                                                      *)
(***************************************************************************)

\* The executor uses the engine's broker, that broker is connected, the
\* executor's mode is the settings' mode and a stream runs in live modes.
WiredOfAPiece ==
    /\ stacks[Top].broker = broker
    /\ stacks[Top].mode = mode
    /\ brokers[broker] = [kind |-> Kind(mode), link |-> "up"]
    /\ (ws \in running) = (mode # "paper")

\* The executor's mode is that of the settings, and either it uses the
\* engine's broker or its own one is closed and can fill nothing.
SafeAfterFailure ==
    /\ stacks[Top].mode = mode
    /\ \/ stacks[Top].broker = broker
       \/ brokers[stacks[Top].broker].link = "closed"

(* After start() the engine is wired of a piece, and so it is after a       *)
(* successful switch during which no other request came: such a switch puts *)
(* right what overlapping ones have left.  One that failed is safe, if not  *)
(* undone, as long as no two have overlapped.                               *)
SettledWiring ==
    /\ (Quiet /\ ~failed /\ alone) => WiredOfAPiece
    /\ (Quiet /\ failed /\ ~overlapped) => SafeAfterFailure

(* Switches leave nothing running behind.  A stopped WebSocket client is    *)
(* not inside a handler; and as long as no two switches have overlapped,    *)
(* the engine names the only client and the only connected live broker.     *)
NothingLeftBehind ==
    /\ \A c \in Feeds \ {Poller} : placing[c] # 0 => c \in running
    /\ (Quiet /\ ~overlapped) =>
        /\ running \subseteq {ws}
        /\ \A b \in 1..Len(brokers) :
              (b # broker /\ brokers[b].kind = "live") => brokers[b].link # "up"

(* An order in flight when the environment was switched is never filled     *)
(* through the retired broker afterwards: a trade is registered by the      *)
(* newest stack.  The poller runs through a switch; this holds as long as   *)
(* no two switches have overlapped.                                         *)
NoFillAfterSwitch ==
    [][ \A i \in 1..Len(stacks) :
          (i # Top /\ ~overlapped /\ i \in DOMAIN stacks')
            => stacks'[i].opened <= stacks[i].opened
      ]_stacks

\* Positions at the broker that the current executor does not know.
Orphans == held \ stacks[Top].trades

\* Orders whose task still awaits the broker.
InFlight == {order[f] : f \in {g \in Feeds : placing[g] # 0}}

(* A position at the broker that the bot does not know has one of four      *)
(* causes: its order is still in flight; it was sent before the last switch *)
(* or restart; it was given up after its last attempt raised; or the notice *)
(* of its fill was taken for a close.  Fills, closes, and switches that     *)
(* failed or are under way lose nothing, as long as no two have overlapped. *)
OrphansHaveCause == ~overlapped => Orphans \subseteq lost \cup InFlight

-----------------------------------------------------------------------------
(***************************************************************************)
(* What the documentation says, and the code does not do.                   *)
(***************************************************************************)

(* "Emergency kill-switch: disable all new trades for the day": once it was *)
(* used, the risk manager that approves signals is disabled.                *)
KillSwitchReachesTrading == killed => stacks[Top].disabled

(* "Paper Mode: no real orders are placed": while the settings say paper    *)
(* and no switch is under way, no order goes to a live broker.              *)
NoLiveOrderInPaper ==
    [][ (Quiet /\ mode = "paper") => \A f \in Feeds, id \in TradeIds : ~SendOrder(f, id) ]_vars
=============================================================================
