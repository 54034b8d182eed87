---------------------------- MODULE EngineProofs ----------------------------
(***************************************************************************)
(* The wiring of the engine for every number of trades, requests, brokers   *)
(* and restarts, every start mode and every daily cap.                      *)
(*                                                                         *)
(* A switch is undisturbed if no other request was under way while it ran   *)
(* (alone).  What it finds and leaves then follows from where it is; as     *)
(* long as no two requests have overlapped, every switch was undisturbed,   *)
(* and the retired brokers of all of them are closed.                       *)
(***************************************************************************)
EXTENDS Engine, SequenceTheorems, TLAPS

Rewiring(r) == sw[r].pc \in {"connecting", "balance"}

Closed(b) == brokers[b].link = "closed"

\* The brokers a switch remembers exist.
Ranges ==
    \A r \in Requests :
        /\ sw[r].pc \in {"closing", "connecting"} => sw[r].old \in 1..Len(brokers)
        /\ Rewiring(r) => sw[r].mine \in 1..Len(brokers)

\* Who awaits an order: a running feed, on a live broker, under an id of its own.
Callers ==
    /\ \A f \in Feeds : placing[f] # 0 => order[f] \in used
    /\ \A c \in Feeds \ {Poller} : placing[c] # 0 => c \in running
    /\ \A f \in Feeds : placing[f] # 0 => brokers[stacks[placing[f]].broker].kind = "live"

\* The state of an undisturbed switch.
Course(r) ==
    /\ sw[r].pc = "stoppingWs" => sw[r].client = ws
    /\ sw[r].pc \in {"closing", "connecting", "balance"} => ws = 0
    /\ sw[r].pc = "closing" => sw[r].old = broker
    /\ Rewiring(r) =>
         /\ sw[r].mine = broker /\ mode = sw[r].target /\ mode # "paper"
         /\ brokers[broker] =
              [kind |-> "live", link |-> IF sw[r].pc = "balance" THEN "up" ELSE "new"]

Undisturbed ==
    alone =>
      /\ \A r, q \in Requests : Busy(r) /\ Busy(q) => r = q
      /\ \A r \in Requests : Course(r)

\* What is retired stays retired.
Retired ==
    ~overlapped =>
      /\ running \subseteq {ws}
      /\ \A b \in 1..Len(brokers) :
           (b # broker /\ brokers[b].kind = "live") => brokers[b].link # "up"
      /\ \A i \in 1..Len(stacks) :
           (i # Top /\ brokers[stacks[i].broker].kind = "live") => Closed(stacks[i].broker)

\* What a switch that fails returns to, and the newest executor meanwhile.
Return(r) ==
    /\ sw[r].pc \in {"stoppingWs", "closing"} => sw[r].oldMode = mode
    /\ Rewiring(r) =>
         /\ sw[r].oldMode = stacks[Top].mode
         /\ \/ Closed(stacks[Top].broker)
            \/ stacks[Top].broker = sw[r].old /\ brokers[sw[r].old].kind = "paper"

Fallback ==
    ~overlapped =>
      /\ alone
      /\ (\A r \in Requests : ~Rewiring(r)) => SafeAfterFailure
      /\ \A r \in Requests : Return(r)

Wired == (Quiet /\ ~failed /\ alone) => WiredOfAPiece

\* stacks is never empty.
IInv ==
    /\ TypeOK /\ stacks # <<>>
    /\ Ranges /\ Callers /\ Undisturbed /\ Retired /\ Fallback /\ Wired

USE EngineAssumption DEF EngineAssumption, flights, orders

-----------------------------------------------------------------------------
(* What the sequence operators of the actions do.                           *)

\* stacks changes in the counters and trades of its entries only.
SameStacks ==
    /\ stacks' \in Seq(StackType)
    /\ Len(stacks') = Len(stacks)
    /\ \A j \in 1..Len(stacks) :
          stacks'[j].broker = stacks[j].broker /\ stacks'[j].mode = stacks[j].mode

\* A trade is counted and kept.
LEMMA RegisteredEntry ==
    ASSUME NEW x \in StackType, NEW id \in TradeIds
    PROVE  [x EXCEPT !.opened = @ + 1, !.trades = @ \cup {id}] \in StackType
  <1> DEFINE y == [x EXCEPT !.opened = @ + 1]
  <1>1. y \in StackType /\ y.trades = x.trades
    BY DEF StackType
  <1>2. [y EXCEPT !.trades = @ \cup {id}] \in StackType
    <2> HIDE DEF y
    <2> QED
      BY <1>1 DEF StackType
  <1>3. [y EXCEPT !.trades = @ \cup {id}]
          = [x EXCEPT !.opened = @ + 1, !.trades = @ \cup {id}]
    BY DEF StackType
  <1> QED
    BY <1>2, <1>3

LEMMA RegisteredStack ==
    ASSUME TypeOK, NEW i \in 1..Len(stacks), NEW id \in TradeIds, Registered(i, id)
    PROVE  /\ SameStacks
           /\ \A j \in 1..Len(stacks) : j # i => stacks'[j] = stacks[j]
           /\ stacks'[i].trades = stacks[i].trades \cup {id}
  <1> DEFINE e == [stacks[i] EXCEPT !.opened = @ + 1, !.trades = @ \cup {id}]
  <1>1. stacks[i] \in StackType
    BY ElementOfSeq DEF TypeOK
  <1>2. e \in StackType
    BY <1>1, RegisteredEntry
  <1>3. /\ e.broker = stacks[i].broker /\ e.mode = stacks[i].mode
        /\ e.trades = stacks[i].trades \cup {id}
    BY <1>1 DEF StackType
  <1>4. stacks' = [stacks EXCEPT ![i] = e]
    BY <1>1 DEF Registered, TypeOK
  <1>5. stacks \in Seq(StackType)
    BY DEF TypeOK
  <1> HIDE DEF e
  <1>6. /\ stacks' \in Seq(StackType)
        /\ Len(stacks') = Len(stacks)
        /\ \A j \in 1..Len(stacks) : stacks'[j] = IF j = i THEN e ELSE stacks[j]
    BY <1>2, <1>4, <1>5, ExceptSeq
  <1> QED
    BY <1>3, <1>6 DEF SameStacks

Disabled(i) == stacks' = [stacks EXCEPT ![i].disabled = TRUE]

LEMMA DisabledStack ==
    ASSUME TypeOK, NEW i \in 1..Len(stacks), Disabled(i)
    PROVE  /\ SameStacks
           /\ \A j \in 1..Len(stacks) :
                 stacks'[j].opened = stacks[j].opened /\ stacks'[j].trades = stacks[j].trades
  <1> DEFINE e == [stacks[i] EXCEPT !.disabled = TRUE]
  <1>1. stacks[i] \in StackType
    BY ElementOfSeq DEF TypeOK
  <1>2. e \in StackType
    BY <1>1 DEF StackType
  <1>3. /\ e.broker = stacks[i].broker /\ e.mode = stacks[i].mode
        /\ e.opened = stacks[i].opened /\ e.trades = stacks[i].trades
    BY <1>1 DEF StackType
  <1>4. stacks' = [stacks EXCEPT ![i] = e]
    BY <1>1 DEF Disabled
  <1>5. stacks \in Seq(StackType)
    BY DEF TypeOK
  <1> HIDE DEF e
  <1>6. /\ stacks' \in Seq(StackType)
        /\ Len(stacks') = Len(stacks)
        /\ \A j \in 1..Len(stacks) : stacks'[j] = IF j = i THEN e ELSE stacks[j]
    BY <1>2, <1>4, <1>5, ExceptSeq
  <1> QED
    BY <1>3, <1>6 DEF SameStacks

LEMMA ForgottenTrade ==
    ASSUME TypeOK, NEW i \in 1..Len(stacks), NEW id, Forgotten(i, id)
    PROVE  /\ SameStacks
           /\ \A j \in 1..Len(stacks) : stacks'[j].opened = stacks[j].opened
           /\ stacks'[i].trades = stacks[i].trades \ {id}
  <1> DEFINE e == [stacks[i] EXCEPT !.trades = @ \ {id}]
  <1>1. stacks[i] \in StackType
    BY ElementOfSeq DEF TypeOK
  <1>2. e \in StackType
    BY <1>1 DEF StackType
  <1>3. /\ e.broker = stacks[i].broker /\ e.mode = stacks[i].mode
        /\ e.opened = stacks[i].opened /\ e.trades = stacks[i].trades \ {id}
    BY <1>1 DEF StackType
  <1>4. stacks' = [stacks EXCEPT ![i] = e]
    BY <1>1 DEF Forgotten
  <1>5. stacks \in Seq(StackType)
    BY DEF TypeOK
  <1> HIDE DEF e
  <1>6. /\ stacks' \in Seq(StackType)
        /\ Len(stacks') = Len(stacks)
        /\ \A j \in 1..Len(stacks) : stacks'[j] = IF j = i THEN e ELSE stacks[j]
    BY <1>2, <1>4, <1>5, ExceptSeq
  <1> QED
    BY <1>3, <1>6 DEF SameStacks

-----------------------------------------------------------------------------
(* Steps that leave the wiring alone.                                       *)

LEMMA Frame ==
    ASSUME IInv, SameStacks, TypeOK', Callers',
           UNCHANGED <<mode, brokers, broker, stream, sw, failed, alone, overlapped>>
    PROVE  IInv'
  <1>1. Top' = Top /\ Top \in 1..Len(stacks)
    BY EmptySeq DEF IInv, TypeOK, SameStacks, Top
  <1>2. /\ stacks' # <<>>
    BY <1>1, EmptySeq DEF SameStacks, Top
  <1>3. stacks'[Top'].broker = stacks[Top].broker /\ stacks'[Top'].mode = stacks[Top].mode
    BY <1>1 DEF SameStacks
  <1>4. Ranges'
    BY DEF IInv, Ranges, Rewiring, stream
  <1>5. Undisturbed'
    BY DEF IInv, Undisturbed, Course, Busy, Rewiring, stream
  <1>6. Retired'
    BY <1>1 DEF IInv, Retired, Closed, SameStacks, stream
  <1>7. Fallback'
    BY <1>3 DEF IInv, Fallback, Return, SafeAfterFailure, Rewiring, Closed, stream
  <1>8. Wired'
    BY <1>3 DEF IInv, Wired, Quiet, Busy, WiredOfAPiece, stream
  <1> QED
    BY <1>2, <1>4, <1>5, <1>6, <1>7, <1>8 DEF IInv

LEMMA TopStack ==
    ASSUME IInv
    PROVE  Top \in 1..Len(stacks) /\ stacks[Top] \in StackType
  BY EmptySeq, ElementOfSeq DEF IInv, TypeOK, Top

LEMMA PaperTradeKeeps ==
    ASSUME IInv, NEW f \in Feeds, NEW id \in TradeIds, PaperTrade(f, id)
    PROVE  IInv'
  <1>1. SameStacks
    BY TopStack, RegisteredStack DEF PaperTrade, IInv
  <1>2. TypeOK'
    BY <1>1 DEF IInv, PaperTrade, TypeOK, SameStacks, stream, history
  <1>3. Callers'
    <2>1. UNCHANGED <<brokers, running, placing, order>> /\ used \subseteq used'
      BY DEF PaperTrade, stream
    <2>2. \A g \in Feeds : placing[g] # 0 => placing[g] \in 1..Len(stacks)
      BY DEF IInv, TypeOK
    <2>3. \A i \in 1..Len(stacks) : stacks'[i].broker = stacks[i].broker
      BY <1>1 DEF SameStacks
    <2> QED
      BY <2>1, <2>2, <2>3 DEF IInv, Callers
  <1> QED
    BY <1>1, <1>2, <1>3, Frame DEF PaperTrade, history

LEMMA SendOrderKeeps ==
    ASSUME IInv, NEW f \in Feeds, NEW id \in TradeIds, SendOrder(f, id)
    PROVE  IInv'
  <1>1. SameStacks
    BY DEF SendOrder, SameStacks, IInv, TypeOK
  <1>2. TypeOK'
    BY TopStack DEF IInv, SendOrder, TypeOK, stream, history
  <1>3. Callers'
    BY TopStack DEF IInv, SendOrder, Callers, Feeding, TopBroker, TypeOK, Top, stream
  <1> QED
    BY <1>1, <1>2, <1>3, Frame DEF SendOrder, history

LEMMA BrokerTakesKeeps ==
    ASSUME IInv, NEW f \in Feeds, BrokerTakes(f)
    PROVE  IInv'
  <1>1. SameStacks
    BY DEF BrokerTakes, SameStacks, IInv, TypeOK
  <1>2. TypeOK'
    <2>1. order[f] \in used
      BY DEF IInv, BrokerTakes, Callers
    <2> QED
      BY <2>1 DEF IInv, BrokerTakes, TypeOK, stream, history
  <1>3. Callers'
    BY DEF IInv, BrokerTakes, Callers, stream
  <1> QED
    BY <1>1, <1>2, <1>3, Frame DEF BrokerTakes, history

LEMMA FlightEnded ==
    ASSUME IInv, NEW f \in Feeds, FlightOver(f)
    PROVE  /\ placing' \in [Feeds -> 0..Len(stacks)]
           /\ order' \in [Feeds -> TradeIds \cup {NoTrade}]
           /\ \A g \in Feeds : placing'[g] # 0 =>
                 /\ g # f /\ placing'[g] = placing[g] /\ order'[g] = order[g]
                 /\ placing[g] \in 1..Len(stacks)
  BY DEF IInv, FlightOver, TypeOK

LEMMA OrderFilledKeeps ==
    ASSUME IInv, NEW f \in Feeds, OrderFilled(f)
    PROVE  IInv'
  <1>1. placing[f] \in 1..Len(stacks) /\ order[f] \in TradeIds /\ FlightOver(f)
    BY DEF OrderFilled, IInv, TypeOK, Callers
  <1>2. SameStacks
    BY <1>1, RegisteredStack DEF OrderFilled, IInv
  <1>3. TypeOK'
    BY <1>1, <1>2, FlightEnded DEF IInv, OrderFilled, TypeOK, SameStacks, stream, history
  <1>4. Callers'
    <2>1. UNCHANGED <<brokers, running, used>>
      BY DEF OrderFilled, stream
    <2>2. \A g \in Feeds : placing'[g] # 0 =>
              /\ placing'[g] = placing[g] /\ order'[g] = order[g]
              /\ placing[g] \in 1..Len(stacks)
      BY <1>1, FlightEnded
    <2>3. \A i \in 1..Len(stacks) : stacks'[i].broker = stacks[i].broker
      BY <1>2 DEF SameStacks
    <2> QED
      BY <2>1, <2>2, <2>3 DEF IInv, Callers
  <1> QED
    BY <1>2, <1>3, <1>4, Frame DEF OrderFilled, history

LEMMA OrderFailedKeeps ==
    ASSUME IInv, NEW f \in Feeds, OrderFailed(f)
    PROVE  IInv'
  <1>1. SameStacks /\ FlightOver(f)
    BY DEF OrderFailed, SameStacks, IInv, TypeOK
  <1>2. TypeOK'
    <2>1. order[f] \in used
      BY DEF IInv, OrderFailed, Callers
    <2> QED
      BY <1>1, <2>1, FlightEnded DEF IInv, OrderFailed, TypeOK, stream, history
  <1>3. Callers'
    BY <1>1, FlightEnded DEF IInv, OrderFailed, Callers, stream
  <1> QED
    BY <1>1, <1>2, <1>3, Frame DEF OrderFailed, history

\* A trade leaves the newest executor, or none does.
LEMMA ForgetKeeps ==
    ASSUME IInv, NEW id \in TradeIds, UNCHANGED stacks \/ Forgotten(Top, id),
           UNCHANGED <<mode, brokers, broker, stream, flights, sw, taken, used, history>>,
           held' \subseteq used, lost' \subseteq used
    PROVE  IInv'
  <1>1. SameStacks
    <2>1. CASE stacks' = stacks
      BY <2>1 DEF SameStacks, IInv, TypeOK
    <2>2. CASE Forgotten(Top, id)
      BY <2>2, TopStack, ForgottenTrade DEF IInv
    <2> QED
      BY <2>1, <2>2
  <1>2. TypeOK'
    BY <1>1 DEF IInv, TypeOK, SameStacks, stream, history
  <1>3. Callers'
    <2>1. UNCHANGED <<brokers, running, placing, order, used>> /\ Callers
          /\ placing \in [Feeds -> 0..Len(stacks)]
      BY DEF IInv, TypeOK, stream
    <2>2. \A j \in 1..Len(stacks) : stacks'[j].broker = stacks[j].broker
      BY <1>1 DEF SameStacks
    <2>3. \A f \in Feeds : placing[f] # 0 => placing[f] \in 1..Len(stacks)
      BY <2>1
    <2> QED
      BY <2>1, <2>2, <2>3 DEF Callers
  <1> QED
    BY <1>1, <1>2, <1>3, Frame DEF history

LEMMA PositionClosesKeeps ==
    ASSUME IInv, NEW id \in TradeIds, PositionCloses(id) \/ FillTakenForClose(id)
    PROVE  IInv'
  <1>1. held' \subseteq used /\ lost' \subseteq used
    BY DEF IInv, TypeOK, PositionCloses, FillTakenForClose
  <1> QED
    BY <1>1, ForgetKeeps DEF PositionCloses, FillTakenForClose

LEMMA DisableTradingKeeps ==
    ASSUME IInv, DisableTrading
    PROVE  IInv'
  <1>1. SameStacks
    <2>1. 1 \in 1..Len(stacks)
      BY TopStack DEF IInv, TypeOK
    <2>2. TypeOK /\ Disabled(1)
      BY DEF IInv, DisableTrading, Disabled
    <2> QED
      BY <2>1, <2>2, DisabledStack
  <1>2. TypeOK'
    BY <1>1 DEF IInv, DisableTrading, TypeOK, SameStacks, stream, history
  <1>3. Callers'
    BY <1>1 DEF IInv, DisableTrading, Callers, TypeOK, SameStacks, stream
  <1> QED
    BY <1>1, <1>2, <1>3, Frame DEF DisableTrading

-----------------------------------------------------------------------------
(* What the steps of a switch do to the records they change.                *)

LEMMA ClosingSwitch ==
    ASSUME NEW s \in SwitchType, broker \in Nat
    PROVE  /\ Closing(s) \in SwitchType
           /\ Closing(s).pc = "closing" /\ Closing(s).old = broker
           /\ Closing(s).target = s.target /\ Closing(s).oldMode = s.oldMode
  <1> DEFINE y == [s EXCEPT !.pc = "closing"]
  <1>1. /\ y \in SwitchType /\ y.pc = "closing"
        /\ y.target = s.target /\ y.oldMode = s.oldMode
    BY DEF SwitchType
  <1>2. Closing(s) = [y EXCEPT !.old = broker]
    BY DEF SwitchType, Closing
  <1> HIDE DEF y
  <1> QED
    BY <1>1, <1>2 DEF SwitchType

LEMMA ConnectingSwitch ==
    ASSUME NEW s \in SwitchType, NEW b \in Nat
    PROVE  /\ Connecting(s, b) \in SwitchType
           /\ Connecting(s, b).pc = "connecting" /\ Connecting(s, b).mine = b
           /\ Connecting(s, b).old = s.old
           /\ Connecting(s, b).target = s.target /\ Connecting(s, b).oldMode = s.oldMode
  <1> DEFINE y == [s EXCEPT !.pc = "connecting"]
             z == [y EXCEPT !.mine = b]
  <1>1. /\ y \in SwitchType /\ y.pc = "connecting" /\ y.old = s.old
        /\ y.target = s.target /\ y.oldMode = s.oldMode
    BY DEF SwitchType
  <1>2. Connecting(s, b) = [z EXCEPT !.client = 0]
    BY DEF SwitchType, Connecting
  <1> HIDE DEF y
  <1>3. /\ z \in SwitchType /\ z.pc = "connecting" /\ z.mine = b /\ z.old = s.old
        /\ z.target = s.target /\ z.oldMode = s.oldMode
    BY <1>1 DEF SwitchType
  <1> HIDE DEF z
  <1> QED
    BY <1>2, <1>3 DEF SwitchType

LEMMA ClosedType ==
    ASSUME NEW b \in BrokerType
    PROVE  /\ ClosedBroker(b) \in BrokerType
           /\ ClosedBroker(b).kind = b.kind
           /\ b.kind = "live" => ClosedBroker(b).link = "closed"
           /\ b.link = "closed" => ClosedBroker(b).link = "closed"
  BY DEF BrokerType, ClosedBroker

LEMMA Replaced ==
    ASSUME NEW bs \in Seq(BrokerType), NEW o \in 1..Len(bs),
           NEW c \in BrokerType, NEW n \in BrokerType
    PROVE  LET after == Append([bs EXCEPT ![o] = c], n)
           IN  /\ after \in Seq(BrokerType)
               /\ Len(after) = Len(bs) + 1
               /\ \A b \in 1..Len(bs) : after[b] = IF b = o THEN c ELSE bs[b]
               /\ after[Len(bs) + 1] = n
  <1> DEFINE t == [bs EXCEPT ![o] = c]
  <1>1. /\ t \in Seq(BrokerType) /\ Len(t) = Len(bs)
        /\ \A b \in 1..Len(bs) : t[b] = IF b = o THEN c ELSE bs[b]
    BY ExceptSeq
  <1> HIDE DEF t
  <1>2. /\ Append(t, n) \in Seq(BrokerType)
        /\ Len(Append(t, n)) = Len(t) + 1
        /\ \A b \in 1..Len(t) : Append(t, n)[b] = t[b]
        /\ Append(t, n)[Len(t) + 1] = n
    BY <1>1, AppendProperties
  <1> QED
    BY <1>1, <1>2 DEF t

LEMMA NewStackType ==
    ASSUME NEW b \in Nat, NEW m \in Modes
    PROVE  /\ NewStack(b, m) \in StackType
           /\ NewStack(b, m).broker = b /\ NewStack(b, m).mode = m
  BY DEF NewStack, StackType

-----------------------------------------------------------------------------
(* The steps of a switch.                                                   *)

LEMMA SwitchBeginKeeps ==
    ASSUME IInv, NEW r \in Requests, NEW m \in Modes, SwitchBegin(r, m)
    PROVE  IInv'
  <1> DEFINE s == [pc |-> "stoppingWs", target |-> m, oldMode |-> mode, old |-> 0,
                   mine |-> 0, client |-> ws]
             new == IF ws # 0 THEN s ELSE Closing(s)
  <1>1. TypeOK /\ broker \in 1..Len(brokers) /\ ws \in 0..clients /\ mode \in Modes
    BY DEF IInv, TypeOK
  <1>2. s \in SwitchType
    BY <1>1 DEF SwitchType, TypeOK
  <1>3. /\ new \in SwitchType /\ new.oldMode = mode
        /\ ws # 0 => new.pc = "stoppingWs" /\ new.client = ws
        /\ ws = 0 => new.pc = "closing" /\ new.old = broker
    BY <1>1, <1>2, ClosingSwitch
  <1>4. sw' = [sw EXCEPT ![r] = new]
    BY DEF SwitchBegin
  <1>5. UNCHANGED <<mode, brokers, broker, stacks, stream, flights, orders,
                    killed, failed, crashes>>
    BY DEF SwitchBegin
  <1>6. /\ alone' = Quiet /\ overlapped' = (overlapped \/ ~Quiet)
        /\ ~Busy(r)
    BY DEF SwitchBegin
  <1> HIDE DEF new
  <1>7. /\ sw' \in [Requests -> SwitchType] /\ sw'[r] = new
        /\ \A q \in Requests \ {r} : sw'[q] = sw[q]
    BY <1>1, <1>3, <1>4 DEF TypeOK
  <1>8. sw'[r].pc \in {"stoppingWs", "closing"}
    BY <1>3, <1>7
  <1>9. TypeOK'
    <2>1. Quiet \in BOOLEAN
      BY DEF Quiet
    <2>2. alone' \in BOOLEAN /\ overlapped' \in BOOLEAN
      BY <1>6, <2>1
    <2> QED
      BY <1>1, <1>5, <1>7, <2>2 DEF TypeOK, stream
  <1>10. stacks' # <<>> /\ Ranges'
    BY <1>1, <1>3, <1>5, <1>7, <1>8 DEF IInv, Ranges, Rewiring
  <1>11. Callers'
    BY <1>5 DEF IInv, Callers, stream
  <1>12. Undisturbed'
    <2> SUFFICES ASSUME alone'
                 PROVE  /\ \A p, q \in Requests : Busy(p)' /\ Busy(q)' => p = q
                        /\ \A q \in Requests : Course(q)'
      BY DEF Undisturbed
    <2>1. \A q \in Requests \ {r} : sw'[q].pc = "idle"
      BY <1>6, <1>7 DEF Quiet, Busy
    <2>2. \A q \in Requests \ {r} : Course(q)' /\ ~Busy(q)'
      BY <2>1 DEF Course, Rewiring, Busy
    <2>3. Course(r)'
      BY <1>3, <1>5, <1>7, <1>8 DEF Course, Rewiring, stream
    <2> QED
      BY <2>2, <2>3
  <1>13. Retired'
    BY <1>5, <1>6 DEF IInv, Retired, Closed, Top, stream
  <1>14. Fallback'
    <2> SUFFICES ASSUME ~overlapped'
                 PROVE  alone' /\ SafeAfterFailure' /\ \A q \in Requests : Return(q)'
      BY DEF Fallback
    <2>1. ~overlapped /\ Quiet
      BY <1>6
    <2>2. alone'
      BY <1>6, <2>1
    <2>3. \A q \in Requests \ {r} : sw'[q].pc = "idle"
      BY <1>7, <2>1 DEF Quiet, Busy
    <2>4. \A q \in Requests : ~Rewiring(q)
      BY <2>1 DEF Quiet, Busy, Rewiring
    <2>5. SafeAfterFailure'
      BY <1>5, <2>1, <2>4 DEF IInv, Fallback, SafeAfterFailure, Top
    <2> QED
      BY <1>3, <1>5, <1>7, <1>8, <2>2, <2>3, <2>5 DEF Return, Rewiring
  <1>15. Wired'
    BY <1>8 DEF Wired, Quiet, Busy
  <1> QED
    BY <1>9, <1>10, <1>11, <1>12, <1>13, <1>14, <1>15 DEF IInv

LEMMA WsStoppedKeeps ==
    ASSUME IInv, NEW c \in 1..clients, WsStopped(c)
    PROVE  IInv'
  <1> DEFINE waits(q) == sw[q].pc = "stoppingWs" /\ sw[q].client = c
  <1>1. TypeOK /\ broker \in 1..Len(brokers) /\ broker \in Nat
    BY DEF IInv, TypeOK
  <1>2. /\ sw' = [q \in Requests |-> IF waits(q) THEN Closing(sw[q]) ELSE sw[q]]
        /\ placing[c] = 0 /\ running' = running \ {c} /\ ws' = 0
        /\ UNCHANGED <<mode, brokers, broker, stacks, clients, flights, orders, history>>
    BY DEF WsStopped, WsQuiet
  <1>3. PICK w \in Requests : waits(w)
    BY DEF WsStopped
  <1>4. ASSUME NEW q \in Requests
        PROVE  /\ sw'[q] \in SwitchType
               /\ sw'[q].oldMode = sw[q].oldMode
               /\ waits(q) => sw'[q].pc = "closing" /\ sw'[q].old = broker
               /\ ~waits(q) => sw'[q] = sw[q]
    <2>1. sw[q] \in SwitchType
      BY <1>1 DEF TypeOK
    <2>2. CASE waits(q)
      BY <1>1, <1>2, <2>1, <2>2, ClosingSwitch
    <2>3. CASE ~waits(q)
      BY <1>2, <2>1, <2>3
    <2> QED
      BY <2>2, <2>3
  <1>5. alone => /\ c = ws
                 /\ \A q \in Requests \ {w} : sw[q].pc = "idle"
    BY <1>3 DEF IInv, Undisturbed, Course, Busy
  <1>6. sw'[w].pc = "closing" /\ sw'[w].old = broker
    BY <1>3, <1>4
  <1>7. alone => \A q \in Requests \ {w} : sw'[q].pc = "idle"
    BY <1>4, <1>5
  <1>8. TypeOK'
    <2>1. sw' \in [Requests -> SwitchType]
      BY <1>2, <1>4
    <2> QED
      BY <1>1, <1>2, <2>1 DEF TypeOK, history
  <1>9. stacks' # <<>> /\ Ranges'
    BY <1>1, <1>2, <1>4 DEF IInv, Ranges, Rewiring
  <1>10. Callers'
    BY <1>2 DEF IInv, Callers
  <1>11. Undisturbed'
    BY <1>2, <1>6, <1>7 DEF Undisturbed, Course, Busy, Rewiring, history
  <1>12. Retired'
    BY <1>2, <1>5 DEF IInv, Retired, Fallback, Closed, Top, history
  <1>13. Fallback'
    <2> SUFFICES ASSUME ~overlapped'
                 PROVE  alone' /\ SafeAfterFailure' /\ \A q \in Requests : Return(q)'
      BY DEF Fallback
    <2>1. ~overlapped /\ alone /\ alone'
      BY <1>2 DEF IInv, Fallback, history
    <2>2. \A q \in Requests : ~Rewiring(q)
      BY <1>3, <1>5, <2>1 DEF Rewiring
    <2>3. SafeAfterFailure'
      BY <1>2, <2>1, <2>2 DEF IInv, Fallback, SafeAfterFailure, Top
    <2>4. sw[w].oldMode = mode
      BY <1>3, <2>1 DEF IInv, Fallback, Return
    <2> QED
      BY <1>2, <1>4, <1>6, <1>7, <2>1, <2>3, <2>4 DEF Return, Rewiring
  <1>14. Wired'
    BY <1>6 DEF Wired, Quiet, Busy
  <1> QED
    BY <1>8, <1>9, <1>10, <1>11, <1>12, <1>13, <1>14 DEF IInv

LEMMA ConnectedKeeps ==
    ASSUME IInv, NEW r \in Requests, Connected(r)
    PROVE  IInv'
  <1> DEFINE m == sw[r].mine
             e == [brokers[m] EXCEPT !.link = IF @ = "new" THEN "up" ELSE @]
             x == [sw[r] EXCEPT !.pc = "balance"]
  <1>1. TypeOK /\ Rewiring(r) /\ sw[r].pc = "connecting" /\ m \in 1..Len(brokers)
    BY DEF IInv, Connected, Rewiring, Ranges
  <1>2. brokers \in Seq(BrokerType) /\ brokers[m] \in BrokerType
    BY <1>1, ElementOfSeq DEF TypeOK
  <1>3. e \in BrokerType
    BY <1>2 DEF BrokerType
  <1>4. e.kind = brokers[m].kind /\ e.link = IF brokers[m].link = "new" THEN "up" ELSE brokers[m].link
    BY <1>2 DEF BrokerType
  <1>5. brokers' = [brokers EXCEPT ![m] = e]
    BY DEF Connected
  <1>6. sw[r] \in SwitchType
    BY <1>1 DEF TypeOK
  <1>7. /\ x \in SwitchType /\ x.pc = "balance" /\ x.mine = m /\ x.old = sw[r].old
        /\ x.target = sw[r].target /\ x.oldMode = sw[r].oldMode
    BY <1>6 DEF SwitchType
  <1>8. sw' = [sw EXCEPT ![r] = x]
    BY DEF Connected
  <1>9. UNCHANGED <<mode, broker, stacks, stream, flights, orders, history>>
    BY DEF Connected
  <1> HIDE DEF e, x
  <1>10. /\ brokers' \in Seq(BrokerType) /\ Len(brokers') = Len(brokers)
         /\ \A b \in 1..Len(brokers) : brokers'[b] = IF b = m THEN e ELSE brokers[b]
    BY <1>1, <1>2, <1>3, <1>5, ExceptSeq
  <1>11. /\ sw' \in [Requests -> SwitchType] /\ sw'[r] = x
         /\ \A q \in Requests \ {r} : sw'[q] = sw[q]
    BY <1>1, <1>7, <1>8 DEF TypeOK
  <1>12. \A b \in 1..Len(brokers) :
            /\ brokers'[b].kind = brokers[b].kind
            /\ brokers[b].link = "closed" => brokers'[b].link = "closed"
    BY <1>4, <1>10
  <1>13. TypeOK'
    BY <1>1, <1>9, <1>10, <1>11 DEF TypeOK, stream, history
  <1>14. \A i \in 1..Len(stacks) : stacks[i].broker \in 1..Len(brokers)
    BY <1>1 DEF TypeOK
  <1>15. Top \in 1..Len(stacks) /\ Top' = Top
    BY <1>9, TopStack DEF Top
  <1>16. stacks' # <<>> /\ Ranges'
    BY <1>1, <1>7, <1>9, <1>10, <1>11 DEF IInv, Ranges, Rewiring
  <1>17. Callers'
    BY <1>1, <1>9, <1>12, <1>14 DEF IInv, Callers, TypeOK, stream
  <1>18. alone => /\ m = broker /\ ws = 0 /\ mode = x.target /\ mode # "paper"
                  /\ brokers[broker] = [kind |-> "live", link |-> "new"]
                  /\ \A q \in Requests \ {r} : sw'[q].pc = "idle"
    BY <1>1, <1>7, <1>11 DEF IInv, Undisturbed, Course, Busy
  <1>19. alone => brokers'[broker] = [kind |-> "live", link |-> "up"]
    BY <1>1, <1>3, <1>4, <1>10, <1>18 DEF BrokerType
  <1>20. Undisturbed'
    BY <1>7, <1>9, <1>11, <1>18, <1>19 DEF Undisturbed, Course, Busy, Rewiring, stream, history
  <1>21. Retired'
    BY <1>9, <1>10, <1>12, <1>14, <1>15, <1>18 DEF IInv, Retired, Fallback, Closed, stream, history
  <1>22. Fallback'
    <2> SUFFICES ASSUME ~overlapped'
                 PROVE  /\ alone' /\ \A q \in Requests : Return(q)'
                        /\ (\A q \in Requests : ~Rewiring(q)') => SafeAfterFailure'
      BY DEF Fallback
    <2>1. ~overlapped /\ alone /\ alone' /\ Return(r)
      BY <1>9 DEF IInv, Fallback, history
    <2>2. Return(r)'
      BY <1>1, <1>7, <1>9, <1>11, <1>12, <1>14, <1>15, <2>1
         DEF IInv, Ranges, Return, Rewiring, Closed
    <2>3. Rewiring(r)'
      BY <1>7, <1>11 DEF Rewiring
    <2> QED
      BY <1>11, <1>18, <2>1, <2>2, <2>3 DEF Return, Rewiring
  <1>23. Wired'
    BY <1>7, <1>11 DEF Wired, Quiet, Busy
  <1> QED
    BY <1>13, <1>16, <1>17, <1>20, <1>21, <1>22, <1>23 DEF IInv

LEMMA RebuiltStacks ==
    ASSUME TypeOK, NEW r \in Requests, NEW b \in Nat, NEW k, Rebuild(r, b, k)
    PROVE  /\ stacks' \in Seq(StackType) /\ stacks' # <<>>
           /\ Len(stacks') = Len(stacks) + 1
           /\ \A i \in 1..Len(stacks) : stacks'[i] = stacks[i]
           /\ stacks'[Len(stacks) + 1].broker = b
           /\ stacks'[Len(stacks) + 1].mode = sw[r].target
  <1> DEFINE e == NewStack(b, sw[r].target)
  <1>1. stacks \in Seq(StackType) /\ sw[r].target \in Modes
    BY DEF TypeOK, SwitchType
  <1>2. e \in StackType /\ e.broker = b /\ e.mode = sw[r].target
    BY <1>1, NewStackType
  <1>3. stacks' = Append(stacks, e)
    BY DEF Rebuild, ExecutorBroker
  <1> HIDE DEF e
  <1> QED
    BY <1>1, <1>2, <1>3, AppendProperties

LEMMA RebuiltSwitch ==
    ASSUME TypeOK, NEW r \in Requests, NEW b, NEW k, Rebuild(r, b, k)
    PROVE  /\ sw' \in [Requests -> SwitchType] /\ sw'[r].pc = "idle"
           /\ \A q \in Requests \ {r} : sw'[q] = sw[q]
  <1>1. NoSwitch \in SwitchType /\ NoSwitch.pc = "idle"
    BY DEF NoSwitch, SwitchType
  <1> QED
    BY <1>1 DEF Rebuild, TypeOK

\* The broker of the switch that closes its old one.
LEMMA BrokerReplaced ==
    ASSUME IInv, NEW r \in Requests, BrokerClosed(r)
    PROVE  LET o == sw[r].old
           IN  /\ o \in 1..Len(brokers)
               /\ brokers' \in Seq(BrokerType) /\ Len(brokers') = Len(brokers) + 1
               /\ broker' = Len(brokers) + 1
               /\ \A b \in 1..Len(brokers) :
                     /\ brokers'[b].kind = brokers[b].kind
                     /\ brokers[b].link = "closed" => brokers'[b].link = "closed"
                     /\ b # o => brokers'[b] = brokers[b]
                     /\ b = o /\ brokers[b].kind = "live" => brokers'[b].link = "closed"
               /\ brokers'[broker'] =
                     [kind |-> Kind(mode'), link |-> IF mode' = "paper" THEN "up" ELSE "new"]
  <1> DEFINE o == sw[r].old
             c == ClosedBroker(brokers[o])
             n == [kind |-> Kind(mode'), link |-> IF mode' = "paper" THEN "up" ELSE "new"]
  <1>1. brokers \in Seq(BrokerType) /\ o \in 1..Len(brokers)
    BY DEF IInv, TypeOK, Ranges, BrokerClosed
  <1>2. brokers[o] \in BrokerType
    BY <1>1, ElementOfSeq
  <1>3. /\ c \in BrokerType /\ c.kind = brokers[o].kind
        /\ brokers[o].kind = "live" => c.link = "closed"
        /\ brokers[o].link = "closed" => c.link = "closed"
    BY <1>2, ClosedType
  <1>4. n \in BrokerType
    BY DEF BrokerType, Kind
  <1>5. brokers' = Append([brokers EXCEPT ![o] = c], n) /\ broker' = Len(brokers) + 1
    BY DEF BrokerClosed
  <1> HIDE DEF c, n
  <1>6. /\ brokers' \in Seq(BrokerType) /\ Len(brokers') = Len(brokers) + 1
        /\ \A b \in 1..Len(brokers) : brokers'[b] = IF b = o THEN c ELSE brokers[b]
        /\ brokers'[Len(brokers) + 1] = n
    BY <1>1, <1>3, <1>4, <1>5, Replaced
  <1>7. brokers'[broker'] = n
    BY <1>5, <1>6
  <1> QED
    BY <1>1, <1>3, <1>5, <1>6, <1>7 DEF n

\* What is retired by it, whether or not a new executor is built at once.
LEMMA RetiredByClosing ==
    ASSUME IInv, NEW r \in Requests, BrokerClosed(r), ~overlapped
    PROVE  /\ alone /\ sw[r].old = broker /\ ws = 0
           /\ \A q \in Requests \ {r} : sw[q].pc = "idle"
           /\ \A b \in 1..Len(brokers) : brokers[b].kind = "live" => brokers'[b].link # "up"
           /\ \A i \in 1..Len(stacks) :
                 brokers[stacks[i].broker].kind = "live"
                   => brokers'[stacks[i].broker].link = "closed"
           /\ SafeAfterFailure
  <1>1. alone /\ sw[r].pc = "closing"
    BY DEF IInv, Fallback, BrokerClosed
  <1>2. /\ sw[r].old = broker /\ ws = 0
        /\ \A q \in Requests \ {r} : sw[q].pc = "idle"
    BY <1>1 DEF IInv, Undisturbed, Course, Busy
  <1>3. SafeAfterFailure
    BY <1>1, <1>2 DEF IInv, Fallback, Rewiring
  <1>4. \A b \in 1..Len(brokers) : brokers[b].kind = "live" => brokers'[b].link # "up"
    BY <1>2, BrokerReplaced DEF IInv, Retired
  <1>5. \A i \in 1..Len(stacks) : stacks[i].broker \in 1..Len(brokers)
    BY DEF IInv, TypeOK
  <1>6. \A i \in 1..Len(stacks) :
            brokers[stacks[i].broker].kind = "live"
              => brokers'[stacks[i].broker].link = "closed"
    <2> TAKE i \in 1..Len(stacks)
    <2> DEFINE b == stacks[i].broker
    <2>1. b \in 1..Len(brokers)
      BY <1>5
    <2>2. /\ brokers[b].link = "closed" => brokers'[b].link = "closed"
          /\ b = sw[r].old /\ brokers[b].kind = "live" => brokers'[b].link = "closed"
      BY <2>1, BrokerReplaced
    <2>3. brokers[b].kind = "live" => b = broker \/ brokers[b].link = "closed"
      BY <1>3 DEF IInv, Retired, SafeAfterFailure, Closed
    <2> QED
      BY <1>2, <2>2, <2>3
  <1> QED
    BY <1>1, <1>2, <1>3, <1>4, <1>6

LEMMA BrokerClosedPaper ==
    ASSUME IInv, NEW r \in Requests, BrokerClosed(r), mode' = "paper"
    PROVE  IInv'
  <1>1. /\ Rebuild(r, broker', "paper") /\ mode' = sw[r].target
        /\ UNCHANGED <<flights, taken, held, used, killed, alone, overlapped, crashes>>
    BY DEF BrokerClosed
  <1>2. UNCHANGED stream /\ failed' = FALSE /\ lost' = used
    BY <1>1 DEF Rebuild
  <1>3. TypeOK /\ broker' \in Nat /\ broker' \in 1..Len(brokers')
    BY BrokerReplaced DEF IInv, TypeOK
  <1>4. /\ stacks' \in Seq(StackType) /\ stacks' # <<>>
        /\ Len(stacks') = Len(stacks) + 1
        /\ \A i \in 1..Len(stacks) : stacks'[i] = stacks[i]
        /\ stacks'[Len(stacks) + 1].broker = broker'
        /\ stacks'[Len(stacks) + 1].mode = mode'
    BY <1>1, <1>3, RebuiltStacks
  <1>5. /\ sw' \in [Requests -> SwitchType] /\ sw'[r].pc = "idle"
        /\ \A q \in Requests \ {r} : sw'[q] = sw[q]
    BY <1>1, <1>3, RebuiltSwitch
  <1>6. \A i \in 1..Len(stacks) : stacks[i].broker \in 1..Len(brokers)
    BY <1>3 DEF TypeOK
  <1>7. Len(stacks) \in Nat /\ Len(brokers) \in Nat /\ Len(brokers') = Len(brokers) + 1
    BY <1>3, BrokerReplaced DEF TypeOK
  <1>8. TypeOK'
    <2>1. \A i \in 1..Len(stacks') : stacks'[i].broker \in 1..Len(brokers')
      BY <1>3, <1>4, <1>6, <1>7
    <2>2. placing' \in [Feeds -> 0..Len(stacks')]
      BY <1>1, <1>3, <1>4, <1>7 DEF TypeOK
    <2>3. mode' \in Modes
      BY DEF Modes
    <2> QED
      BY <1>1, <1>2, <1>3, <1>4, <1>5, <2>1, <2>2, <2>3, BrokerReplaced DEF TypeOK, stream
  <1>9. Ranges'
    BY <1>5, <1>7 DEF IInv, Ranges, Rewiring
  <1>10. Callers'
    <2>1. ASSUME NEW f \in Feeds, placing'[f] # 0
          PROVE  brokers'[stacks'[placing'[f]].broker].kind = "live"
      <3>1. placing'[f] = placing[f] /\ placing[f] \in 1..Len(stacks)
        BY <1>1, <1>3, <2>1 DEF TypeOK
      <3>2. brokers[stacks[placing[f]].broker].kind = "live"
        BY <2>1, <3>1 DEF IInv, Callers
      <3> QED
        BY <1>4, <1>6, <3>1, <3>2, BrokerReplaced
    <2> QED
      BY <1>1, <1>2, <2>1 DEF IInv, Callers, stream
  <1>11. alone => \A q \in Requests : sw'[q].pc = "idle"
    BY <1>5 DEF IInv, Undisturbed, Busy, BrokerClosed
  <1>12. Undisturbed'
    BY <1>1, <1>11 DEF Undisturbed, Course, Busy, Rewiring
  <1>13. brokers'[broker'] = [kind |-> "paper", link |-> "up"] /\ broker' = Len(brokers) + 1
    BY BrokerReplaced DEF Kind
  <1>14. Retired'
    <2> SUFFICES ASSUME ~overlapped'
                 PROVE  /\ running' \subseteq {ws'}
                        /\ \A b \in 1..Len(brokers') :
                             (b # broker' /\ brokers'[b].kind = "live") => brokers'[b].link # "up"
                        /\ \A i \in 1..Len(stacks') :
                             (i # Top' /\ brokers'[stacks'[i].broker].kind = "live")
                               => brokers'[stacks'[i].broker].link = "closed"
      BY DEF Retired, Closed
    <2>1. ~overlapped
      BY <1>1
    <2>2. running' \subseteq {ws'}
      BY <1>2, <2>1 DEF IInv, Retired, stream
    <2>3. ASSUME NEW b \in 1..Len(brokers'), b # broker', brokers'[b].kind = "live"
          PROVE  brokers'[b].link # "up"
      BY <1>7, <1>13, <2>1, <2>3, BrokerReplaced, RetiredByClosing
    <2>4. ASSUME NEW i \in 1..Len(stacks'), i # Top', brokers'[stacks'[i].broker].kind = "live"
          PROVE  brokers'[stacks'[i].broker].link = "closed"
      <3>1. i \in 1..Len(stacks) /\ stacks'[i] = stacks[i]
        BY <1>4, <1>7, <2>4 DEF Top
      <3>2. brokers[stacks[i].broker].kind = "live"
        BY <1>6, <2>4, <3>1, BrokerReplaced
      <3> QED
        BY <2>1, <3>1, <3>2, RetiredByClosing
    <2> QED
      BY <2>2, <2>3, <2>4
  <1>15. Top' = Len(stacks) + 1
    BY <1>4 DEF Top
  <1>16. Fallback'
    BY <1>1, <1>4, <1>5, <1>11, <1>15 DEF IInv, Fallback, Return, SafeAfterFailure, Rewiring
  <1>17. Wired'
    <2> SUFFICES ASSUME alone PROVE WiredOfAPiece'
      BY <1>1 DEF Wired
    <2>1. ws = 0 /\ running \subseteq 1..clients
      BY <1>1, <1>3 DEF IInv, Undisturbed, Course, BrokerClosed, TypeOK
    <2>2. ws' \notin running'
      BY <1>2, <1>3, <2>1 DEF TypeOK, stream
    <2> QED
      BY <1>4, <1>13, <1>15, <2>2 DEF WiredOfAPiece, Kind
  <1> QED
    BY <1>4, <1>8, <1>9, <1>10, <1>12, <1>14, <1>16, <1>17 DEF IInv

LEMMA BrokerClosedLive ==
    ASSUME IInv, NEW r \in Requests, BrokerClosed(r), mode' # "paper"
    PROVE  IInv'
  <1> DEFINE x == Connecting(sw[r], broker')
  <1>1. /\ sw' = [sw EXCEPT ![r] = x] /\ mode' = sw[r].target /\ sw[r].pc = "closing"
        /\ UNCHANGED <<stacks, stream, failed, flights, orders, killed, alone,
                        overlapped, crashes>>
    BY DEF BrokerClosed
  <1>2. TypeOK /\ broker' \in Nat /\ broker' \in 1..Len(brokers')
    BY BrokerReplaced DEF IInv, TypeOK
  <1>3. sw[r] \in SwitchType
    BY <1>2 DEF TypeOK
  <1>4. /\ x \in SwitchType /\ x.pc = "connecting" /\ x.mine = broker'
        /\ x.old = sw[r].old /\ x.target = sw[r].target /\ x.oldMode = sw[r].oldMode
    BY <1>2, <1>3, ConnectingSwitch
  <1> HIDE DEF x
  <1>5. /\ sw' \in [Requests -> SwitchType] /\ sw'[r] = x
        /\ \A q \in Requests \ {r} : sw'[q] = sw[q]
    BY <1>1, <1>2, <1>4 DEF TypeOK
  <1>6. \A i \in 1..Len(stacks) : stacks[i].broker \in 1..Len(brokers)
    BY <1>2 DEF TypeOK
  <1>7. Len(brokers) \in Nat /\ Len(brokers') = Len(brokers) + 1
    BY <1>2, BrokerReplaced DEF TypeOK
  <1>8. TypeOK'
    <2>1. \A i \in 1..Len(stacks') : stacks'[i].broker \in 1..Len(brokers')
      BY <1>1, <1>6, <1>7
    <2>2. mode' \in Modes
      BY <1>1, <1>3 DEF SwitchType
    <2> QED
      BY <1>1, <1>2, <1>5, <2>1, <2>2, BrokerReplaced DEF TypeOK, stream
  <1>9. stacks' # <<>> /\ Ranges'
    BY <1>1, <1>2, <1>4, <1>5, <1>7, BrokerReplaced DEF IInv, Ranges, Rewiring
  <1>10. Callers'
    <2>1. ASSUME NEW f \in Feeds, placing'[f] # 0
          PROVE  brokers'[stacks'[placing'[f]].broker].kind = "live"
      <3>1. placing'[f] = placing[f] /\ placing[f] \in 1..Len(stacks)
        BY <1>1, <1>2, <2>1 DEF TypeOK
      <3>2. brokers[stacks[placing[f]].broker].kind = "live"
        BY <2>1, <3>1 DEF IInv, Callers
      <3> QED
        BY <1>1, <1>6, <3>1, <3>2, BrokerReplaced
    <2> QED
      BY <1>1, <2>1 DEF IInv, Callers, stream
  <1>11. alone => ws = 0 /\ \A q \in Requests \ {r} : sw'[q].pc = "idle"
    BY <1>1, <1>5 DEF IInv, Undisturbed, Course, Busy
  <1>12. brokers'[broker'] = [kind |-> "live", link |-> "new"] /\ broker' = Len(brokers) + 1
    BY BrokerReplaced DEF Kind
  <1>13. Undisturbed'
    BY <1>1, <1>4, <1>5, <1>11, <1>12 DEF Undisturbed, Course, Busy, Rewiring, stream
  <1>14. Retired'
    <2> SUFFICES ASSUME ~overlapped'
                 PROVE  /\ running' \subseteq {ws'}
                        /\ \A b \in 1..Len(brokers') :
                             (b # broker' /\ brokers'[b].kind = "live") => brokers'[b].link # "up"
                        /\ \A i \in 1..Len(stacks') :
                             (i # Top' /\ brokers'[stacks'[i].broker].kind = "live")
                               => brokers'[stacks'[i].broker].link = "closed"
      BY DEF Retired, Closed
    <2>1. ~overlapped
      BY <1>1
    <2>2. running' \subseteq {ws'}
      BY <1>1, <2>1 DEF IInv, Retired, stream
    <2>3. ASSUME NEW b \in 1..Len(brokers'), b # broker', brokers'[b].kind = "live"
          PROVE  brokers'[b].link # "up"
      BY <1>7, <1>12, <2>1, <2>3, BrokerReplaced, RetiredByClosing
    <2>4. ASSUME NEW i \in 1..Len(stacks'), i # Top', brokers'[stacks'[i].broker].kind = "live"
          PROVE  brokers'[stacks'[i].broker].link = "closed"
      BY <1>1, <1>6, <2>1, <2>4, BrokerReplaced, RetiredByClosing
    <2> QED
      BY <2>2, <2>3, <2>4
  <1>15. Rewiring(r)'
    BY <1>4, <1>5 DEF Rewiring
  <1>16. Fallback'
    <2> SUFFICES ASSUME ~overlapped'
                 PROVE  alone' /\ \A q \in Requests : Return(q)'
      BY <1>15 DEF Fallback
    <2>1. ~overlapped /\ alone /\ alone' /\ SafeAfterFailure /\ sw[r].old = broker
      BY <1>1, RetiredByClosing
    <2>2. x.oldMode = stacks'[Top'].mode
      BY <1>1, <1>4, <2>1 DEF IInv, Fallback, Return, SafeAfterFailure, Top
    <2>3. /\ stacks[Top].broker \in 1..Len(brokers)
          /\ Closed(stacks[Top].broker) \/ stacks[Top].broker = broker
      BY <1>6, <2>1, TopStack DEF SafeAfterFailure, Closed
    <2>4. brokers[stacks[Top].broker].kind \in {"paper", "live"}
      <3>1. brokers \in Seq(BrokerType)
        BY <1>2 DEF TypeOK
      <3>2. brokers[stacks[Top].broker] \in BrokerType
        BY <2>3, <3>1, ElementOfSeq
      <3> QED
        BY <3>2 DEF BrokerType
    <2>5. \/ brokers'[stacks[Top].broker].link = "closed"
          \/ stacks[Top].broker = x.old /\ brokers'[x.old].kind = "paper"
      BY <1>4, <2>1, <2>3, <2>4, BrokerReplaced DEF Closed
    <2>6. Return(r)'
      BY <1>1, <1>4, <1>5, <2>2, <2>5 DEF Return, Closed, Top
    <2> QED
      BY <1>11, <2>1, <2>6 DEF Return, Rewiring
  <1>17. Wired'
    BY <1>4, <1>5 DEF Wired, Quiet, Busy
  <1> QED
    BY <1>8, <1>9, <1>10, <1>13, <1>14, <1>16, <1>17 DEF IInv

LEMMA ConnectFailedKeeps ==
    ASSUME IInv, NEW r \in Requests, ConnectFailed(r)
    PROVE  IInv'
  <1>1. /\ sw[r].pc = "connecting" /\ mode' = sw[r].oldMode /\ failed' = TRUE
        /\ broker' = IF brokers[sw[r].old].kind = "paper" THEN sw[r].old ELSE broker
        /\ sw' = [sw EXCEPT ![r] = NoSwitch]
        /\ UNCHANGED <<brokers, stacks, stream, flights, orders, killed, alone,
                        overlapped, crashes>>
    BY DEF ConnectFailed
  <1>2. TypeOK /\ sw[r].old \in 1..Len(brokers) /\ sw[r].oldMode \in Modes
    BY <1>1 DEF IInv, TypeOK, SwitchType, Ranges
  <1>3. NoSwitch \in SwitchType /\ NoSwitch.pc = "idle"
    BY DEF NoSwitch, SwitchType
  <1>4. /\ sw' \in [Requests -> SwitchType] /\ sw'[r].pc = "idle"
        /\ \A q \in Requests \ {r} : sw'[q] = sw[q]
    BY <1>1, <1>2, <1>3 DEF TypeOK
  <1>5. TypeOK'
    BY <1>1, <1>2, <1>4 DEF TypeOK, stream
  <1>6. stacks' # <<>> /\ Ranges' /\ Callers'
    BY <1>1, <1>4 DEF IInv, Ranges, Rewiring, Callers, stream
  <1>7. alone => /\ \A q \in Requests : sw'[q].pc = "idle"
                 /\ brokers[broker].link = "new"
    <2> SUFFICES ASSUME alone
                 PROVE  /\ \A q \in Requests : sw'[q].pc = "idle"
                        /\ brokers[broker].link = "new"
      OBVIOUS
    <2>1. Course(r) /\ \A q \in Requests \ {r} : sw[q].pc = "idle"
      BY <1>1 DEF IInv, Undisturbed, Busy
    <2>2. brokers[broker] = [kind |-> "live", link |-> "new"]
      BY <1>1, <2>1 DEF Course, Rewiring
    <2> QED
      BY <1>4, <2>1, <2>2
  <1>8. Undisturbed'
    BY <1>1, <1>7 DEF Undisturbed, Course, Busy, Rewiring
  <1>9. Retired'
    <2>1. ~overlapped => alone
      BY DEF IInv, Fallback
    <2> QED
      BY <1>1, <1>7, <2>1 DEF IInv, Retired, Closed, Top, stream
  <1>10. Fallback'
    <2> SUFFICES ASSUME ~overlapped'
                 PROVE  alone' /\ SafeAfterFailure' /\ \A q \in Requests : Return(q)'
      BY DEF Fallback
    <2>1. ~overlapped /\ alone /\ alone' /\ Return(r)
      BY <1>1 DEF IInv, Fallback
    <2>2. SafeAfterFailure'
      BY <1>1, <2>1 DEF Return, Rewiring, SafeAfterFailure, Closed, Top
    <2> QED
      BY <1>7, <2>1, <2>2 DEF Return, Rewiring
  <1>11. Wired'
    BY <1>1 DEF Wired
  <1> QED
    BY <1>5, <1>6, <1>8, <1>9, <1>10, <1>11 DEF IInv

LEMMA BalanceReadKeeps ==
    ASSUME IInv, NEW r \in Requests, BalanceRead(r)
    PROVE  IInv'
  <1>1. /\ sw[r].pc = "balance" /\ Rebuild(r, broker, brokers[broker].kind)
        /\ UNCHANGED <<mode, brokers, broker, flights, taken, held, used, killed, alone,
                        overlapped, crashes>>
        /\ lost' = used
    BY DEF BalanceRead, Rebuild
  <1>2. TypeOK /\ broker \in Nat /\ broker \in 1..Len(brokers) /\ Len(stacks) \in Nat
    BY DEF IInv, TypeOK
  <1>3. /\ stacks' \in Seq(StackType) /\ stacks' # <<>>
        /\ Len(stacks') = Len(stacks) + 1
        /\ \A i \in 1..Len(stacks) : stacks'[i] = stacks[i]
        /\ stacks'[Len(stacks) + 1].broker = broker
        /\ stacks'[Len(stacks) + 1].mode = sw[r].target
    BY <1>1, <1>2, RebuiltStacks
  <1>4. /\ sw' \in [Requests -> SwitchType] /\ sw'[r].pc = "idle"
        /\ \A q \in Requests \ {r} : sw'[q] = sw[q]
    BY <1>1, <1>2, RebuiltSwitch
  <1>5. /\ running \subseteq running'
        /\ clients' \in Nat /\ running' \subseteq 1..clients' /\ ws' \in 0..clients'
        /\ failed' = FALSE
    <2>1. clients \in Nat /\ running \subseteq 1..clients /\ ws \in 0..clients
      BY <1>2 DEF TypeOK
    <2>2. CASE UNCHANGED stream
      BY <1>1, <2>1, <2>2 DEF Rebuild, stream
    <2>3. CASE /\ clients' = clients + 1 /\ running' = running \cup {clients + 1}
               /\ ws' = clients + 1
      BY <1>1, <2>1, <2>3 DEF Rebuild
    <2> QED
      BY <1>1, <2>2, <2>3 DEF Rebuild
  <1>6. \A i \in 1..Len(stacks) : stacks[i].broker \in 1..Len(brokers)
    BY <1>2 DEF TypeOK
  <1>7. TypeOK'
    <2>1. \A i \in 1..Len(stacks') : stacks'[i].broker \in 1..Len(brokers')
      BY <1>1, <1>2, <1>3, <1>6
    <2>2. placing' \in [Feeds -> 0..Len(stacks')]
      BY <1>1, <1>2, <1>3 DEF TypeOK
    <2> QED
      BY <1>1, <1>2, <1>3, <1>4, <1>5, <2>1, <2>2 DEF TypeOK
  <1>8. Ranges'
    BY <1>1, <1>4 DEF IInv, Ranges, Rewiring
  <1>9. Callers'
    <2>1. ASSUME NEW f \in Feeds, placing'[f] # 0
          PROVE  brokers'[stacks'[placing'[f]].broker].kind = "live"
      <3>1. placing'[f] = placing[f] /\ placing[f] \in 1..Len(stacks)
        BY <1>1, <1>2, <2>1 DEF TypeOK
      <3> QED
        BY <1>1, <1>3, <2>1, <3>1 DEF IInv, Callers
    <2> QED
      BY <1>1, <1>5, <2>1 DEF IInv, Callers
  <1>10. alone => /\ \A q \in Requests : sw'[q].pc = "idle"
                  /\ ws = 0 /\ mode = sw[r].target /\ mode # "paper"
                  /\ brokers[broker] = [kind |-> "live", link |-> "up"]
    BY <1>1, <1>4 DEF IInv, Undisturbed, Course, Busy, Rewiring
  <1>11. alone => running' = running \cup {clients + 1} /\ ws' = clients + 1
    BY <1>1, <1>10 DEF Rebuild
  <1>12. Undisturbed'
    BY <1>1, <1>10 DEF Undisturbed, Course, Busy, Rewiring
  <1>13. Top' = Len(stacks) + 1
    BY <1>3 DEF Top
  <1>14. Retired'
    <2> SUFFICES ASSUME ~overlapped'
                 PROVE  /\ running' \subseteq {ws'}
                        /\ \A b \in 1..Len(brokers') :
                             (b # broker' /\ brokers'[b].kind = "live") => brokers'[b].link # "up"
                        /\ \A i \in 1..Len(stacks') :
                             (i # Top' /\ brokers'[stacks'[i].broker].kind = "live")
                               => brokers'[stacks'[i].broker].link = "closed"
      BY DEF Retired, Closed
    <2>1. ~overlapped /\ alone /\ Return(r)
      BY <1>1 DEF IInv, Fallback
    <2>2. running' \subseteq {ws'}
      <3>1. running = {}
        BY <1>2, <1>10, <2>1 DEF IInv, Retired, TypeOK
      <3> QED
        BY <1>11, <2>1, <3>1
    <2>3. \A b \in 1..Len(brokers') :
            (b # broker' /\ brokers'[b].kind = "live") => brokers'[b].link # "up"
      BY <1>1, <2>1 DEF IInv, Retired
    <2>4. ASSUME NEW i \in 1..Len(stacks'), i # Top', brokers'[stacks'[i].broker].kind = "live"
          PROVE  brokers'[stacks'[i].broker].link = "closed"
      <3>1. i \in 1..Len(stacks) /\ stacks'[i] = stacks[i]
        BY <1>2, <1>3, <1>13, <2>4
      <3>2. CASE i = Top
        BY <1>1, <2>1, <2>4, <3>1, <3>2 DEF Return, Rewiring, Closed
      <3>3. CASE i # Top
        BY <1>1, <2>1, <2>4, <3>1, <3>3 DEF IInv, Retired, Closed
      <3> QED
        BY <3>2, <3>3
    <2> QED
      BY <2>2, <2>3, <2>4
  <1>15. Fallback'
    <2>1. ~overlapped' => alone
      BY <1>1 DEF IInv, Fallback
    <2> QED
      BY <1>1, <1>3, <1>10, <1>13, <2>1 DEF Fallback, Return, SafeAfterFailure, Rewiring
  <1>16. Wired'
    BY <1>1, <1>3, <1>10, <1>11, <1>13 DEF Wired, WiredOfAPiece, Kind
  <1> QED
    BY <1>3, <1>7, <1>8, <1>9, <1>12, <1>14, <1>15, <1>16 DEF IInv

-----------------------------------------------------------------------------
(* A process that has just started.                                         *)

JustStarted ==
    /\ Started(mode, brokers, broker, stacks, clients, running, ws, placing, order, sw)
    /\ killed = FALSE /\ failed = FALSE /\ alone = TRUE /\ overlapped = FALSE
    /\ used \subseteq TradeIds
    /\ taken \subseteq used /\ held \subseteq used /\ lost \subseteq used
    /\ crashes \in 0..MaxCrashes

LEMMA StartInv == JustStarted => IInv
  <1> SUFFICES ASSUME JustStarted PROVE IInv
    OBVIOUS
  <1> DEFINE b == [kind |-> Kind(StartMode), link |-> "up"]
             st == NewStack(1, StartMode)
             n == IF StartMode = "paper" THEN 0 ELSE 1
  <1>1. /\ mode = StartMode /\ brokers = <<b>> /\ broker = 1 /\ stacks = <<st>>
        /\ clients = n /\ running = 1..n /\ ws = n
        /\ placing = [f \in Feeds |-> 0] /\ order = [f \in Feeds |-> NoTrade]
        /\ sw = [r \in Requests |-> NoSwitch]
    BY DEF JustStarted, Started
  <1>2. b \in BrokerType /\ b.link = "up"
    BY DEF BrokerType, Kind
  <1>3. st \in StackType /\ st.broker = 1 /\ st.mode = StartMode
    BY NewStackType
  <1>4. NoSwitch \in SwitchType /\ NoSwitch.pc = "idle"
    BY DEF NoSwitch, SwitchType
  <1>5. n \in {0, 1}
    OBVIOUS
  <1> HIDE DEF b, st
  <1>6. brokers \in Seq(BrokerType) /\ Len(brokers) = 1 /\ brokers[1] = b
    BY <1>1, <1>2
  <1>7. stacks \in Seq(StackType) /\ Len(stacks) = 1 /\ stacks[1] = st /\ stacks # <<>>
    BY <1>1, <1>3
  <1>8. \A r \in Requests : sw[r].pc = "idle"
    BY <1>1, <1>4
  <1>9. TypeOK
    <2>1. mode \in Modes /\ broker \in 1..Len(brokers)
      BY <1>1, <1>6
    <2>2. clients \in Nat /\ running \subseteq 1..clients /\ ws \in 0..clients
      BY <1>1, <1>5
    <2>3. /\ placing \in [Feeds -> 0..Len(stacks)]
          /\ order \in [Feeds -> TradeIds \cup {NoTrade}] /\ sw \in [Requests -> SwitchType]
      BY <1>1, <1>4, <1>7
    <2>4. \A i \in 1..Len(stacks) : stacks[i].broker \in 1..Len(brokers)
      BY <1>3, <1>6, <1>7
    <2> QED
      BY <1>6, <1>7, <2>1, <2>2, <2>3, <2>4 DEF TypeOK, JustStarted
  <1>10. Ranges /\ Callers /\ Undisturbed
    BY <1>1, <1>8 DEF Ranges, Callers, Undisturbed, Course, Rewiring, Busy
  <1>11. Retired
    BY <1>1, <1>5, <1>6, <1>7 DEF Retired, Top
  <1>12. Fallback
    BY <1>1, <1>3, <1>7, <1>8 DEF Fallback, Return, Rewiring, SafeAfterFailure, Top, JustStarted
  <1>13. Wired
    BY <1>1, <1>3, <1>6, <1>7 DEF Wired, WiredOfAPiece, Top, b
  <1> QED
    BY <1>7, <1>9, <1>10, <1>11, <1>12, <1>13 DEF IInv

LEMMA CrashRestartKeeps ==
    ASSUME IInv, CrashRestart
    PROVE  IInv'
  <1>1. JustStarted'
    BY DEF IInv, TypeOK, CrashRestart, JustStarted, Started
  <1> QED
    BY <1>1, StartInv, PTL

LEMMA InitInv == Init => IInv
  <1>1. Init => JustStarted
    BY DEF Init, JustStarted
  <1> QED
    BY <1>1, StartInv

-----------------------------------------------------------------------------
LEMMA InvStep == IInv /\ [Next]_vars => IInv'
  <1> SUFFICES ASSUME IInv, [Next]_vars PROVE IInv'
    OBVIOUS
  <1>1. ASSUME NEW f \in Feeds, NEW id \in TradeIds, PaperTrade(f, id) \/ SendOrder(f, id)
        PROVE  IInv'
    BY <1>1, PaperTradeKeeps, SendOrderKeeps
  <1>2. ASSUME NEW f \in Feeds, BrokerTakes(f) \/ OrderFilled(f) \/ OrderFailed(f)
        PROVE  IInv'
    BY <1>2, BrokerTakesKeeps, OrderFilledKeeps, OrderFailedKeeps
  <1>3. ASSUME NEW id \in TradeIds, PositionCloses(id) \/ FillTakenForClose(id)
        PROVE  IInv'
    BY <1>3, PositionClosesKeeps
  <1>4. CASE DisableTrading
    BY <1>4, DisableTradingKeeps
  <1>5. ASSUME NEW r \in Requests, NEW m \in Modes, SwitchBegin(r, m)
        PROVE  IInv'
    BY <1>5, SwitchBeginKeeps
  <1>6. ASSUME NEW c \in 1..clients, WsStopped(c)
        PROVE  IInv'
    BY <1>6, WsStoppedKeeps
  <1>7. ASSUME NEW r \in Requests, SwitchStep(r)
        PROVE  IInv'
    <2>1. CASE BrokerClosed(r)
      BY <2>1, BrokerClosedPaper, BrokerClosedLive
    <2>2. CASE Connected(r)
      BY <2>2, ConnectedKeeps
    <2>3. CASE ConnectFailed(r)
      BY <2>3, ConnectFailedKeeps
    <2>4. CASE BalanceRead(r)
      BY <2>4, BalanceReadKeeps
    <2> QED
      BY <1>7, <2>1, <2>2, <2>3, <2>4 DEF SwitchStep
  <1>8. CASE CrashRestart
    BY <1>8, CrashRestartKeeps
  <1>9. CASE UNCHANGED vars
    <2>1. UNCHANGED <<mode, brokers, broker, stacks, stream, flights, sw, orders, history>>
      BY <1>9 DEF vars
    <2>2. SameStacks
      BY <2>1 DEF SameStacks, IInv, TypeOK
    <2>3. TypeOK' /\ Callers'
      BY <2>1 DEF IInv, TypeOK, Callers, stream, history
    <2> QED
      BY <2>1, <2>2, <2>3, Frame DEF history
  <1> QED
    BY <1>1, <1>2, <1>3, <1>4, <1>5, <1>6, <1>7, <1>8, <1>9 DEF Next

(* The inductive invariant holds in every reachable state.                  *)
THEOREM Invariance == Spec => []IInv
  BY InitInv, InvStep, PTL DEF Spec

(* Every reachable state of the engine is well typed: the references and    *)
(* indices the handlers and switches use name things that exist.            *)
THEOREM TypeCorrect == Spec => []TypeOK
  <1>1. IInv => TypeOK
    BY DEF IInv
  <1> QED
    BY Invariance, <1>1, PTL

(* A switch nobody disturbed leaves an engine wired of a piece, whatever    *)
(* earlier ones left; one that failed leaves a safe one.                    *)
THEOREM SwitchSettles == Spec => []SettledWiring
  <1>1. IInv => SettledWiring
    <2> SUFFICES ASSUME IInv PROVE SettledWiring
      OBVIOUS
    <2>1. Quiet => \A r \in Requests : ~Rewiring(r)
      BY DEF Quiet, Busy, Rewiring
    <2> QED
      BY <2>1 DEF IInv, Wired, Fallback, SettledWiring
  <1> QED
    BY Invariance, <1>1, PTL

(* No stopped client is inside a handler, and without overlapping switches  *)
(* no second client and no second connected live broker exists.             *)
THEOREM NothingStays == Spec => []NothingLeftBehind
  <1>1. IInv => NothingLeftBehind
    BY DEF IInv, Callers, Retired, NothingLeftBehind
  <1> QED
    BY Invariance, <1>1, PTL

-----------------------------------------------------------------------------
(* Without overlapping switches an order is filled for the newest executor: *)
(* the brokers of all the others are closed.                                *)
LEMMA FilledAtTop ==
    ASSUME IInv, ~overlapped, NEW f \in Feeds, OrderFilled(f)
    PROVE  placing[f] = Top /\ order[f] \in TradeIds
  <1>1. placing[f] \in 1..Len(stacks) /\ brokers[stacks[placing[f]].broker].link = "up"
    BY DEF IInv, TypeOK, OrderFilled
  <1>2. brokers[stacks[placing[f]].broker].kind = "live" /\ order[f] \in TradeIds
    BY DEF IInv, Callers, OrderFilled, TypeOK
  <1> QED
    BY <1>1, <1>2 DEF IInv, Retired, Closed

\* Which steps change the executors there are.
LEMMA StackChanges ==
    ASSUME IInv, [Next]_vars, stacks' # stacks
    PROVE  \/ \E f \in Feeds, id \in TradeIds : PaperTrade(f, id)
           \/ \E f \in Feeds : OrderFilled(f)
           \/ \E id \in TradeIds : Forgotten(Top, id)
           \/ DisableTrading
           \/ /\ \A i \in 1..Len(stacks) : stacks'[i] = stacks[i]
              /\ Len(stacks') = Len(stacks) + 1
           \/ CrashRestart
  <1>1. ASSUME NEW f \in Feeds,
               \/ \E id \in TradeIds : SendOrder(f, id)
               \/ BrokerTakes(f) \/ OrderFailed(f)
        PROVE  FALSE
    BY <1>1 DEF SendOrder, BrokerTakes, OrderFailed
  <1>2. ASSUME NEW id \in TradeIds, PositionCloses(id) \/ FillTakenForClose(id)
        PROVE  Forgotten(Top, id)
    BY <1>2 DEF PositionCloses, FillTakenForClose
  <1>3. ASSUME NEW r \in Requests, NEW m \in Modes, SwitchBegin(r, m)
        PROVE  FALSE
    BY <1>3 DEF SwitchBegin
  <1>4. ASSUME NEW c \in 1..clients, WsStopped(c)
        PROVE  FALSE
    BY <1>4 DEF WsStopped
  <1>5. ASSUME NEW r \in Requests, SwitchStep(r)
        PROVE  /\ \A i \in 1..Len(stacks) : stacks'[i] = stacks[i]
               /\ Len(stacks') = Len(stacks) + 1
    <2>1. TypeOK /\ broker \in Nat
      BY DEF IInv, TypeOK
    <2>2. CASE BrokerClosed(r)
      <3>1. Rebuild(r, broker', "paper") /\ broker' \in Nat
        BY <2>1, <2>2 DEF BrokerClosed, TypeOK
      <3> QED
        BY <2>1, <3>1, RebuiltStacks
    <2>3. CASE BalanceRead(r)
      <3>1. Rebuild(r, broker, brokers[broker].kind)
        BY <2>3 DEF BalanceRead
      <3> QED
        BY <2>1, <3>1, RebuiltStacks
    <2>4. ~Connected(r) /\ ~ConnectFailed(r)
      BY DEF Connected, ConnectFailed
    <2> QED
      BY <1>5, <2>2, <2>3, <2>4 DEF SwitchStep
  <1>6. ~UNCHANGED vars
    BY DEF vars
  <1> QED
    BY <1>1, <1>2, <1>3, <1>4, <1>5, <1>6 DEF Next

(* An order in flight during a switch is never filled through the retired   *)
(* broker.                                                                  *)
THEOREM RetiredFillsNothing == Spec => NoFillAfterSwitch
  <1> DEFINE A == \A i \in 1..Len(stacks) :
                    (i # Top /\ ~overlapped /\ i \in DOMAIN stacks')
                      => stacks'[i].opened <= stacks[i].opened
  <1>1. IInv /\ [Next]_vars => [A]_stacks
    <2> SUFFICES ASSUME IInv, [Next]_vars, stacks' # stacks,
                        NEW i \in 1..Len(stacks), i # Top, ~overlapped, i \in DOMAIN stacks'
                 PROVE  stacks'[i].opened <= stacks[i].opened
      OBVIOUS
    <2>1. TypeOK /\ stacks[i].opened \in Nat
      <3>1. TypeOK
        BY DEF IInv
      <3>2. stacks[i] \in StackType
        BY <3>1 DEF TypeOK
      <3> QED
        BY <3>1, <3>2 DEF StackType
    <2>2. ASSUME NEW id \in TradeIds, Registered(Top, id)
          PROVE  stacks'[i] = stacks[i]
      BY <2>1, <2>2, TopStack, RegisteredStack
    <2>3. ASSUME NEW id \in TradeIds, Forgotten(Top, id)
          PROVE  stacks'[i].opened = stacks[i].opened
      BY <2>1, <2>3, TopStack, ForgottenTrade
    <2>4. ASSUME DisableTrading
          PROVE  stacks'[i].opened = stacks[i].opened
      <3>1. Disabled(1) /\ 1 \in 1..Len(stacks)
        BY <2>1, <2>4 DEF DisableTrading, Disabled, TypeOK
      <3> QED
        BY <2>1, <3>1, DisabledStack
    <2>5. ASSUME CrashRestart
          PROVE  stacks'[i].opened = 0
      <3>1. stacks' = <<NewStack(1, StartMode)>>
        BY <2>5 DEF CrashRestart, Started
      <3>2. i = 1
        BY <3>1
      <3> QED
        BY <3>1, <3>2 DEF NewStack
    <2>6. ASSUME NEW f \in Feeds, OrderFilled(f) \/ \E id \in TradeIds : PaperTrade(f, id)
          PROVE  \E id \in TradeIds : Registered(Top, id)
      BY <2>6, FilledAtTop DEF PaperTrade, OrderFilled
    <2> QED
      BY <2>1, <2>2, <2>3, <2>4, <2>5, <2>6, StackChanges
  <1> QED
    BY Invariance, <1>1, PTL DEF Spec, NoFillAfterSwitch

-----------------------------------------------------------------------------
(***************************************************************************)
(* Why a position may be unknown to the bot.  A step that creates an        *)
(* executor counts all earlier orders as lost; the others leave a position  *)
(* the newest executor knows known to it, or name its cause.                *)
(***************************************************************************)
LEMMA CauseKept ==
    ASSUME OrphansHaveCause, ~overlapped,
           Orphans' \subseteq Orphans \cup lost' \cup InFlight',
           lost \subseteq lost',
           InFlight \cap Orphans' \subseteq InFlight' \cup lost'
    PROVE  OrphansHaveCause'
  BY DEF OrphansHaveCause

LEMMA SameCause ==
    ASSUME OrphansHaveCause, ~overlapped, UNCHANGED <<stacks, held, lost, flights>>
    PROVE  OrphansHaveCause'
  <1>1. Orphans' = Orphans /\ InFlight' = InFlight
    BY DEF Orphans, InFlight, Top
  <1> QED
    BY <1>1, CauseKept

\* A task that stops waiting leaves the flights of the others.
LEMMA FlightsLeft ==
    ASSUME IInv, NEW f \in Feeds, FlightOver(f)
    PROVE  InFlight \subseteq InFlight' \cup {order[f]}
  <1> SUFFICES ASSUME NEW g \in Feeds, placing[g] # 0, g # f
               PROVE  order[g] \in InFlight'
    BY DEF InFlight
  <1>1. placing'[g] = placing[g] /\ order'[g] = order[g]
    BY DEF FlightOver, IInv, TypeOK
  <1> QED
    BY <1>1 DEF InFlight

\* An executor that has just been created knows no trade, and every order
\* given out so far is an earlier one's.
LEMMA CreatedCause ==
    ASSUME IInv, lost' = used, UNCHANGED <<held, used>>
    PROVE  OrphansHaveCause'
  <1>1. held' \subseteq lost'
    BY DEF IInv, TypeOK
  <1> QED
    BY <1>1 DEF OrphansHaveCause, Orphans

LEMMA TradeCause ==
    ASSUME IInv, OrphansHaveCause, ~overlapped, NEW f \in Feeds,
           \/ \E id \in TradeIds : PaperTrade(f, id) \/ SendOrder(f, id)
           \/ BrokerTakes(f) \/ OrderFilled(f) \/ OrderFailed(f)
    PROVE  OrphansHaveCause'
  <1>0. TypeOK /\ Top \in 1..Len(stacks)
    BY TopStack DEF IInv
  <1>1. ASSUME NEW id \in TradeIds, PaperTrade(f, id) PROVE OrphansHaveCause'
    <2>1. Registered(Top, id)
      BY <1>1 DEF PaperTrade
    <2>2. Top' = Top /\ stacks'[Top].trades = stacks[Top].trades \cup {id}
      BY <1>0, <2>1, RegisteredStack DEF SameStacks, Top
    <2>3. Orphans' \subseteq Orphans /\ InFlight' = InFlight /\ lost' = lost
      BY <1>1, <2>2 DEF PaperTrade, Orphans, InFlight
    <2> QED
      BY <2>3, CauseKept
  <1>2. ASSUME NEW id \in TradeIds, SendOrder(f, id) PROVE OrphansHaveCause'
    <2>1. Orphans' = Orphans /\ lost' = lost
      BY <1>2 DEF SendOrder, Orphans, Top
    <2>2. InFlight \subseteq InFlight'
      <3> SUFFICES ASSUME NEW g \in Feeds, placing[g] # 0 PROVE order[g] \in InFlight'
        BY DEF InFlight
      <3>1. g # f
        BY <1>2 DEF SendOrder, Feeding
      <3>2. placing'[g] = placing[g] /\ order'[g] = order[g]
        BY <1>0, <1>2, <3>1 DEF SendOrder, TypeOK
      <3> QED
        BY <3>2 DEF InFlight
    <2> QED
      BY <2>1, <2>2, CauseKept
  <1>3. CASE BrokerTakes(f)
    <2>1. order[f] \in InFlight /\ InFlight' = InFlight /\ lost' = lost
      BY <1>3 DEF BrokerTakes, InFlight
    <2>2. Orphans' \subseteq Orphans \cup {order[f]}
      BY <1>3 DEF BrokerTakes, Orphans, Top
    <2> QED
      BY <2>1, <2>2, CauseKept
  <1>4. CASE OrderFilled(f)
    <2>1. Registered(Top, order[f]) /\ order[f] \in TradeIds /\ FlightOver(f)
      BY <1>4, FilledAtTop DEF OrderFilled
    <2>2. Top' = Top /\ stacks'[Top].trades = stacks[Top].trades \cup {order[f]}
      BY <1>0, <2>1, RegisteredStack DEF SameStacks, Top
    <2>3. Orphans' \subseteq Orphans \ {order[f]} /\ lost' = lost
      BY <1>4, <2>2 DEF OrderFilled, orders, Orphans
    <2> QED
      BY <2>1, <2>3, FlightsLeft, CauseKept
  <1>5. CASE OrderFailed(f)
    <2>1. Orphans' = Orphans /\ lost' = lost \cup {order[f]} /\ FlightOver(f)
      BY <1>5 DEF OrderFailed, Orphans, Top
    <2> QED
      BY <2>1, FlightsLeft, CauseKept
  <1> QED
    BY <1>1, <1>2, <1>3, <1>4, <1>5

LEMMA PositionCause ==
    ASSUME IInv, OrphansHaveCause, ~overlapped, NEW id \in TradeIds,
           PositionCloses(id) \/ FillTakenForClose(id)
    PROVE  OrphansHaveCause'
  <1>1. TypeOK /\ Top \in 1..Len(stacks)
    BY TopStack DEF IInv
  <1>2. UNCHANGED stacks \/ Forgotten(Top, id)
    BY DEF PositionCloses, FillTakenForClose
  <1>3. Top' = Top /\ stacks[Top].trades \ {id} \subseteq stacks'[Top].trades
    <2>1. CASE UNCHANGED stacks
      BY <2>1 DEF Top
    <2>2. CASE Forgotten(Top, id)
      BY <1>1, <2>2, ForgottenTrade DEF SameStacks, Top
    <2> QED
      BY <1>2, <2>1, <2>2
  <1>4. InFlight' = InFlight /\ lost \subseteq lost'
    BY DEF PositionCloses, FillTakenForClose, InFlight
  <1>5. Orphans' \subseteq Orphans \cup lost'
    <2>1. CASE PositionCloses(id)
      BY <1>3, <2>1 DEF PositionCloses, Orphans
    <2>2. CASE FillTakenForClose(id)
      BY <1>3, <2>2 DEF FillTakenForClose, Orphans
    <2> QED
      BY <2>1, <2>2
  <1> QED
    BY <1>4, <1>5, CauseKept

LEMMA CauseStep ==
    ASSUME IInv, [Next]_vars, OrphansHaveCause, ~overlapped'
    PROVE  OrphansHaveCause'
  <1>0. TypeOK /\ Top \in 1..Len(stacks)
    BY TopStack DEF IInv
  <1>1. ASSUME NEW f \in Feeds,
               \/ \E id \in TradeIds : PaperTrade(f, id) \/ SendOrder(f, id)
               \/ BrokerTakes(f) \/ OrderFilled(f) \/ OrderFailed(f)
        PROVE  OrphansHaveCause'
    <2>1. ~overlapped
      BY <1>1 DEF PaperTrade, SendOrder, BrokerTakes, OrderFilled, OrderFailed, history
    <2> QED
      BY <1>1, <2>1, TradeCause
  <1>2. ASSUME NEW id \in TradeIds, PositionCloses(id) \/ FillTakenForClose(id)
        PROVE  OrphansHaveCause'
    <2>1. ~overlapped
      BY <1>2 DEF PositionCloses, FillTakenForClose, history
    <2> QED
      BY <1>2, <2>1, PositionCause
  <1>3. CASE DisableTrading
    <2>1. Disabled(1) /\ 1 \in 1..Len(stacks) /\ ~overlapped
      BY <1>0, <1>3 DEF DisableTrading, Disabled, TypeOK
    <2>2. Top' = Top /\ stacks'[Top].trades = stacks[Top].trades
      BY <1>0, <2>1, DisabledStack DEF SameStacks, Top
    <2>3. Orphans' = Orphans /\ InFlight' = InFlight /\ lost' = lost
      BY <1>3, <2>2 DEF DisableTrading, orders, Orphans, InFlight
    <2> QED
      BY <2>1, <2>3, CauseKept
  <1>4. ASSUME NEW r \in Requests, NEW m \in Modes, SwitchBegin(r, m)
        PROVE  OrphansHaveCause'
    BY <1>4, SameCause DEF SwitchBegin, orders
  <1>5. ASSUME NEW c \in 1..clients, WsStopped(c)
        PROVE  OrphansHaveCause'
    BY <1>5, SameCause DEF WsStopped, orders, history
  <1>6. ASSUME NEW r \in Requests, SwitchStep(r)
        PROVE  OrphansHaveCause'
    <2>1. CASE BrokerClosed(r)
      <3>1. CASE mode' = "paper"
        BY <2>1, <3>1, CreatedCause DEF BrokerClosed, Rebuild
      <3>2. CASE mode' # "paper"
        BY <2>1, <3>2, SameCause DEF BrokerClosed
      <3> QED
        BY <3>1, <3>2
    <2>2. CASE Connected(r) \/ ConnectFailed(r)
      BY <2>2, SameCause DEF Connected, ConnectFailed, orders, history
    <2>3. CASE BalanceRead(r)
      BY <2>3, CreatedCause DEF BalanceRead, Rebuild
    <2> QED
      BY <1>6, <2>1, <2>2, <2>3 DEF SwitchStep
  <1>7. CASE CrashRestart
    BY <1>7, CreatedCause DEF CrashRestart
  <1>8. CASE UNCHANGED vars
    BY <1>8, SameCause DEF vars, orders, history
  <1> QED
    BY <1>1, <1>2, <1>3, <1>4, <1>5, <1>6, <1>7, <1>8 DEF Next

(* A position the bot does not know is in flight, was sent before the last  *)
(* switch or restart, was given up after its last attempt, or had the       *)
(* notice of its fill taken for its close: nothing else the feeds, the      *)
(* broker, the API or an unfinished switch do loses sight of one.           *)
THEOREM OrphansHaveCauseHolds == Spec => []OrphansHaveCause
  <1>1. Init => OrphansHaveCause
    BY DEF Init, OrphansHaveCause, Orphans
  <1>2. IInv /\ [Next]_vars /\ OrphansHaveCause => OrphansHaveCause'
    <2> SUFFICES ASSUME IInv, [Next]_vars, OrphansHaveCause PROVE OrphansHaveCause'
      OBVIOUS
    <2>1. CASE overlapped'
      BY <2>1 DEF OrphansHaveCause
    <2> QED
      BY <2>1, CauseStep
  <1> QED
    BY Invariance, <1>1, <1>2, PTL DEF Spec
=============================================================================
