------------------------------ MODULE RestPoller ------------------------------
(***************************************************************************)
(* RestPricePoller (src/app/market/rest_poller.py): asks TradeLocker for    *)
(* the quote of each instrument every five seconds, builds candles from the *)
(* quotes and awaits the engine's handler with each finished one.           *)
(*                                                                         *)
(* A unit of time is the polling interval.  A candle's labels, its          *)
(* timestamp (the time of its hand-over) and the copy of the last quotes    *)
(* that the dashboard shows are left out.                                   *)
(***************************************************************************)
EXTENDS Integers, SequencesExt, FiniteSetsExt

CONSTANTS
    Listings,       \* the lists of instruments that start() may resolve
    Mids,           \* positive mid prices
    CandleTicks     \* candle_seconds, in units

VARIABLES
    life,        \* as in CandleFeed
    pc,          \* where the task is: "quotes", "candles", "handler", "sleep"
    token,       \* what the server thinks of self._token
    instruments, \* self._instruments, in order
    todo,        \* the instruments this _poll has left to ask
    prices,      \* its answers; then those left to use
    buffers,     \* self._buffers: symbol -> {} or {buffer}
    candle,      \* {} or the candle the handler has
    \* History, read by no action but for its own update:
    unspent      \* symbol -> the close of its last candle and the prices answered
                 \* since, without those a tick has thrown away unused

vars == <<life, pc, token, instruments, todo, prices, buffers, candle, unspent>>

Symbols == UNION {Range(list) : list \in Listings}

InHandler == pc = "handler"

Init ==
    /\ life = "new"
    /\ pc = "off"
    /\ token = "none"
    /\ instruments = <<>>
    /\ todo = <<>>
    /\ prices = <<>>
    /\ buffers = [s \in Symbols |-> {}]
    /\ candle = {}
    /\ unspent = [s \in Symbols |-> <<>>]

-----------------------------------------------------------------------------
(* start and stop.                                                           *)

\* A login and a request for the list of instruments, either of which may
\* raise: the engine then does without a poller.  What is resolved are the
\* configured symbols the server lists, in its order; with a status other than
\* "ok" none.
Start(resolved) ==
    /\ life = "new"
    /\ \/ /\ life' = "running"
          /\ token' = "valid"
          /\ instruments' = resolved
          /\ pc' = "quotes"
          /\ todo' = instruments'
       \/ life' = "failed" /\ UNCHANGED <<token, instruments, pc, todo>>
    /\ UNCHANGED <<prices, buffers, candle, unspent>>

RequestStop ==
    /\ life = "running"
    /\ life' = "stopping"
    /\ UNCHANGED <<pc, token, instruments, todo, prices, buffers, candle, unspent>>

\* stop() awaits the task, which ends when it finds the event set: this ends
\* its sleep, but not a tick.  Seeded fault: the task is not awaited.
TaskLeft == TRUE

TaskEnds == pc = "sleep"

StopReturns ==
    /\ life = "stopping"
    /\ TaskEnds
    /\ life' = "stopped"
    /\ pc' = "off"
    /\ UNCHANGED <<token, instruments, todo, prices, buffers, candle, unspent>>

-----------------------------------------------------------------------------
(* _poll: one instrument after the other, until todo is empty.               *)

Asking == pc = "quotes" /\ todo # <<>>

\* A quote with a missing side has mid price 0.
QuoteAnswered(mid) ==
    /\ Asking
    /\ token = "valid"
    /\ prices' = Append(prices, [sym |-> Head(todo), mid |-> mid])
    /\ todo' = Tail(todo)
    /\ unspent' = [s \in Symbols |-> IF s = Head(todo) /\ mid > 0
                                     THEN Append(unspent[s], mid) ELSE unspent[s]]
    /\ UNCHANGED <<life, pc, token, instruments, buffers, candle>>

\* The price of a symbol among those left to use.
Unused(s) == {p.mid : p \in {q \in Range(prices) : q.sym = s /\ q.mid > 0}}

\* The tick is over; no candle will contain the prices it has not used.
EndTick ==
    /\ pc' = "sleep"
    /\ todo' = <<>>
    /\ prices' = <<>>
    /\ unspent' = [s \in Symbols |->
                     IF Unused(s) = {} THEN unspent[s] ELSE Front(unspent[s])]

\* Seeded fault: any failing quote ends the tick, as a failing login does.
QuoteFailedEndsTick ==
    /\ Asking
    /\ EndTick
    /\ UNCHANGED <<life, token, instruments, buffers, candle>>

\* A status other than "ok", an HTTP error other than 401, no answer.
QuoteFailed ==
    /\ Asking
    /\ todo' = Tail(todo)
    /\ UNCHANGED <<life, pc, token, instruments, prices, buffers, candle, unspent>>

\* Seeded fault: a 401 is passed over like the other errors.
TokenKept == token

TokenAfter401 == "valid"

\* 401: a new login.  The quote is not asked for again in this poll.
TokenRenewed ==
    /\ Asking
    /\ token = "expired"
    /\ token' = TokenAfter401
    /\ todo' = Tail(todo)
    /\ UNCHANGED <<life, pc, instruments, prices, buffers, candle, unspent>>

\* That login raises, inside the handler of the 401 and out of the loop over
\* the instruments: the poll is given up with all the prices it has got.
RenewalFailed ==
    /\ Asking
    /\ token = "expired"
    /\ EndTick
    /\ UNCHANGED <<life, token, instruments, buffers, candle>>

\* The server's clock, not the poller's.
TokenExpires ==
    /\ token = "valid"
    /\ token' = "expired"
    /\ UNCHANGED <<life, pc, instruments, todo, prices, buffers, candle, unspent>>

\* All were asked.
Polled ==
    /\ pc = "quotes"
    /\ todo = <<>>
    /\ IF prices = <<>>
       THEN EndTick
       ELSE pc' = "candles" /\ UNCHANGED <<todo, prices, unspent>>
    /\ UNCHANGED <<life, token, instruments, buffers, candle>>

-----------------------------------------------------------------------------
(* _produce_candle, and the call of the handler.                             *)

NewBuffer(mid) ==
    [open |-> mid, high |-> mid, low |-> mid, close |-> mid, volume |-> 0, age |-> 0]

Include(buf, mid) ==
    [buf EXCEPT !.high = IF mid > @ THEN mid ELSE @,
                !.low = IF mid < @ THEN mid ELSE @,
                !.close = mid,
                !.volume = @ + 1]

Bar(buf) == [open |-> buf.open, high |-> buf.high, low |-> buf.low,
             close |-> buf.close, volume |-> buf.volume]

\* What follows a finished candle starts at the price that closed it.
\* Seeded fault: it starts at the next price.
ReopenedLater(mid) == {}

Reopened(mid) == {NewBuffer(mid)}

\* The next price of the tick; it does not suspend unless a candle is done.
TakePrice(sym, mid) ==
    /\ pc = "candles"
    /\ prices # <<>>
    /\ Head(prices) = [sym |-> sym, mid |-> mid]
    /\ prices' = Tail(prices)
    /\ UNCHANGED <<life, token, instruments, todo>>

UselessPrice(sym) ==
    /\ TakePrice(sym, 0)
    /\ UNCHANGED <<pc, buffers, candle, unspent>>

FirstPrice(sym, mid) ==
    /\ TakePrice(sym, mid)
    /\ buffers[sym] = {}
    /\ buffers' = [buffers EXCEPT ![sym] = {NewBuffer(mid)}]
    /\ UNCHANGED <<pc, candle, unspent>>

MorePrice(sym, mid) ==
    /\ TakePrice(sym, mid)
    /\ \E buf \in buffers[sym] :
          /\ buf.age < CandleTicks
          /\ buffers' = [buffers EXCEPT ![sym] = {Include(buf, mid)}]
    /\ UNCHANGED <<pc, candle, unspent>>

LastPrice(sym, mid) ==
    /\ TakePrice(sym, mid)
    /\ \E buf \in buffers[sym] :
          /\ buf.age = CandleTicks
          /\ candle' = {Bar(Include(buf, mid))}
    /\ buffers' = [buffers EXCEPT ![sym] = Reopened(mid)]
    /\ unspent' = [unspent EXCEPT ![sym] = <<mid>>]
    /\ pc' = "handler"

AllUsed ==
    /\ pc = "candles"
    /\ prices = <<>>
    /\ EndTick
    /\ UNCHANGED <<life, token, instruments, buffers, candle>>

HandlerReturns ==
    /\ InHandler
    /\ pc' = "candles"
    /\ candle' = {}
    /\ UNCHANGED <<life, token, instruments, todo, prices, buffers, unspent>>

\* The prices of the instruments still to come are given up.
HandlerRaises ==
    /\ InHandler
    /\ EndTick
    /\ candle' = {}
    /\ UNCHANGED <<life, token, instruments, buffers>>

-----------------------------------------------------------------------------
\* Time enters as the age of a buffer, which matters up to CandleTicks.
Aged ==
    [s \in Symbols |->
        {[b EXCEPT !.age = IF @ < CandleTicks THEN @ + 1 ELSE @] : b \in buffers[s]}]

Wake ==
    /\ life = "running"
    /\ pc = "sleep"
    /\ buffers' = Aged
    /\ pc' = "quotes"
    /\ todo' = instruments
    /\ UNCHANGED <<life, token, instruments, prices, candle, unspent>>

\* A request takes long, or the handler, as it does while an order is placed.
TimePasses ==
    /\ pc \in {"quotes", "handler"}
    /\ buffers' = Aged
    /\ UNCHANGED <<life, pc, token, instruments, todo, prices, candle, unspent>>

LoopStep ==
    \/ \E mid \in Mids \cup {0} : QuoteAnswered(mid)
    \/ QuoteFailed \/ TokenRenewed \/ RenewalFailed
    \/ Polled \/ AllUsed
    \/ \E sym \in Symbols : UselessPrice(sym)
    \/ \E sym \in Symbols, mid \in Mids :
          FirstPrice(sym, mid) \/ MorePrice(sym, mid) \/ LastPrice(sym, mid)
    \/ HandlerReturns \/ HandlerRaises
    \/ Wake \/ StopReturns

Next ==
    \/ \E resolved \in Listings : Start(resolved)
    \/ RequestStop
    \/ LoopStep
    \/ TokenExpires
    \/ TimePasses

\* The loop is never stuck: calls have timeouts, the handler ends.  Of the
\* login only this is asked: tried again and again with an expired token, it
\* works in the end.
Spec == Init /\ [][Next]_vars /\ WF_vars(LoopStep) /\ SF_vars(TokenRenewed)

=============================================================================
