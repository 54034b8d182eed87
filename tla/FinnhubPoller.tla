---------------------------- MODULE FinnhubPoller ----------------------------
(***************************************************************************)
(* FinnhubPoller (src/app/integrations/finnhub/poller.py) with the candle   *)
(* request of FinnhubClient: fetches the last bars of each symbol, awaits   *)
(* the engine's handler with those newer than the last one handed over.     *)
(*                                                                         *)
(* A bar is named by its opening time.  The provider has a bar for each     *)
(* interval; a bar fetched before its interval is over is unfinished.  The  *)
(* copy of the last closes that the dashboard shows is left out.            *)
(***************************************************************************)
EXTENDS Integers, SequencesExt, FiniteSetsExt

CONSTANTS
    Feeds,      \* the symbols, in the order of the settings
    BarLength,  \* symbol -> its candle_seconds, in units of time
    StartClock, \* time of start(): bars exist before it
    MaxClock    \* bound: time at which the world ends

VARIABLES
    life,       \* as in CandleFeed
    pc,         \* where the task is: "fetch", "batch", "handler", "sleep"
    clock,
    round,      \* the symbols this round has left to fetch, the current one first
    batch,      \* the bars of the current answer still to look at
    fetchedAt,  \* time of that answer
    lastTs,     \* self._last_ts; 0 before the first bar
    \* History:
    given,      \* symbol -> the bars handed over, in order
    answered    \* symbol -> times of the answers looked at to the end

vars == <<life, pc, clock, round, batch, fetchedAt, lastTs, given, answered>>

BarSymbols == Range(Feeds)

InHandler == pc = "handler"

Init ==
    /\ life = "new"
    /\ pc = "off"
    /\ clock = StartClock
    /\ round = <<>>
    /\ batch = {}
    /\ fetchedAt = 0
    /\ lastTs = [s \in BarSymbols |-> 0]
    /\ given = [s \in BarSymbols |-> <<>>]
    /\ answered = [s \in BarSymbols |-> {}]

-----------------------------------------------------------------------------
Start ==
    /\ life = "new"
    /\ life' = "running"
    /\ pc' = "fetch"
    /\ round' = Feeds
    /\ UNCHANGED <<clock, batch, fetchedAt, lastTs, given, answered>>

\* stop() sets the event and cancels the task, which does not go on from the
\* await it is in, the handler's included.
RequestStop ==
    /\ life = "running"
    /\ life' = "stopping"
    /\ UNCHANGED <<pc, clock, round, batch, fetchedAt, lastTs, given, answered>>

Cancelled ==
    /\ life = "stopping"
    /\ pc # "off"
    /\ pc' = "off"
    /\ UNCHANGED <<life, clock, round, batch, fetchedAt, lastTs, given, answered>>

StopReturns ==
    /\ life = "stopping"
    /\ pc = "off"
    /\ life' = "stopped"
    /\ UNCHANGED <<pc, clock, round, batch, fetchedAt, lastTs, given, answered>>

-----------------------------------------------------------------------------
(* _fetch_and_emit.                                                          *)

\* The bars that open within the last three intervals.
Window(s) == {t \in 1..clock : t % BarLength[s] = 0 /\ t >= clock - 3 * BarLength[s]}

NextSymbol ==
    /\ round' = Tail(round)
    /\ batch' = {}
    /\ pc' = "fetch"

FetchAnswered ==
    /\ life = "running"
    /\ pc = "fetch"
    /\ round # <<>>
    /\ batch' = Window(Head(round))
    /\ fetchedAt' = clock
    /\ pc' = "batch"
    /\ UNCHANGED <<life, clock, round, lastTs, given, answered>>

\* An HTTP error, "no_data", or an answer that cannot be read.
FetchFailed ==
    /\ life = "running"
    /\ pc = "fetch"
    /\ round # <<>>
    /\ NextSymbol
    /\ UNCHANGED <<life, clock, fetchedAt, lastTs, given, answered>>

\* The bar is marked as seen before the handler is awaited.  Seeded fault: it
\* is marked only if it is the last of the answer.
MarkedAtEnd(s, t) == IF batch = {t} THEN t ELSE lastTs[s]

Marked(s, t) == t

\* The answer is read from its oldest bar on.
HandOver ==
    /\ life = "running"
    /\ pc = "batch"
    /\ \E t \in batch :
         /\ \A u \in batch : t <= u
         /\ batch' = batch \ {t}
         /\ LET s == Head(round)
            IN  IF t <= lastTs[s]
                THEN UNCHANGED <<pc, lastTs, given>>
                ELSE /\ lastTs' = [lastTs EXCEPT ![s] = Marked(s, t)]
                     /\ given' = [given EXCEPT ![s] =
                            Append(@, [bar |-> t, final |-> t + BarLength[s] <= fetchedAt])]
                     /\ pc' = "handler"
    /\ UNCHANGED <<life, clock, round, fetchedAt, answered>>

BatchEnds ==
    /\ life = "running"
    /\ pc = "batch"
    /\ batch = {}
    /\ answered' = [answered EXCEPT ![Head(round)] = @ \cup {fetchedAt}]
    /\ NextSymbol
    /\ UNCHANGED <<life, clock, fetchedAt, lastTs, given>>

HandlerReturns ==
    /\ life = "running"
    /\ InHandler
    /\ pc' = "batch"
    /\ UNCHANGED <<life, clock, round, batch, fetchedAt, lastTs, given, answered>>

\* The loop goes on with the next symbol; the rest of the answer is dropped.
HandlerRaises ==
    /\ life = "running"
    /\ InHandler
    /\ NextSymbol
    /\ UNCHANGED <<life, clock, fetchedAt, lastTs, given, answered>>

-----------------------------------------------------------------------------
\* The shortest of the intervals (five seconds are less than any).
SleepTime == Min(Range(BarLength))

Sleep ==
    /\ life = "running"
    /\ pc = "fetch"
    /\ round = <<>>
    /\ pc' = "sleep"
    /\ UNCHANGED <<life, clock, round, batch, fetchedAt, lastTs, given, answered>>

Wake ==
    /\ life = "running"
    /\ pc = "sleep"
    /\ clock + SleepTime <= MaxClock
    /\ clock' = clock + SleepTime
    /\ pc' = "fetch"
    /\ round' = Feeds
    /\ UNCHANGED <<life, batch, fetchedAt, lastTs, given, answered>>

\* A request takes long (one that is answered shows the bars of the time it
\* was made), or the handler does.
TimePasses ==
    /\ life = "running"
    /\ pc # "sleep"
    /\ clock < MaxClock
    /\ clock' = clock + 1
    /\ UNCHANGED <<life, pc, round, batch, fetchedAt, lastTs, given, answered>>

Next ==
    \/ Start \/ RequestStop \/ Cancelled \/ StopReturns
    \/ FetchAnswered \/ FetchFailed
    \/ HandOver \/ BatchEnds \/ HandlerReturns \/ HandlerRaises
    \/ Sleep \/ Wake \/ TimePasses

\* A cancelled task ends.
Ending == Cancelled \/ StopReturns

Spec == Init /\ [][Next]_vars /\ WF_vars(Ending)

=============================================================================
