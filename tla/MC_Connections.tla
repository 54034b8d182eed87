--------------------------- MODULE MC_Connections ---------------------------
(* The two connections to TradeLocker, which share no state: a run follows  *)
(* the REST client, with two requests (a feed's order and a quote) beside   *)
(* the refresh loop, or the stream client.                                  *)
EXTENDS TradeLockerAuth, WebSocketClient

CONSTANTS order, quote

VARIABLE client

clientVars == <<vars, streamVars, client>>

ClientInit == client \in {"rest", "stream"} /\ Init /\ StreamInit

RestStep == client = "rest" /\ Next /\ UNCHANGED <<client, streamVars>>

StreamStep == client = "stream" /\ StreamNext /\ UNCHANGED <<client, vars>>

\* FairSpec of the one, FairStreamSpec of the other.
ConnectionSpec ==
    /\ ClientInit /\ [][RestStep \/ StreamStep]_clientVars
    /\ WF_clientVars(RestStep /\ RefresherStep)
    /\ \A c \in Callers : WF_clientVars(RestStep /\ CallerStep(c))
    /\ WF_clientVars(StreamStep /\ RunStep)
    /\ WF_clientVars(StreamStep /\ Closed)
    /\ WF_clientVars(StreamStep /\ Joined)
=============================================================================
