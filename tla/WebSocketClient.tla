--------------------------- MODULE WebSocketClient ---------------------------
(***************************************************************************)
(* The reconnecting stream client (src/app/websocket/client.py): the task   *)
(* of _run, the engine's call of stop(), and the connection between them.   *)
(* A step is what a task does between two awaits.  The websockets library   *)
(* is external and modelled as the code uses it: a connection delivers the  *)
(* messages that have arrived, also after it was closed, and then ends the  *)
(* iteration.  Init, Next and Spec have Stream in their names so that a      *)
(* module can extend both clients of TradeLocker.                           *)
(***************************************************************************)
EXTENDS Integers

CONSTANTS
    MaxExponent,    \* the 6 of 2 ** min(attempt, 6): counting stops here
    MaxBuffered     \* bound: messages the connection holds

ASSUME WebSocketAssumption ==
    /\ MaxExponent \in Nat \ {0}
    /\ MaxBuffered \in Nat \ {0}

VARIABLES
    run,        \* where the task of _run is suspended
    stopSet,    \* the _stop event
    ws,         \* _ws: none, or a connection that is open or closed
    buffered,   \* messages received and not yet consumed
    attempt,    \* local counter of _run
    reconnects, \* _reconnects
    stopper     \* where the call of stop() is suspended

streamVars == <<run, stopSet, ws, buffered, attempt, reconnects, stopper>>

RunPC == {"unstarted", "loop", "handshake", "consuming", "handling",
          "backoff", "done"}
StopperPC == {"idle", "closing", "waiting", "returned"}

StreamTypeOK ==
    /\ run \in RunPC
    /\ stopSet \in BOOLEAN
    /\ ws \in {"none", "open", "closed"}
    /\ buffered \in 0..MaxBuffered
    /\ attempt \in 0..MaxExponent
    /\ reconnects \in 0..MaxExponent
    /\ stopper \in StopperPC

StreamInit ==
    /\ run = "unstarted"
    /\ stopSet = FALSE
    /\ ws = "none"
    /\ buffered = 0
    /\ attempt = 0
    /\ reconnects = 0
    /\ stopper = "idle"

-----------------------------------------------------------------------------
(* The task of _run.                                                        *)

Start ==
    /\ run = "unstarted"
    /\ run' = "loop"
    /\ stopSet' = FALSE
    /\ UNCHANGED <<ws, buffered, attempt, reconnects, stopper>>

\* The head of the while loop, up to the handshake.
Loop ==
    /\ run = "loop"
    /\ run' = IF stopSet THEN "done" ELSE "handshake"
    /\ UNCHANGED <<stopSet, ws, buffered, attempt, reconnects, stopper>>

Connected ==
    /\ run = "handshake"
    /\ run' = "consuming"
    /\ ws' = "open"
    /\ buffered' = 0
    /\ reconnects' = attempt
    /\ attempt' = 0
    /\ UNCHANGED <<stopSet, stopper>>

\* The delay grows with min(attempt, 6) and so does the counter of the model.
AttemptAfter == IF attempt < MaxExponent THEN attempt + 1 ELSE MaxExponent

\* Seeded faults: the finally clause is missing, a lost connection ends the
\* task.
HandleKept == ws

HandleAfter == "none"

RunEnded == "done"

RunAfter == IF stopSet THEN "done" ELSE "backoff"

\* Every way out of the try statement: the finally clause, the test of the
\* stop event, and the wait before the next attempt.
Leave ==
    /\ ws' = HandleAfter
    /\ buffered' = 0
    /\ run' = RunAfter
    /\ attempt' = IF stopSet THEN attempt ELSE AttemptAfter
    /\ UNCHANGED <<stopSet, reconnects, stopper>>

HandshakeFailed == run = "handshake" /\ Leave

\* A message that is not JSON is dropped.
DropMessage ==
    /\ run = "consuming"
    /\ buffered > 0
    /\ buffered' = buffered - 1
    /\ UNCHANGED <<run, stopSet, ws, attempt, reconnects, stopper>>

\* _on_message is awaited; an exception of the handler is logged.
Handle ==
    /\ run = "consuming"
    /\ buffered > 0
    /\ buffered' = buffered - 1
    /\ run' = "handling"
    /\ UNCHANGED <<stopSet, ws, attempt, reconnects, stopper>>

Handled ==
    /\ run = "handling"
    /\ run' = "consuming"
    /\ UNCHANGED <<stopSet, ws, buffered, attempt, reconnects, stopper>>

ConsumeEnds ==
    /\ run = "consuming"
    /\ ws = "closed"
    /\ buffered = 0
    /\ Leave

\* wait_for(_stop.wait(), timeout=backoff): the event, or the timeout.
BackoffStopped ==
    /\ run = "backoff"
    /\ stopSet
    /\ run' = "done"
    /\ UNCHANGED <<stopSet, ws, buffered, attempt, reconnects, stopper>>

BackoffElapsed ==
    /\ run = "backoff"
    /\ run' = "loop"
    /\ UNCHANGED <<stopSet, ws, buffered, attempt, reconnects, stopper>>

RunStep ==
    \/ Loop \/ Connected \/ HandshakeFailed
    \/ DropMessage \/ Handle \/ Handled \/ ConsumeEnds
    \/ BackoffStopped \/ BackoffElapsed

-----------------------------------------------------------------------------
(* stop().  The engine starts every client it creates before it can stop    *)
(* it, and creates a new client for a new environment.                      *)

Stop ==
    /\ stopper = "idle"
    /\ run # "unstarted"
    /\ stopSet' = TRUE
    /\ stopper' = IF ws = "open" THEN "closing" ELSE "waiting"
    /\ UNCHANGED <<run, ws, buffered, attempt, reconnects>>

\* Seeded fault: the connection is left open.
HandleNotClosed == ws

HandleClosed == IF ws = "open" THEN "closed" ELSE ws

\* await self._ws.close() has returned.
Closed ==
    /\ stopper = "closing"
    /\ ws' = HandleClosed
    /\ stopper' = "waiting"
    /\ UNCHANGED <<run, stopSet, buffered, attempt, reconnects>>

Joined ==
    /\ stopper = "waiting"
    /\ run = "done"
    /\ stopper' = "returned"
    /\ UNCHANGED <<run, stopSet, ws, buffered, attempt, reconnects>>

-----------------------------------------------------------------------------
(* External: the connection.                                                *)

\* A message arrives.
Arrive ==
    /\ ws = "open"
    /\ buffered < MaxBuffered
    /\ buffered' = buffered + 1
    /\ UNCHANGED <<run, stopSet, ws, attempt, reconnects, stopper>>

\* The server closes, the network fails, or a ping is not answered in time.
Drop ==
    /\ ws = "open"
    /\ ws' = "closed"
    /\ UNCHANGED <<run, stopSet, buffered, attempt, reconnects, stopper>>

StreamNext ==
    \/ Start \/ RunStep
    \/ Stop \/ Closed \/ Joined
    \/ Arrive \/ Drop

StreamSpec == StreamInit /\ [][StreamNext]_streamVars

(***************************************************************************)
(* The event loop runs a task that can run; the handshake, the closing      *)
(* handshake and the backoff have timeouts, and the handler returns.  Of    *)
(* the server nothing is assumed: it need not send or close.                *)
(***************************************************************************)
FairStreamSpec ==
    /\ StreamSpec
    /\ WF_streamVars(RunStep)
    /\ WF_streamVars(Closed)
    /\ WF_streamVars(Joined)

-----------------------------------------------------------------------------
(* is_connected and send() never see the handle of an earlier connection:   *)
(* _ws is set exactly while the task is inside the connection's block.      *)
HandleIsCurrent == ws # "none" <=> run \in {"consuming", "handling"}

(* Only stop() ends the stream: neither a failed handshake, a lost          *)
(* connection nor a failing handler does.                                   *)
RunsUntilStopped == run = "done" => stopSet

(* A lost connection is followed by another handshake, unless stop() comes. *)
Reconnects ==
    (run \in {"consuming", "handling"} /\ ws = "closed")
      ~> (run = "handshake" \/ stopSet)

(* A stop() that finds the stream connected, or waiting to reconnect,       *)
(* returns.                                                                 *)
StopInterrupts ==
    (stopper = "closing" \/ (stopSet /\ run = "backoff"))
      ~> stopper = "returned"
=============================================================================
