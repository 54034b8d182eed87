------------------------------ MODULE CandleFeed ------------------------------
(***************************************************************************)
(* What the engine expects of a price source, whichever it has chosen: the  *)
(* candle handler is called only between start() and the return of stop(),  *)
(* one call at a time, and stop() returns.                                  *)
(***************************************************************************)
VARIABLES
    life,       \* "new", "running", "stopping", "stopped" or "failed"
    inHandler   \* on_candle is awaited

vars == <<life, inHandler>>

Init == life = "new" /\ inHandler = FALSE

Start == life = "new" /\ life' \in {"running", "failed"} /\ UNCHANGED inHandler

Call == life \in {"running", "stopping"} /\ ~inHandler /\ inHandler' = TRUE /\ UNCHANGED life

Return == inHandler /\ inHandler' = FALSE /\ UNCHANGED life

RequestStop == life = "running" /\ life' = "stopping" /\ UNCHANGED inHandler

StopReturns == life = "stopping" /\ ~inHandler /\ life' = "stopped" /\ UNCHANGED inHandler

Next == Start \/ Call \/ Return \/ RequestStop \/ StopReturns

Spec == Init /\ [][Next]_vars /\ (life = "stopping" ~> life = "stopped")
=============================================================================
