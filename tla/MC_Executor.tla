---------------------------- MODULE MC_Executor ----------------------------
(* Two small instances of Executor, one chosen at the start, with one       *)
(* ordinary signal, a winning and a losing result, the stream consumer and  *)
(* the price poller.  In the cfg's own the journal is SQLite and midnight   *)
(* passes; in Filling it is Postgres and the stream reports opening fills.  *)
EXTENDS Executor, TLC

CONSTANTS ws, poller, t1, t2

MCSignals == { [metal |-> FALSE, spread |-> {}, riskPips |-> 3] }

MCLimits == { [maxTradesPerDay |-> 1, maxDailyLossPct |-> 3] }

MCPnls == {-3, 1}

VARIABLE filling

Filling == INSTANCE Executor WITH FillUpdates <- TRUE, Upsert <- FALSE, MaxDay <- 0

EitherInit == filling \in BOOLEAN /\ Init /\ (filling => mode = "full_auto")

OrdinaryStep == ~filling /\ Next /\ UNCHANGED filling

FillingStep == filling /\ Filling!Next /\ UNCHANGED filling

EitherSpec == EitherInit /\ [][OrdinaryStep \/ FillingStep]_<<vars, filling>>

\* FairSpec of the instance chosen.
Saves(t) ==
    /\ \/ ~filling /\ SaveStep(t)
       \/ filling /\ Filling!SaveStep(t)
    /\ UNCHANGED filling

FairEitherSpec ==
    /\ EitherSpec
    /\ \A t \in Tasks : /\ WF_<<vars, filling>>(PlaceStep(t) /\ UNCHANGED filling)
                        /\ WF_<<vars, filling>>(Saves(t))
=============================================================================
