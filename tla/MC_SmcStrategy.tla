--------------------------- MODULE MC_SmcStrategy ---------------------------
(* Two small markets around a price of 10000, one chosen at the start.  In  *)
(* that of the cfg one feed brings seven bar shapes in order; in Rejecting  *)
(* two feeds bring three shapes, and one delivery is not new.               *)
EXTENDS SmcStrategy

Shape(o, h, l, c) ==
    [open |-> 10000 + o, high |-> 10000 + h, low |-> 10000 + l, close |-> 10000 + c]

\* A quiet bar; a low and a high that stand out; a bar that sweeps each; a
\* displacement that gaps away upwards, one that does not downwards.
MCShapes ==
    { Shape(0, 3, -5, 1),
      Shape(1, 2, -8, -6), Shape(-1, 8, -2, 6),
      Shape(-4, -1, -13, -3), Shape(4, 13, 1, 3),
      Shape(8, 30, 8, 30), Shape(2, 3, -30, -30) }

\* Enough for several signals of one low: a quiet bar, the low, a sweep of it
\* that is rejected.
RejectionShapes == { Shape(0, 3, -5, 1), Shape(1, 2, -8, -6), Shape(-4, -1, -13, -3) }

VARIABLE market

Rejecting == INSTANCE SmcStrategy
               WITH Shapes <- RejectionShapes, MaxBars <- MaxBars + 1, MaxTicks <- 1

MarketInit == market \in {"varied", "rejecting"} /\ Init

VariedStep == market = "varied" /\ Next /\ UNCHANGED market

RejectingStep == market = "rejecting" /\ Rejecting!Next /\ UNCHANGED market

MarketSpec == MarketInit /\ [][VariedStep \/ RejectingStep]_<<vars, market>>
=============================================================================
