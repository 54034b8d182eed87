---------------------------- MODULE MC_Backtests ----------------------------
(* Small instance of Backtests.  BacktestEngine: two symbols, four rows, two *)
(* per day.  BacktestRunner: around a price of 10250 units of 0.0001, as of  *)
(* a currency pair at 1.025, where break-even is 5.125 and the target 10.25  *)
(* units away.  A unit is also the last digit of the report, which two       *)
(* targets leave at half of it.                                              *)
EXTENDS Backtests

Shape(l, h, c) == [low |-> l, high |-> h, close |-> c]

\* A quiet bar, one up and one down that leave its range, one that crosses
\* every level set on a quiet bar.
MCBarShapes == { Shape(98, 102, 100), Shape(103, 108, 107), Shape(92, 97, 93),
                 Shape(90, 110, 100) }

Around(l, h, c) == Shape(10250 + l, 10250 + h, 10250 + c)

\* A quiet bar, one up and one down by break-even and by the target, and one
\* that closes quietly after a deep fall and a high.
MCCandleShapes == { Around(-2, 2, 0), Around(2, 8, 7), Around(-8, -2, -7),
                    Around(-9, 15, 13), Around(-15, 9, -13), Around(-12, 12, 1) }

MCLimits == [maxTradesPerDay |-> 2, maxDailyLossPct |-> 3]

Symmetry == Permutations(Symbols)
=============================================================================
