------------------------------ MODULE MC_Engine ------------------------------
(* Trades are interchangeable: the engine only compares their ids.          *)
EXTENDS Engine, TLC
CONSTANTS t1, t2, t3
TradeSymmetry == Permutations(TradeIds)
=============================================================================
