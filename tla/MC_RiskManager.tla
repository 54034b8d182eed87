--------------------------- MODULE MC_RiskManager ---------------------------
(* Small instances of RiskManager: a 100-unit account with the percentages  *)
(* of the default settings, three days, four trades.                        *)
EXTENDS RiskManager

MCLimits ==
    { [maxTradesPerDay |-> 2, maxDailyLossPct |-> 3],
      [maxTradesPerDay |-> 3, maxDailyLossPct |-> 1] }

\* An ordinary signal, one quoted with a wide spread, one with a stop so far
\* away that no lot fits the budget.
MCSignals ==
    { [metal |-> FALSE, spread |-> {},  riskPips |-> 3],
      [metal |-> FALSE, spread |-> {2}, riskPips |-> 3],
      [metal |-> TRUE,  spread |-> {2}, riskPips |-> 60] }

MCPnls == {-2, 0, 1, 8}

\* Results too small for the daily loss cap to step in first.
MCSmallPnls == {-1, 1}
=============================================================================
