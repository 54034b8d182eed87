------------------------------ MODULE Backtests ------------------------------
(***************************************************************************)
(* The two backtest programs of the repository: the replay through the      *)
(* application's own parts (BacktestEngine) and the simulator with an exit  *)
(* loop of its own (BacktestRunner).  Both answer one question, what the    *)
(* strategy would have earned, and no run of one touches the other.         *)
(***************************************************************************)
EXTENDS BacktestEngine

CONSTANTS
    CandleShapes, StopMargins, CooldownBars, Grain,  \* of BacktestRunner
    MaxCandles                                       \* bound: its candles

ASSUME RunnerAssumption ==
    /\ \A c \in CandleShapes : /\ c.low \in Nat \ {0} /\ c.close \in Nat /\ c.high \in Nat
                               /\ c.low <= c.close /\ c.close <= c.high
    /\ StopMargins \subseteq Nat \ {0} /\ CooldownBars \in Nat /\ MaxCandles \in Nat
    /\ Grain \in Nat \ {0}

VARIABLES
    program,    \* the one that is started
    openTrade, trades, signals, lastEntry, candles, report

engineVars == vars
runnerVars == <<openTrade, trades, signals, lastEntry, candles, report>>

Runner == INSTANCE BacktestRunner
            WITH BarShapes <- CandleShapes, MaxRows <- MaxCandles, rows <- candles

Start == program \in {"engine", "runner"} /\ Init /\ Runner!Init

EngineStep == program = "engine" /\ Next /\ UNCHANGED <<program, runnerVars>>

RunnerStep == program = "runner" /\ Runner!Next /\ UNCHANGED <<program, engineVars>>

BacktestSpec == Start /\ [][EngineStep \/ RunnerStep]_<<program, engineVars, runnerVars>>

(* run_backtest: each trade leaves at the first later bar that closes at    *)
(* the target or reaches the stop in force, the break-even stop counting    *)
(* from the very bar whose close set it.  See BacktestRunner.               *)
RunnerExitsMatchHistory == Runner!RunnerExitsMatchHistory

(* run_backtest: the report agrees with the trades, its drawdown with the   *)
(* equity curve, as far as its four decimals go.  See BacktestRunner.       *)
ReportMatchesTrades == Runner!ReportMatchesTrades
=============================================================================
