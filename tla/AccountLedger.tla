---------------------------- MODULE AccountLedger ----------------------------
(***************************************************************************)
(* What the account-keeping promises: the result of a trade reaches the     *)
(* balance exactly once, and the peak is the highest balance ever held.     *)
(* Executor.tla implements it with concurrent tasks and an unreliable feed  *)
(* of order updates.                                                        *)
(***************************************************************************)
EXTENDS Integers

CONSTANTS StartingBalance, TradeIds, Pnls

VARIABLES
    balance,
    peak,
    booked      \* trades whose result is in the balance

vars == <<balance, peak, booked>>

Init ==
    /\ balance = StartingBalance
    /\ peak = StartingBalance
    /\ booked = {}

Book(id, pnl) ==
    /\ id \notin booked
    /\ booked' = booked \cup {id}
    /\ balance' = balance + pnl
    /\ peak' = IF peak >= balance' THEN peak ELSE balance'

Next == \E id \in TradeIds, pnl \in Pnls : Book(id, pnl)

Spec == Init /\ [][Next]_vars
=============================================================================
