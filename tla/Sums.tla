--------------------------------- MODULE Sums ---------------------------------
(***************************************************************************)
(* The sums of base and the first 0, 1, 2, ... numbers of the sequence x.   *)
(***************************************************************************)
EXTENDS Integers, Sequences

RunningSum(base, x) ==
    LET sum[k \in 0..Len(x)] == IF k = 0 THEN base ELSE sum[k - 1] + x[k]
    IN  sum
=============================================================================
