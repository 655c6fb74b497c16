-------------------------------- MODULE Sums --------------------------------
(***************************************************************************)
(* The sum that a loop over n terms makes.                                 *)
(***************************************************************************)
EXTENDS Integers

SumTo(n, terms) ==
    LET sum[i \in 0..n] == IF i = 0 THEN 0 ELSE sum[i - 1] + terms[i]
    IN  sum[n]
=============================================================================
