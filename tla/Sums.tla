-------------------------------- MODULE Sums --------------------------------
(* The sum of values over the times up to one of them. *)
EXTENDS Integers

\* values[0] + ... + values[n]
SumTo(values, n) ==
    LET sum[k \in Nat] == (IF k = 0 THEN 0 ELSE sum[k - 1]) + values[k]
    IN  sum[n]
=============================================================================
