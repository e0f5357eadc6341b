-------------------------------- MODULE Totals --------------------------------
(* Sums of sequences of numbers.                                             *)
EXTENDS Integers, Sequences

Total(a) ==
    LET sum[n \in 0..Len(a)] == IF n = 0 THEN 0 ELSE sum[n - 1] + a[n]
    IN  sum[Len(a)]
===============================================================================
