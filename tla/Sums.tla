--------------------------------- MODULE Sums ----------------------------------
(* The sum of the first k entries of a sequence of numbers. *)
EXTENDS Integers

SumUpto(s, k) == LET sum[j \in 0..k] == IF j = 0 THEN 0 ELSE sum[j - 1] + s[j]
                 IN  sum[k]
=============================================================================
