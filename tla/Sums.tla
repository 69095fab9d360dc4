-------------------------------- MODULE Sums --------------------------------
(***************************************************************************)
(* Sums of sequences of integers, as recursive functions: a fold of the    *)
(* community modules would compute the same numbers, but its definition    *)
(* cannot be unfolded in a proof.                                          *)
(***************************************************************************)
EXTENDS Integers, Sequences

(* PrefixSums(q)[k] is the sum of the first k elements of q.               *)
PrefixSums(q) ==
  LET sum[k \in 0 .. Len(q)] == IF k = 0 THEN 0 ELSE sum[k - 1] + q[k]
  IN  sum

Total(q) == PrefixSums(q)[Len(q)]

=============================================================================
