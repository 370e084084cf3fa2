-------------------------------- MODULE Sums --------------------------------
(* Sums over the first n places of a function or sequence.                 *)
EXTENDS Naturals, Sequences

(* f[1] + ... + f[n] *)
SumTo(f, n) == LET sum[k \in Nat] == IF k = 0 THEN 0 ELSE sum[k - 1] + f[k] IN sum[n]

Total(q) == SumTo(q, Len(q))
=============================================================================
