-------------------------------- MODULE Sums --------------------------------
(***************************************************************************)
(* Sums of the values of a sequence or function, as a recursive function,  *)
(* so that they can be computed and proved about.                          *)
(***************************************************************************)
EXTENDS Integers

\* The sum f[1] + ... + f[n].
SumOf(f, n) ==
  LET sum[k \in 0 .. n] == IF k = 0 THEN 0 ELSE sum[k - 1] + f[k]
  IN  sum[n]
=============================================================================
