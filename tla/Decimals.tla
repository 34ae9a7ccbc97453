------------------------------ MODULE Decimals ------------------------------
(***************************************************************************)
(* Powers of ten and numbers in decimal notation, as recursive functions,  *)
(* so that they can be computed and proved about.                          *)
(***************************************************************************)
EXTENDS Integers, Sequences

\* BasicFixedPoint::scale for n decimals.
PowerOfTen(n) ==
  LET power[k \in 0 .. n] == IF k = 0 THEN 1 ELSE 10 * power[k - 1]
  IN  power[n]

\* The number whose decimal digits are s, the most significant one first.
Digits(s) ==
  LET value[k \in 0 .. Len(s)] == IF k = 0 THEN 0 ELSE 10 * value[k - 1] + s[k]
  IN  value[Len(s)]
=============================================================================
