---------------------------- MODULE Subsequences ----------------------------
(***************************************************************************)
(* What the code's filters keep of a sequence, given the positions that    *)
(* pass: SelectSeq of the standard module in a form that can be proved     *)
(* about, a function of two values and not of an operator.                 *)
(***************************************************************************)
EXTENDS Integers, Sequences

\* The elements of s at the positions in I, in their order.
AtIndices(s, I) ==
  LET upto[n \in 0 .. Len(s)] ==
        IF n = 0 THEN << >>
        ELSE IF n \in I THEN Append(upto[n - 1], s[n])
        ELSE upto[n - 1]
  IN  upto[Len(s)]
=============================================================================
