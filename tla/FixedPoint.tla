----------------------------- MODULE FixedPoint -----------------------------
(***************************************************************************)
(* Scaled integers: core/rounding.hpp, core/fixed_point.hpp and            *)
(* core/notional.hpp.  A Price, a Size and a Notional are the raw integer  *)
(* they store.  Price and Notional have the same number of decimals, so    *)
(* only the scale of Size shows in products and quotients.                 *)
(*                                                                         *)
(* The widths are parameters, so that sums and products can leave them in  *)
(* a small instance.  from_raw_checked only asserts: in the release build  *)
(* that docker/Dockerfile makes, it keeps the low bits (Narrow).           *)
(***************************************************************************)
EXTENDS Integers, Sequences

CONSTANTS
  RawMax,     \* largest std::int64_t
  WideMax,    \* largest __int128
  SizeScale   \* Size::scale

\* A product of two raw values, and what is added to it, fits the wide type.
ASSUME WidthAssumption ==
  /\ RawMax \in Nat \ {0} /\ WideMax \in Nat /\ SizeScale \in Nat \ {0}
  /\ (RawMax + 1) * (RawMax + 1) + RawMax * SizeScale <= WideMax

Raw == -RawMax - 1 .. RawMax
Fits(value) == value \in Raw

Abs(n) == IF n < 0 THEN -n ELSE n

\* std::expected.
Ok(value) == [ok |-> TRUE, value |-> value]
Error(errc) == [ok |-> FALSE, error |-> errc]

\* To the nearest integer, ties away from zero; half is rounded up, so that
\* an odd denominator has no tie.
round_div_nearest_away(numerator, denominator) ==
  LET m == Abs(numerator)
      half == (denominator \div 2) + (denominator % 2)
      quotient == m \div denominator
                    + (IF m % denominator >= half THEN 1 ELSE 0)
  IN IF numerator >= 0 THEN quotient ELSE -quotient

\* from_raw_checked in the release build.
Narrow(value) ==
  ((value + RawMax + 1) % (2 * (RawMax + 1))) - RawMax - 1

\* Seeded fault: the bound is only asserted, and the assert is compiled out.
from_raw_unsafe(value) == Ok(value)

from_raw_safe(value) ==
  IF Fits(value) THEN Ok(value) ELSE Error("result_out_of_range")

\* Price * Size -> Notional, before it is narrowed.
fixed_multiply(price, size) == round_div_nearest_away(price * size, SizeScale)

\* Notional / Size -> Price.
fixed_divide(notional, size) ==
  IF size <= 0 THEN Error("argument_out_of_domain")
  ELSE Ok(round_div_nearest_away(notional * SizeScale, size))

is_valid_level(price, size) == price > 0 /\ size >= 0
=============================================================================
