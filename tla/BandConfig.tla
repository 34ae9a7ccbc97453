----------------------------- MODULE BandConfig -----------------------------
(***************************************************************************)
(* How text becomes fixed-point numbers and lists of thresholds:           *)
(* BasicFixedPoint::from_decimal_string (core/fixed_point.hpp), the level  *)
(* parsers of exchange/feed_wire.hpp, and the flags of                     *)
(* apps/aggregator/band_config.hpp.                                        *)
(*                                                                         *)
(* A text is its sign, the characters before the point and those after it. *)
(* A character is the digit it stands for, or NotADigit.                   *)
(***************************************************************************)
EXTENDS FixedPoint, Decimals, Subsequences, SequencesExt

CONSTANTS PriceDecimals, SizeDecimals  \* Price::decimals, Size::decimals

ASSUME DecimalsAssumption ==
  /\ PriceDecimals \in Nat /\ SizeDecimals \in Nat
  /\ SizeScale = PowerOfTen(SizeDecimals)

NotADigit == 10
IsDigit(c) == c \in 0 .. 9
DecimalText == [negative : BOOLEAN, int : Seq(0 .. NotADigit), dot : BOOLEAN,
                frac : Seq(0 .. NotADigit)]

\* The integer part stops at the first value beyond the raw type, however
\* many digits follow.
AddDigit(value, c) ==
  IF ~value.ok THEN value
  ELSE IF ~IsDigit(c) THEN Error("invalid_argument")
  ELSE from_raw_safe(10 * value.value + c)

int_value(text) ==
  LET value[k \in 0 .. Len(text.int)] ==
        IF k = 0 THEN Ok(0) ELSE AddDigit(value[k - 1], text.int[k])
  IN  value[Len(text.int)]

\* Seeded fault: the digits that do not fit are cut off.
frac_value_truncated(decimals, text) ==
  Digits([k \in 1 .. decimals |->
            IF k \in DOMAIN text.frac THEN text.frac[k] ELSE 0])

\* One digit more than fits decides the rounding; fewer are padded.
frac_value(decimals, text) ==
  LET take == Min({Len(text.frac), decimals + 1})
      frac_numerator == Digits(SubSeq(text.frac, 1, take))
  IN IF Len(text.frac) > decimals
     THEN round_div_nearest_away(frac_numerator, 10)
     ELSE frac_numerator * PowerOfTen(decimals - take)

\* A fraction that rounds up to one carries; the bound is the same for both
\* signs.
from_decimal_string(decimals, text) ==
  LET int == int_value(text)
      magnitude == int.value * PowerOfTen(decimals)
                     + frac_value(decimals, text)
  IN IF text.int = << >> /\ text.frac = << >> THEN Error("invalid_argument")
     ELSE IF ~int.ok THEN int
     ELSE IF \E k \in DOMAIN text.frac : ~IsDigit(text.frac[k])
     THEN Error("invalid_argument")
     ELSE IF magnitude > RawMax THEN Error("result_out_of_range")
     ELSE Ok(IF text.negative THEN -magnitude ELSE magnitude)

\* parse_level and parse_levels: one bad number rejects the message.
parse_level(level) ==
  [price |-> from_decimal_string(PriceDecimals, level.price),
   size |-> from_decimal_string(SizeDecimals, level.size)]

LevelsParse(texts) ==
  \A k \in DOMAIN texts :
    parse_level(texts[k]).price.ok /\ parse_level(texts[k]).size.ok

parse_levels(texts) ==
  [k \in DOMAIN texts |-> [price |-> parse_level(texts[k]).price.value,
                           size |-> parse_level(texts[k]).size.value]]

-----------------------------------------------------------------------------
(* The flags.                                                              *)

Absent == << >>

\* Not empty, strictly increasing, and each value in its range.
parse_ascending_list(parsed, valid) ==
  LET values == [k \in DOMAIN parsed |-> parsed[k].value]
  IN IF /\ parsed # << >>
        /\ \A k \in DOMAIN parsed : parsed[k].ok
        /\ \A k \in 2 .. Len(parsed) : values[k - 1] < values[k]
        /\ \A k \in DOMAIN parsed : values[k] \in valid
     THEN Ok(values) ELSE Error("invalid_argument")

\* Whole amounts only.  A Notional has the decimals of a Price.
threshold_token(text) ==
  IF text.dot THEN Error("invalid_argument")
  ELSE from_decimal_string(PriceDecimals, text)

parse_volume_thresholds(tokens) ==
  parse_ascending_list([k \in DOMAIN tokens |-> threshold_token(tokens[k])],
                       1 .. RawMax)

\* std::from_chars into an int, which is as wide as anything the list allows.
bps_token(text) ==
  LET int == int_value(text)
  IN IF text.dot \/ text.int = << >> \/ ~int.ok THEN Error("invalid_argument")
     ELSE Ok(IF text.negative THEN -int.value ELSE int.value)

\* Seeded fault: the list is checked for asks only, which have no upper bound.
parse_price_bps_unbounded(tokens, denominator) ==
  parse_ascending_list([k \in DOMAIN tokens |-> bps_token(tokens[k])],
                       0 .. RawMax)

\* The list is used for both sides, so the bids' bound applies.
parse_price_bps(tokens, denominator) ==
  parse_ascending_list([k \in DOMAIN tokens |-> bps_token(tokens[k])],
                       0 .. denominator - 1)

\* The arguments that carry a flag; a flag given twice is an error.
Given(args, flag) ==
  AtIndices(args, {k \in DOMAIN args : args[k].flag = flag})

extract_flags(args) ==
  LET volume == Given(args, "--volume-thresholds=")
      price == Given(args, "--price-bps=")
      csv(given) == IF given = << >> THEN Absent ELSE << given[1].csv >>
  IN IF Len(volume) > 1 \/ Len(price) > 1 THEN Error("given more than once")
     ELSE Ok([volume_thresholds_csv |-> csv(volume),
              price_bps_csv |-> csv(price)])
=============================================================================
