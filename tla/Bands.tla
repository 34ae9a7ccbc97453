-------------------------------- MODULE Bands --------------------------------
(***************************************************************************)
(* One call of bid_ or ask_price_band_depths (book/price_bands.hpp) or of  *)
(* bid_ or ask_volume_band_prices (book/volume_bands.hpp): a single pass   *)
(* over the levels of one side, best price first, that answers a list of   *)
(* thresholds.  One action is one turn of a loop.                          *)
(*                                                                         *)
(* The two computations walk the same way and share the variables: kind    *)
(* says which one runs.                                                    *)
(***************************************************************************)
EXTENDS FixedPoint, Sums

CONSTANTS
  kBpsDenominator,  \* basis points of the whole
  Sides,            \* books' sides a call may be given: sequences of levels
  Lists             \* lists of thresholds a call may be given

ASSUME BandsAssumption ==
  /\ kBpsDenominator \in Nat \ {0}
  /\ Sides \subseteq Seq([price : Raw, size : Raw])
  /\ Lists \subseteq Seq(Raw)

VARIABLES
  kind,          \* "price" or "volume"
  side,          \* "bid" or "ask"
  levels,        \* the levels, best price first
  list,          \* the thresholds
  pc,            \* where the call is
  i,             \* the level of the for loop
  next,          \* first threshold without an answer
  cum_size, cum_notional,
  next_cum,      \* volume: the notional with the current level
  result,        \* the bands so far
  error,         \* the std::errc the call returned
  numerator,     \* the scaled numerator vwap_at_partial_fill formed last
  narrowed       \* did an assert-only narrowing lose bits?

argVars == << kind, side, levels, list >>
sumVars == << cum_size, cum_notional, next_cum, narrowed >>
vars == << argVars, pc, i, next, sumVars, result, error, numerator >>

-----------------------------------------------------------------------------
(* price_bands.hpp.                                                        *)

Signed(s, bps) == IF s = "ask" THEN bps ELSE -bps
Factor(s, bps) == kBpsDenominator + Signed(s, bps)

\* Seeded fault: the boundary is rounded outwards.
round_outer(s, price, bps) ==
  LET scaled == price * Factor(s, bps)
  IN IF s = "bid" THEN scaled \div kBpsDenominator
     ELSE (scaled + kBpsDenominator - 1) \div kBpsDenominator

\* offset_by_bps: rounded towards the best price.  For display only.
round_inner(s, price, bps) ==
  LET scaled == price * Factor(s, bps)
  IN IF s = "ask" THEN scaled \div kBpsDenominator
     ELSE (scaled + kBpsDenominator - 1) \div kBpsDenominator

\* within_bps: the test that decides membership.
within(s, price, reference, bps) ==
  IF s = "ask"
  THEN price * kBpsDenominator <= reference * Factor(s, bps)
  ELSE price * kBpsDenominator >= reference * Factor(s, bps)

is_sorted(l) == \A m, n \in DOMAIN l : m <= n => l[m] <= l[n]

bps_thresholds_valid(s, l) ==
  /\ is_sorted(l)
  /\ \A n \in DOMAIN l : l[n] >= 0 /\ (s = "bid" => l[n] < kBpsDenominator)

-----------------------------------------------------------------------------
(* volume_bands.hpp.                                                       *)

volume_thresholds_valid(l) == is_sorted(l) /\ \A n \in DOMAIN l : l[n] > 0

\* Seeded fault: a level that exactly completes a threshold does not count.
ReachedLate(total, threshold) == total > threshold

Reached(total, threshold) == total >= threshold

\* Seeded fault: the product is not checked before it is scaled.
vwap_numerator_unchecked(notional, remaining, price) ==
  Ok((notional + remaining) * price * SizeScale)

\* Checked before it is scaled, because the check itself must not overflow.
vwap_numerator(notional, remaining, price) ==
  LET product == (notional + remaining) * price
  IN IF Abs(product) > WideMax \div SizeScale
     THEN Error("result_out_of_range")
     ELSE Ok(product * SizeScale)

\* The average price of what was taken so far and of remaining more at price,
\* as one fraction that is rounded once.
vwap_at_partial_fill(notional, size, remaining, price) ==
  LET n == vwap_numerator(notional, remaining, price)
      denominator == size * price + remaining * SizeScale
  IN IF price <= 0 THEN Error("argument_out_of_domain")
     ELSE IF ~n.ok THEN n
     ELSE IF denominator <= 0 THEN Error("argument_out_of_domain")
     ELSE Ok(round_div_nearest_away(n.value, denominator))

-----------------------------------------------------------------------------
(* The call.                                                               *)

Called(k, s, ls, l) ==
  /\ kind = k /\ side = s /\ levels = ls /\ list = l
  /\ pc = "begin" /\ i = 1 /\ next = 1
  /\ cum_size = 0 /\ cum_notional = 0 /\ next_cum = 0
  /\ result = << >> /\ error = "none"
  /\ numerator = 0 /\ narrowed = FALSE

\* return std::unexpected(errc): the bands found so far are lost.
Fail(errc) ==
  /\ pc' = "done"
  /\ error' = errc
  /\ result' = << >>
  /\ UNCHANGED << argVars, i, next, sumVars, numerator >>

Reference == levels[1].price

ListValid == IF kind = "price" THEN bps_thresholds_valid(side, list)
             ELSE volume_thresholds_valid(list)

RejectList ==
  /\ pc = "begin" /\ ~ListValid
  /\ Fail("invalid_argument")

\* empty_side_bands: without a best price there are no bands at all.
EmptySide ==
  /\ pc = "begin" /\ ListValid /\ kind = "price" /\ levels = << >>
  /\ pc' = "done"
  /\ UNCHANGED << argVars, i, next, sumVars, result, error, numerator >>

RejectReference ==
  /\ pc = "begin" /\ ListValid /\ kind = "price" /\ levels # << >>
  /\ Reference <= 0
  /\ Fail("argument_out_of_domain")

Enter ==
  /\ pc = "begin" /\ ListValid
  /\ kind = "price" => levels # << >> /\ Reference > 0
  /\ pc' = "level"
  /\ UNCHANGED << argVars, i, next, sumVars, result, error, numerator >>

-----------------------------------------------------------------------------
(* The for loop: check a level, answer what it decides, add it.            *)

InLoop == pc = "level" /\ i \in DOMAIN levels
Level == levels[i]

RejectLevel ==
  /\ InLoop /\ ~is_valid_level(Level.price, Level.size)
  /\ Fail("argument_out_of_domain")

EnterPriceLevel ==
  /\ InLoop /\ kind = "price" /\ is_valid_level(Level.price, Level.size)
  /\ pc' = "cross"
  /\ UNCHANGED << argVars, i, next, sumVars, result, error, numerator >>

LevelNotional == Narrow(fixed_multiply(Level.price, Level.size))

\* The sum with this level is checked once, before any threshold is compared.
EnterVolumeLevel ==
  /\ InLoop /\ kind = "volume" /\ is_valid_level(Level.price, Level.size)
  /\ LET sum == from_raw_safe(cum_notional + LevelNotional)
     IN IF sum.ok
        THEN /\ next_cum' = sum.value
             /\ narrowed' =
                  (narrowed \/ ~Fits(fixed_multiply(Level.price, Level.size)))
             /\ pc' = "cross"
             /\ UNCHANGED << argVars, i, next, cum_size, cum_notional, result,
                             error, numerator >>
        ELSE Fail(sum.error)

\* Answers threshold next with the depth before the current level.
PushPriceBand ==
  LET boundary == from_raw_safe(round_inner(side, Reference, list[next]))
  IN IF boundary.ok
     THEN /\ result' = Append(result,
                         [bps |-> list[next], boundary_price |-> boundary.value,
                          cumulative_size |-> cum_size,
                          cumulative_notional |-> cum_notional])
          /\ next' = next + 1
          /\ UNCHANGED << argVars, pc, i, sumVars, error, numerator >>
     ELSE Fail(boundary.error)

CrossPrice ==
  /\ pc = "cross" /\ kind = "price" /\ next <= Len(list)
  /\ ~within(side, Level.price, Reference, list[next])
  /\ PushPriceBand

\* Every threshold is answered: the rest of the levels is not looked at.
StopWalking ==
  /\ pc = "cross" /\ kind = "price" /\ next > Len(list)
  /\ pc' = "rest"
  /\ UNCHANGED << argVars, i, next, sumVars, result, error, numerator >>

\* The sum of sizes is only asserted, the sum of notionals is checked.
AddPriceLevel ==
  /\ pc = "cross" /\ kind = "price" /\ next <= Len(list)
  /\ within(side, Level.price, Reference, list[next])
  /\ LET sum == from_raw_safe(cum_notional + LevelNotional)
     IN IF sum.ok
        THEN /\ cum_size' = Narrow(cum_size + Level.size)
             /\ cum_notional' = sum.value
             /\ narrowed' =
                  (\/ narrowed \/ ~Fits(cum_size + Level.size)
                   \/ ~Fits(fixed_multiply(Level.price, Level.size)))
             /\ i' = i + 1
             /\ pc' = "level"
             /\ UNCHANGED << argVars, next, next_cum, result, error,
                             numerator >>
        ELSE Fail(sum.error)

Remaining == Narrow(list[next] - cum_notional)

\* Does the threshold fall on the far edge of the level?  Then its size is
\* known exactly.
AtEdge == Remaining = LevelNotional

Vwap ==
  IF AtEdge
  THEN fixed_divide(Narrow(cum_notional + Remaining),
                    Narrow(cum_size + Level.size))
  ELSE vwap_at_partial_fill(cum_notional, cum_size, Remaining, Level.price)

CrossVolume ==
  /\ pc = "cross" /\ kind = "volume" /\ next <= Len(list)
  /\ Reached(next_cum, list[next])
  /\ LET v == Vwap
         n == vwap_numerator(cum_notional, Remaining, Level.price)
     IN IF v.ok
        THEN /\ result' = Append(result,
                            [notional_threshold |-> list[next],
                             vwap |-> << Narrow(v.value) >>,
                             filled_notional |-> list[next]])
             /\ numerator' = IF AtEdge THEN numerator ELSE n.value
             /\ narrowed' = (\/ narrowed \/ ~Fits(v.value)
                             \/ ~Fits(list[next] - cum_notional)
                             \/ AtEdge /\ ~Fits(cum_size + Level.size))
             /\ next' = next + 1
             /\ UNCHANGED << argVars, pc, i, cum_size, cum_notional, next_cum,
                             error >>
        ELSE Fail(v.error)

\* Seeded fault: the level's size is not added.
AddVolumeLevelNotionalOnly ==
  /\ pc = "cross" /\ kind = "volume"
  /\ next <= Len(list) => ~Reached(next_cum, list[next])
  /\ cum_notional' = next_cum
  /\ i' = i + 1
  /\ pc' = "level"
  /\ UNCHANGED << argVars, next, cum_size, next_cum, narrowed, result, error,
                  numerator >>

AddVolumeLevel ==
  /\ pc = "cross" /\ kind = "volume"
  /\ next <= Len(list) => ~Reached(next_cum, list[next])
  /\ cum_notional' = next_cum
  /\ cum_size' = Narrow(cum_size + Level.size)
  /\ narrowed' = (narrowed \/ ~Fits(cum_size + Level.size))
  /\ i' = i + 1
  /\ pc' = "level"
  /\ UNCHANGED << argVars, next, next_cum, result, error, numerator >>

-----------------------------------------------------------------------------
(* After the loop: the thresholds no level decided.                        *)

LevelsEnd ==
  /\ pc = "level" /\ i > Len(levels)
  /\ pc' = "rest"
  /\ UNCHANGED << argVars, i, next, sumVars, result, error, numerator >>

RestOfPrice ==
  /\ pc = "rest" /\ kind = "price" /\ next <= Len(list)
  /\ PushPriceBand

RestOfVolume ==
  /\ pc = "rest" /\ kind = "volume" /\ next <= Len(list)
  /\ result' = Append(result, [notional_threshold |-> list[next],
                               vwap |-> << >>,
                               filled_notional |-> cum_notional])
  /\ next' = next + 1
  /\ UNCHANGED << argVars, pc, i, sumVars, error, numerator >>

Return ==
  /\ pc = "rest" /\ next > Len(list)
  /\ pc' = "done"
  /\ UNCHANGED << argVars, i, next, sumVars, result, error, numerator >>

Init ==
  \E k \in {"price", "volume"}, s \in {"bid", "ask"}, ls \in Sides, l \in Lists :
    Called(k, s, ls, l)

Step ==
  \/ RejectList \/ EmptySide \/ RejectReference \/ Enter
  \/ RejectLevel \/ EnterPriceLevel \/ EnterVolumeLevel
  \/ CrossPrice \/ StopWalking \/ AddPriceLevel
  \/ CrossVolume \/ AddVolumeLevel
  \/ LevelsEnd \/ RestOfPrice \/ RestOfVolume \/ Return

Spec == Init /\ [][Step]_vars

-----------------------------------------------------------------------------
(* What must hold.                                                         *)

PriceBand == [bps : Raw, boundary_price : Raw, cumulative_size : Raw,
              cumulative_notional : Raw]
VolumeBand == [notional_threshold : Raw,
               vwap : {<< >>} \cup {<< r >> : r \in Raw},
               filled_notional : Raw]

TypeOK ==
  /\ kind \in {"price", "volume"} /\ side \in {"bid", "ask"}
  /\ pc \in {"begin", "level", "cross", "rest", "done"}
  /\ i \in 1 .. Len(levels) + 1 /\ next \in 1 .. Len(list) + 1
  /\ {cum_size, cum_notional, next_cum} \subseteq Raw
  /\ result \in Seq(IF kind = "price" THEN PriceBand ELSE VolumeBand)
  /\ error \in {"none", "invalid_argument", "argument_out_of_domain",
                "result_out_of_range"}
  /\ numerator \in Int /\ narrowed \in BOOLEAN

\* The walk never evaluates a band before the preconditions that the helpers
\* only assert: a positive reference and a positive factor in offset_by_bps
\* and within_bps; and, when a threshold is crossed and no sum has overflowed,
\* something left to fill, on a positive price, with a size of at least zero.
AssertsHold ==
  pc \in {"cross", "rest"} /\ next <= Len(list) =>
    /\ kind = "price" => Reference > 0 /\ Factor(side, list[next]) > 0
    /\ kind = "volume" /\ pc = "cross" /\ next_cum >= list[next] /\ ~narrowed
         => Remaining > 0 /\ Level.price > 0 /\ cum_size >= 0

\* No step multiplies beyond __int128: the triple product of the partial fill
\* is the only one that could.
WideNeverOverflows == Abs(numerator) <= WideMax
-----------------------------------------------------------------------------
(* The bands, directly from the levels.                                    *)

\* A side is given best price first: apply_levels keeps it in a std::map.
BestFirst ==
  \A k, m \in DOMAIN levels : k <= m =>
    IF side = "ask" THEN levels[k].price <= levels[m].price
                    ELSE levels[k].price >= levels[m].price

\* The distance from the best price, compared with bps of the best price.
InBand(price, bps) ==
  (IF side = "ask" THEN price - Reference ELSE Reference - price)
    * kBpsDenominator <= Reference * bps

Outwards == IF side = "ask" THEN 1 ELSE -1

\* The sum of f[k] for the levels k in S.
Total(f, S) ==
  SumOf([k \in DOMAIN levels |-> IF k \in S THEN f[k] ELSE 0], Len(levels))

SizeOf(S) == Total([k \in DOMAIN levels |-> levels[k].size], S)
NotionalOf(S) ==
  Total([k \in DOMAIN levels |->
           fixed_multiply(levels[k].price, levels[k].size)], S)
ValueOf(S) ==
  Total([k \in DOMAIN levels |-> levels[k].price * levels[k].size], S)

\* A price band that was answered, however early the walk answered it, is the
\* depth of all the levels of the side that lie in it, and its boundary is the
\* last price in it; unless a sum that is only asserted has overflowed.
PriceBandsAreExact ==
  kind = "price" /\ ~narrowed =>
    /\ \A n \in DOMAIN result :
         LET band == result[n]
             S == {k \in DOMAIN levels : InBand(levels[k].price, list[n])}
         IN /\ band.bps = list[n]
            /\ band.cumulative_size = SizeOf(S)
            /\ band.cumulative_notional = NotionalOf(S)
            /\ InBand(band.boundary_price, list[n])
            /\ ~InBand(band.boundary_price + Outwards, list[n])
    /\ pc = "done" /\ error = "none" =>
         Len(result) = IF levels = << >> THEN 0 ELSE Len(list)

\* Level m is the first with which the side's notional reaches a threshold.
Completes(m, threshold) ==
  /\ NotionalOf(1 .. m) >= threshold
  /\ \A k \in 0 .. m - 1 : NotionalOf(1 .. k) < threshold

\* v is the average price of a fill that takes the levels before m, and from m
\* what is missing to the threshold, up to the rounding of each level's
\* notional and of the price itself.
IsAverage(v, m, threshold) ==
  LET p == levels[m].price
      r == (threshold - NotionalOf(1 .. m - 1)) * SizeScale
      S == SizeOf(1 .. m - 1)
  IN 2 * Abs(v * (S * p + r) - (ValueOf(1 .. m - 1) + r) * p)
       <= (m * SizeScale + S + levels[m].size) * p + Abs(v - p) * SizeScale

\* A volume band with a price is one that a level completes, and the price is
\* the average price of that fill; one without a price is beyond the whole
\* side; unless a sum that is only asserted has overflowed.
VolumeBandsAreExact ==
  kind = "volume" /\ ~narrowed =>
    /\ \A n \in DOMAIN result :
         LET band == result[n]
             all == NotionalOf(DOMAIN levels)
         IN /\ band.notional_threshold = list[n]
            /\ IF band.vwap = << >>
               THEN all < list[n] /\ band.filled_notional = all
               ELSE /\ band.filled_notional = list[n]
                    /\ \E m \in DOMAIN levels :
                         /\ Completes(m, list[n])
                         /\ IsAverage(band.vwap[1], m, list[n])
    /\ pc = "done" /\ error = "none" => Len(result) = Len(list)
=============================================================================
