---------------------------- MODULE BandsProofs ----------------------------
(***************************************************************************)
(* What modules Bands and BandClient guarantee for every book, every list  *)
(* of thresholds and every width of the integers.                          *)
(*                                                                         *)
(* A call of a band function comes first, with the invariants IInv,        *)
(* PriceInv and VolumeInv; then the lists that main() accepts, how text    *)
(* becomes numbers, and the order in which they are kept.  The last        *)
(* section puts these together: ClientInv, from the text of a message to   *)
(* the line that is printed.                                               *)
(***************************************************************************)
EXTENDS BandClient, Induction, FiniteSetTheorems

-----------------------------------------------------------------------------
(* Arithmetic.                                                             *)

\* A non-negative number below the modulus is its own remainder.
LEMMA ModSmall ==
  ASSUME NEW a \in Nat, NEW b \in Nat \ {0}, a < b
  PROVE  a % b = a
BY Z3

\* Narrowing always yields a raw value ...
LEMMA NarrowType ==
  ASSUME NEW v \in Int
  PROVE  Narrow(v) \in Raw
<1> DEFINE M == 2 * (RawMax + 1)
           a == v + RawMax + 1
<1>1. M \in Nat \ {0} /\ a \in Int /\ RawMax \in Nat
  BY WidthAssumption
<1>2. a % M \in 0 .. M - 1
  <2> HIDE DEF M, a
  <2> QED BY <1>1, Z3
<1>3. Narrow(v) = (a % M) - RawMax - 1
  BY DEF Narrow
<1>4. M = RawMax + RawMax + 2
  BY <1>1
<1> HIDE DEF M, a
<1> QED BY <1>1, <1>2, <1>3, <1>4 DEF Raw

\* ... and changes nothing that fits.
LEMMA NarrowId ==
  ASSUME NEW v \in Int, Fits(v)
  PROVE  Narrow(v) = v
<1> DEFINE M == 2 * (RawMax + 1)
           a == v + RawMax + 1
<1>1. RawMax \in Nat /\ M = RawMax + RawMax + 2
  BY WidthAssumption
<1>2. M \in Nat \ {0} /\ a \in Nat /\ a < M
  BY <1>1 DEF Fits, Raw
<1>3. a % M = a
  <2> HIDE DEF M, a
  <2> QED BY <1>2, ModSmall
<1> QED BY <1>1, <1>3 DEF Narrow

\* Rounding keeps integers integer and does not change a sign.
LEMMA RoundType ==
  ASSUME NEW n \in Int, NEW d \in Nat \ {0}
  PROVE  /\ round_div_nearest_away(n, d) \in Int
         /\ n >= 0 => round_div_nearest_away(n, d) >= 0
<1> DEFINE m == Abs(n)
<1>1. m \in Nat /\ (n >= 0 => m = n)
  BY DEF Abs
<1>2. m \div d \in Nat
  <2> HIDE DEF m
  <2> QED BY <1>1, Z3
<1>3. m % d \in Nat /\ d \div 2 \in Nat /\ d % 2 \in Nat
  <2> HIDE DEF m
  <2> QED BY <1>1, Z3
<1> DEFINE up == IF m % d >= (d \div 2) + (d % 2) THEN 1 ELSE 0
<1>4. up \in {0, 1}
  OBVIOUS
<1>5. round_div_nearest_away(n, d) =
        IF n >= 0 THEN (m \div d) + up ELSE -((m \div d) + up)
  BY DEF round_div_nearest_away
<1> HIDE DEF m, up
<1> QED BY <1>2, <1>4, <1>5

\* The guard of vwap_at_partial_fill is enough for the product it guards.
LEMMA GuardSuffices ==
  ASSUME NEW p \in Int, Abs(p) <= WideMax \div SizeScale
  PROVE  Abs(p * SizeScale) <= WideMax
<1> DEFINE W == WideMax
           S == SizeScale
           q == WideMax \div SizeScale
           a == Abs(p)
<1>1. W \in Nat /\ S \in Nat \ {0}
  BY WidthAssumption
<1>2. q \in Nat /\ q * S <= W
  BY <1>1, Z3
<1>3. a \in Nat /\ a <= q /\ (p = a \/ p = -a)
  BY DEF Abs
<1>4. a * S <= q * S
  <2> HIDE DEF a, q, S
  <2> QED BY <1>1, <1>2, <1>3, Z3
<1>5. p * S = a * S \/ p * S = -(a * S)
  <2> HIDE DEF a, q, S
  <2> QED BY <1>1, <1>3, Z3
<1>6. a * S \in Nat
  <2> HIDE DEF a, q, S
  <2> QED BY <1>1, <1>3, Z3
<1> DEFINE x == a * S
<1> HIDE DEF a, x
<1> QED BY <1>1, <1>2, <1>4, <1>5, <1>6 DEF Abs, x

-----------------------------------------------------------------------------
(* The inductive invariant.                                                *)

Errc == {"invalid_argument", "argument_out_of_domain", "result_out_of_range"}

ArgsTyped ==
  levels \in Seq([price : Raw, size : Raw]) /\ list \in Seq(Raw)

\* Inside the loops the arguments have passed their checks.
Checked ==
  pc \in {"level", "cross", "rest"} =>
    ListValid /\ (kind = "price" => levels # << >> /\ Reference > 0)

\* A threshold is only compared at a valid level.
AtLevel ==
  pc = "cross" => i \in DOMAIN levels /\ is_valid_level(Level.price, Level.size)

\* What was accumulated has not reached the next threshold yet.
Ahead ==
  /\ pc = "begin" => cum_notional = 0
  /\ kind = "volume" /\ pc \in {"level", "cross"} /\ next <= Len(list)
       => cum_notional < list[next]

\* Sums that have not overflowed are not negative.
NonNegative ==
  ~narrowed => cum_size >= 0 /\ cum_notional >= 0 /\ next_cum >= 0

IInv ==
  /\ ArgsTyped /\ TypeOK /\ Checked /\ AtLevel /\ Ahead /\ NonNegative
  /\ WideNeverOverflows

\* The elements of a sequence have the type of its elements.
LEMMA ElementType ==
  ASSUME NEW T, NEW s \in Seq(T), NEW k \in DOMAIN s
  PROVE  s[k] \in T
OBVIOUS

\* A level in reach of the loop is a pair of raw values, and its notional is
\* one; it is not negative, unless it lost bits.
LEMMA LevelFacts ==
  ASSUME IInv, i \in DOMAIN levels
  PROVE  /\ Level.price \in Raw /\ Level.size \in Raw
         /\ Level.price \in Int /\ Level.size \in Int
         /\ LevelNotional \in Raw
         /\ fixed_multiply(Level.price, Level.size) \in Int
         /\ /\ is_valid_level(Level.price, Level.size)
            /\ Fits(fixed_multiply(Level.price, Level.size))
            => LevelNotional >= 0
<1> DEFINE n == fixed_multiply(Level.price, Level.size)
           product == Level.price * Level.size
<1>0. RawMax \in Nat /\ SizeScale \in Nat \ {0}
  BY WidthAssumption
<1>1. Level \in [price : Raw, size : Raw]
  BY ElementType, Zenon DEF IInv, ArgsTyped, Level
<1>2. Level.price \in Raw /\ Level.size \in Raw
  BY <1>1
<1>3. Level.price \in Int /\ Level.size \in Int
  BY <1>0, <1>2 DEF Raw
<1>4. product \in Int
  BY <1>3
<1>5. is_valid_level(Level.price, Level.size) => product >= 0
  <2> DEFINE p == Level.price
             z == Level.size
  <2>1. p \in Int /\ z \in Int
    BY <1>3
  <2>2. p > 0 /\ z >= 0 => p * z >= 0
    <3> HIDE DEF p, z
    <3> QED BY <2>1, Z3
  <2> QED BY <2>2 DEF is_valid_level
<1>6. n = round_div_nearest_away(product, SizeScale)
  BY DEF fixed_multiply
<1>7. n \in Int /\ (product >= 0 => n >= 0)
  <2> HIDE DEF product, n
  <2> QED BY <1>0, <1>4, <1>6, RoundType
<1>8. LevelNotional = Narrow(n)
  BY DEF LevelNotional
<1>9. LevelNotional \in Raw /\ (Fits(n) => LevelNotional = n)
  <2> HIDE DEF n
  <2> QED BY <1>7, <1>8, NarrowType, NarrowId
<1> HIDE DEF n, product
<1> QED BY <1>2, <1>3, <1>5, <1>7, <1>9 DEF n

\* A checked sum.
LEMMA SafeFacts ==
  ASSUME NEW v \in Int
  PROVE  /\ from_raw_safe(v).ok \in BOOLEAN
         /\ from_raw_safe(v).ok => from_raw_safe(v).value = v /\ v \in Raw
         /\ ~from_raw_safe(v).ok => from_raw_safe(v).error \in Errc
BY DEF from_raw_safe, Ok, Error, Fits, Errc

\* While a volume band is computed: what the price of a partial fill is made
\* of stays within the wide type.
LEMMA VwapFacts ==
  ASSUME IInv, pc = "cross", kind = "volume", next \in DOMAIN list
  PROVE  /\ Vwap.ok \in BOOLEAN
         /\ Vwap.ok => Vwap.value \in Int
         /\ ~Vwap.ok => Vwap.error \in Errc
         /\ Vwap.ok /\ ~AtEdge =>
              LET n == vwap_numerator(cum_notional, Remaining, Level.price)
              IN n.value \in Int /\ Abs(n.value) <= WideMax
<1>0. /\ RawMax \in Nat /\ SizeScale \in Nat \ {0}
      /\ i \in DOMAIN levels /\ cum_notional \in Raw /\ cum_size \in Raw
  BY WidthAssumption DEF IInv, AtLevel, TypeOK
<1>1. Level.price \in Raw /\ Level.size \in Raw /\ LevelNotional \in Raw
  BY <1>0, LevelFacts
<1>2. list[next] \in Raw
  BY ElementType, Zenon DEF IInv, ArgsTyped
<1>3. Raw \subseteq Int
  BY <1>0 DEF Raw
<1>4. Remaining \in Raw
  <2>1. list[next] \in Int /\ cum_notional \in Int
    BY <1>0, <1>2, <1>3
  <2>2. list[next] - cum_notional \in Int
    BY <2>1
  <2> QED BY <2>2, NarrowType, Zenon DEF Remaining
<1> DEFINE N == cum_notional
           R == Remaining
           p == Level.price
           z == cum_size
           S == SizeScale
<1>5. N \in Int /\ R \in Int /\ p \in Int /\ z \in Int /\ S \in Nat \ {0}
  BY <1>0, <1>1, <1>3, <1>4
<1>6. CASE AtEdge
  <2> DEFINE nn == Narrow(N + R)
             zz == Narrow(z + Level.size)
  <2>1. nn \in Int /\ zz \in Int
    <3>1. N + R \in Int /\ z + Level.size \in Int
      <4>1. Level.size \in Int
        BY <1>1, <1>3
      <4> HIDE DEF N, R, z
      <4> QED BY <1>5, <4>1
    <3>2. nn \in Raw /\ zz \in Raw
      BY <3>1, NarrowType, Zenon
    <3> QED BY <1>3, <3>2, Zenon
  <2>2. Vwap = fixed_divide(nn, zz)
    BY <1>6 DEF Vwap
  <2>3. nn * S \in Int
    <3> HIDE DEF nn, S
    <3> QED BY <1>5, <2>1
  <2>4. zz > 0 => round_div_nearest_away(nn * S, zz) \in Int
    <3>1. SUFFICES ASSUME zz > 0
                   PROVE  round_div_nearest_away(nn * S, zz) \in Int
      OBVIOUS
    <3>2. zz \in Nat \ {0}
      <4> HIDE DEF zz
      <4> QED BY <2>1, <3>1
    <3> HIDE DEF zz, nn, S
    <3> QED BY <2>3, <3>2, RoundType
  <2>5. fixed_divide(nn, zz) =
          IF zz <= 0 THEN Error("argument_out_of_domain")
          ELSE Ok(round_div_nearest_away(nn * S, zz))
    BY DEF fixed_divide
  <2> HIDE DEF nn, zz, S
  <2> QED BY <1>6, <2>1, <2>2, <2>4, <2>5 DEF Ok, Error, Errc
<1>7. CASE ~AtEdge
  <2> DEFINE product == (N + R) * p
             n == vwap_numerator(N, R, p)
             d == z * p + R * S
  <2>1. product \in Int /\ d \in Int /\ product * S \in Int
    <3> HIDE DEF N, R, p, z, S
    <3> QED BY <1>5
  <2>2. n = IF Abs(product) > WideMax \div S THEN Error("result_out_of_range")
            ELSE Ok(product * S)
    BY DEF vwap_numerator
  <2>3. ~(Abs(product) > WideMax \div S) => Abs(product * S) <= WideMax
    <3>1. WideMax \div SizeScale \in Int /\ Abs(product) \in Int
      <4>1. WideMax \div SizeScale \in Int
        BY WidthAssumption, Z3
      <4>2. Abs(product) \in Int
        <5> HIDE DEF product
        <5> QED BY <2>1 DEF Abs
      <4> QED BY <4>1, <4>2
    <3> HIDE DEF product
    <3> QED BY <2>1, <3>1, GuardSuffices
  <2>4. n.ok => n.value \in Int /\ Abs(n.value) <= WideMax
    <3> HIDE DEF product, S, n
    <3> QED BY <2>1, <2>2, <2>3 DEF Ok, Error
  <2>5. n.ok \in BOOLEAN /\ (~n.ok => n.error \in Errc)
    <3> HIDE DEF product, S, n
    <3> QED BY <2>2 DEF Ok, Error, Errc
  <2>6. Vwap = IF p <= 0 THEN Error("argument_out_of_domain")
               ELSE IF ~n.ok THEN n
               ELSE IF d <= 0 THEN Error("argument_out_of_domain")
               ELSE Ok(round_div_nearest_away(n.value, d))
    BY <1>7 DEF Vwap, vwap_at_partial_fill
  <2>7. n.ok /\ d > 0 => round_div_nearest_away(n.value, d) \in Int
    <3>1. SUFFICES ASSUME n.ok, d > 0
                   PROVE  round_div_nearest_away(n.value, d) \in Int
      OBVIOUS
    <3>2. d \in Nat \ {0}
      <4> HIDE DEF d
      <4> QED BY <2>1, <3>1
    <3>3. n.value \in Int
      BY <2>4, <3>1
    <3> HIDE DEF d, n
    <3> QED BY <3>2, <3>3, RoundType
  <2> HIDE DEF n, d, p
  <2>8. Vwap.ok => n.ok
    BY <2>5, <2>6 DEF Ok, Error
  <2>9. Vwap.ok \in BOOLEAN
    BY <2>5, <2>6 DEF Ok, Error
  <2>10. Vwap.ok => Vwap.value \in Int
    BY <2>1, <2>6, <2>7, <2>8 DEF Ok, Error
  <2>11. ~Vwap.ok => Vwap.error \in Errc
    BY <2>5, <2>6 DEF Ok, Error, Errc
  <2>12. Vwap.ok => n.value \in Int /\ Abs(n.value) <= WideMax
    BY <2>4, <2>8
  <2> QED BY <2>9, <2>10, <2>11, <2>12, Zenon DEF n, p
<1> QED BY <1>6, <1>7

\* A call that fails keeps nothing, which satisfies everything.
LEMMA FailKeeps ==
  ASSUME IInv, NEW errc \in Errc, Fail(errc)
  PROVE  IInv'
<1>1. /\ pc' = "done" /\ error' = errc /\ result' = << >>
      /\ UNCHANGED << kind, side, levels, list, i, next, cum_size,
                      cum_notional, next_cum, narrowed, numerator >>
  BY DEF Fail, argVars, sumVars
<1>2. TypeOK'
  BY <1>1 DEF IInv, TypeOK, Errc
<1>3. ArgsTyped' /\ Checked' /\ AtLevel' /\ Ahead'
  BY <1>1 DEF IInv, ArgsTyped, Checked, AtLevel, Ahead
<1>4. NonNegative' /\ WideNeverOverflows'
  BY <1>1 DEF IInv, NonNegative, WideNeverOverflows, Abs
<1> QED BY <1>2, <1>3, <1>4 DEF IInv

\* So does a price band that is pushed, inside the loop or after it.
LEMMA PushKeeps ==
  ASSUME IInv, pc \in {"cross", "rest"}, kind = "price", next <= Len(list),
         PushPriceBand
  PROVE  IInv'
<1> DEFINE b == round_inner(side, Reference, list[next])
           boundary == from_raw_safe(b)
<1>0. /\ list \in Seq(Raw) /\ next \in 1 .. Len(list) + 1
      /\ RawMax \in Nat /\ kBpsDenominator \in Nat \ {0}
      /\ levels # << >> /\ levels \in Seq([price : Raw, size : Raw])
  BY WidthAssumption, BandsAssumption DEF IInv, ArgsTyped, TypeOK, Checked
<1>1. next \in DOMAIN list
  BY <1>0
<1>2. list[next] \in Raw
  BY <1>0, <1>1, ElementType, Zenon
<1>3. Reference \in Raw
  <2>1. 1 \in DOMAIN levels
    BY <1>0
  <2>2. levels[1] \in [price : Raw, size : Raw]
    BY <1>0, <2>1, ElementType, Zenon
  <2> QED BY <2>2 DEF Reference
<1>4. b \in Int
  <2> DEFINE f == Factor(side, list[next])
             r == Reference
             scaled == r * f
             k == kBpsDenominator
  <2>1. f \in Int /\ r \in Int
    BY <1>0, <1>2, <1>3 DEF Factor, Signed, Raw
  <2>2. scaled \in Int
    <3> HIDE DEF f, r
    <3> QED BY <2>1
  <2>3. scaled \div k \in Int /\ (scaled + k - 1) \div k \in Int
    <3>1. k \in Nat \ {0}
      BY <1>0
    <3>2. scaled + k - 1 \in Int
      <4> HIDE DEF scaled, k
      <4> QED BY <2>2, <3>1
    <3> HIDE DEF scaled, k
    <3> QED BY <2>2, <3>1, <3>2, Z3
  <2>4. b = IF side = "ask" THEN scaled \div k ELSE (scaled + k - 1) \div k
    BY DEF round_inner
  <2> HIDE DEF b, scaled, k
  <2> QED BY <2>3, <2>4
<1>5. /\ boundary.ok \in BOOLEAN
      /\ boundary.ok => boundary.value \in Raw
      /\ ~boundary.ok => boundary.error \in Errc
  <2> HIDE DEF b
  <2> QED BY <1>4, SafeFacts
<1>6. CASE ~boundary.ok
  <2>1. Fail(boundary.error)
    BY <1>6 DEF PushPriceBand
  <2> HIDE DEF boundary
  <2> QED BY <1>5, <1>6, <2>1, FailKeeps
<1>7. CASE boundary.ok
  <2> DEFINE band == [bps |-> list[next], boundary_price |-> boundary.value,
                      cumulative_size |-> cum_size,
                      cumulative_notional |-> cum_notional]
  <2>1. /\ result' = Append(result, band)
        /\ next' = next + 1
        /\ UNCHANGED << kind, side, levels, list, pc, i, cum_size,
                        cum_notional, next_cum, narrowed, error, numerator >>
    BY <1>7 DEF PushPriceBand, argVars, sumVars
  <2>2. band \in PriceBand
    <3>1. cum_size \in Raw /\ cum_notional \in Raw
      BY DEF IInv, TypeOK
    <3> HIDE DEF boundary
    <3> QED BY <1>2, <1>5, <1>7, <3>1 DEF PriceBand
  <2>3. TypeOK'
    <3>1. next' \in 1 .. Len(list') + 1
      BY <1>0, <1>1, <2>1
    <3>2. result \in Seq(PriceBand)
      BY DEF IInv, TypeOK
    <3>3. result' \in Seq(PriceBand)
      <4> HIDE DEF band
      <4> QED BY <2>1, <2>2, <3>2
    <3> HIDE DEF band
    <3> QED BY <2>1, <3>1, <3>3 DEF IInv, TypeOK
  <2> HIDE DEF band
  <2>4. ArgsTyped' /\ Ahead'
    BY <2>1 DEF IInv, ArgsTyped, Ahead
  <2>5. Checked' /\ AtLevel'
    BY <2>1 DEF IInv, Checked, AtLevel, ListValid, Reference, Level
  <2>6. NonNegative' /\ WideNeverOverflows'
    BY <2>1 DEF IInv, NonNegative, WideNeverOverflows, Abs
  <2> QED BY <2>3, <2>4, <2>5, <2>6 DEF IInv
<1> QED BY <1>5, <1>6, <1>7

-----------------------------------------------------------------------------
(* The actions.                                                            *)

\* Steps that only move the program counter.
LEMMA MoveKeeps ==
  ASSUME IInv,
         UNCHANGED << argVars, i, next, sumVars, result, error, numerator >>,
         \/ EmptySide \/ Enter \/ EnterPriceLevel \/ StopWalking \/ LevelsEnd
         \/ Return
  PROVE  IInv'
<1>0. UNCHANGED << kind, side, levels, list, i, next, cum_size, cum_notional,
                   next_cum, narrowed, result, error, numerator >>
  BY DEF argVars, sumVars
<1>1. ArgsTyped' /\ NonNegative' /\ WideNeverOverflows'
  BY <1>0 DEF IInv, ArgsTyped, NonNegative, WideNeverOverflows, Abs
<1>2. TypeOK'
  <2>1. pc' \in {"begin", "level", "cross", "rest", "done"}
    BY DEF EmptySide, Enter, EnterPriceLevel, StopWalking, LevelsEnd, Return
  <2> QED BY <1>0, <2>1 DEF IInv, TypeOK
<1>3. Checked'
  BY <1>0 DEF IInv, Checked, ListValid, Reference, EmptySide, Enter,
              EnterPriceLevel, InLoop, StopWalking, LevelsEnd, Return
<1>4. AtLevel'
  BY <1>0 DEF IInv, AtLevel, Level, EmptySide, Enter, EnterPriceLevel, InLoop,
              StopWalking, LevelsEnd, Return
<1>5. Ahead'
  <2>1. pc' # "begin"
    BY DEF EmptySide, Enter, EnterPriceLevel, StopWalking, LevelsEnd, Return
  <2>2. ASSUME kind = "volume", pc' \in {"level", "cross"}, next <= Len(list)
        PROVE  cum_notional < list[next]
    <3>1. Enter
      BY <2>2 DEF EmptySide, Enter, EnterPriceLevel, StopWalking, LevelsEnd,
                  Return
    <3>2. cum_notional = 0
      BY <3>1 DEF Enter, IInv, Ahead
    <3>3. \A n \in DOMAIN list : list[n] > 0
      BY <2>2, <3>1 DEF Enter, ListValid, volume_thresholds_valid
    <3>4. next \in DOMAIN list
      BY <2>2 DEF IInv, ArgsTyped, TypeOK
    <3>5. list[next] \in Int
      BY <3>4, WidthAssumption DEF IInv, ArgsTyped, Raw
    <3> QED BY <3>2, <3>3, <3>4, <3>5
  <2> QED BY <1>0, <2>1, <2>2 DEF Ahead
<1> QED BY <1>1, <1>2, <1>3, <1>4, <1>5 DEF IInv

\* A level enters the walk of a volume list: its sum is checked.
LEMMA EnterVolumeKeeps ==
  ASSUME IInv, EnterVolumeLevel
  PROVE  IInv'
<1> DEFINE v == cum_notional + LevelNotional
           sum == from_raw_safe(v)
           lost == ~Fits(fixed_multiply(Level.price, Level.size))
<1>0. /\ pc = "level" /\ i \in DOMAIN levels /\ kind = "volume"
      /\ is_valid_level(Level.price, Level.size)
      /\ cum_notional \in Raw /\ RawMax \in Nat
  BY WidthAssumption DEF EnterVolumeLevel, InLoop, IInv, TypeOK
<1>1. LevelNotional \in Raw /\ (~lost => LevelNotional >= 0)
  BY <1>0, LevelFacts
<1>2. v \in Int
  BY <1>0, <1>1 DEF Raw
<1>3. /\ sum.ok \in BOOLEAN
      /\ sum.ok => sum.value = v /\ v \in Raw
      /\ ~sum.ok => sum.error \in Errc
  <2> HIDE DEF v
  <2> QED BY <1>2, SafeFacts
<1>4. CASE ~sum.ok
  <2>1. Fail(sum.error)
    BY <1>4 DEF EnterVolumeLevel
  <2> HIDE DEF sum
  <2> QED BY <1>3, <1>4, <2>1, FailKeeps
<1>5. CASE sum.ok
  <2>1. /\ next_cum' = v /\ narrowed' = (narrowed \/ lost) /\ pc' = "cross"
        /\ UNCHANGED << kind, side, levels, list, i, next, cum_size,
                        cum_notional, result, error, numerator >>
    <3>1. next_cum' = sum.value
      BY <1>5 DEF EnterVolumeLevel
    <3>2. next_cum' = v
      <4> HIDE DEF sum, v
      <4> QED BY <1>3, <1>5, <3>1
    <3> QED BY <1>5, <3>2 DEF EnterVolumeLevel, argVars
  <2>2. next_cum' \in Raw
    <3> HIDE DEF v, sum
    <3> QED BY <1>3, <1>5, <2>1
  <2>3. NonNegative'
    <3>1. ~narrowed' => ~narrowed /\ ~lost
      <4> HIDE DEF lost
      <4> QED BY <2>1
    <3>2. ~narrowed' => v >= 0
      <4> HIDE DEF lost
      <4> QED BY <1>0, <1>1, <3>1 DEF IInv, NonNegative, Raw
    <3> HIDE DEF v, lost
    <3> QED BY <2>1, <3>1, <3>2 DEF IInv, NonNegative
  <2> HIDE DEF v, lost, sum
  <2>4. TypeOK'
    <3>1. narrowed' \in BOOLEAN
      BY <2>1 DEF IInv, TypeOK
    <3> QED BY <2>1, <2>2, <3>1 DEF IInv, TypeOK
  <2>5. ArgsTyped' /\ WideNeverOverflows'
    BY <2>1 DEF IInv, ArgsTyped, WideNeverOverflows, Abs
  <2>6. Checked' /\ Ahead'
    BY <1>0, <2>1 DEF IInv, Checked, Ahead, ListValid, Reference
  <2>7. AtLevel'
    BY <1>0, <2>1 DEF AtLevel, Level
  <2> QED BY <2>3, <2>4, <2>5, <2>6, <2>7 DEF IInv
<1> QED BY <1>3, <1>4, <1>5

\* A level joins the depth of a price list.
LEMMA AddPriceKeeps ==
  ASSUME IInv, AddPriceLevel
  PROVE  IInv'
<1> DEFINE v == cum_notional + LevelNotional
           w == cum_size + Level.size
           sum == from_raw_safe(v)
           lost == ~Fits(w) \/ ~Fits(fixed_multiply(Level.price, Level.size))
<1>0. /\ pc = "cross" /\ kind = "price" /\ i \in DOMAIN levels
      /\ is_valid_level(Level.price, Level.size)
      /\ cum_notional \in Raw /\ cum_size \in Raw /\ RawMax \in Nat
  BY WidthAssumption DEF AddPriceLevel, IInv, AtLevel, TypeOK
<1>1. /\ LevelNotional \in Raw /\ (~lost => LevelNotional >= 0)
      /\ Level.size \in Int /\ Level.size >= 0
  BY <1>0, LevelFacts DEF is_valid_level
<1>2. v \in Int /\ w \in Int
  BY <1>0, <1>1 DEF Raw
<1>3. /\ sum.ok \in BOOLEAN
      /\ sum.ok => sum.value = v /\ v \in Raw
      /\ ~sum.ok => sum.error \in Errc
  <2> HIDE DEF v
  <2> QED BY <1>2, SafeFacts
<1>4. Narrow(w) \in Raw /\ (~lost => Narrow(w) = w)
  <2> HIDE DEF w
  <2> QED BY <1>2, NarrowType, NarrowId
<1>5. CASE ~sum.ok
  <2>1. Fail(sum.error)
    BY <1>5 DEF AddPriceLevel
  <2> HIDE DEF sum
  <2> QED BY <1>3, <1>5, <2>1, FailKeeps
<1>6. CASE sum.ok
  <2>1. /\ cum_size' = Narrow(w) /\ cum_notional' = v
        /\ narrowed' = (narrowed \/ lost) /\ pc' = "level" /\ i' = i + 1
        /\ UNCHANGED << kind, side, levels, list, next, next_cum, result,
                        error, numerator >>
    <3>1. cum_notional' = sum.value
      BY <1>6 DEF AddPriceLevel
    <3>2. cum_notional' = v
      <4> HIDE DEF sum, v
      <4> QED BY <1>3, <1>6, <3>1
    <3>3. narrowed' = (narrowed \/ lost)
      BY <1>6 DEF AddPriceLevel
    <3> QED BY <1>6, <3>2, <3>3 DEF AddPriceLevel, argVars
  <2>2. cum_notional' \in Raw /\ cum_size' \in Raw
    <3> HIDE DEF v, w, sum
    <3> QED BY <1>3, <1>4, <1>6, <2>1
  <2>3. NonNegative'
    <3>1. ~narrowed' => ~narrowed /\ ~lost
      <4> HIDE DEF lost
      <4> QED BY <2>1
    <3>2. ~narrowed' => v >= 0 /\ w >= 0
      <4> HIDE DEF lost
      <4> QED BY <1>0, <1>1, <3>1 DEF IInv, NonNegative, Raw
    <3> HIDE DEF v, w, lost
    <3> QED BY <1>4, <2>1, <3>1, <3>2 DEF IInv, NonNegative
  <2>4. i' \in 1 .. Len(levels') + 1
    BY <1>0, <2>1 DEF IInv, ArgsTyped
  <2> HIDE DEF v, w, lost, sum
  <2>5. TypeOK'
    <3>1. narrowed' \in BOOLEAN
      BY <2>1 DEF IInv, TypeOK
    <3> QED BY <2>1, <2>2, <2>4, <3>1 DEF IInv, TypeOK
  <2>6. ArgsTyped' /\ WideNeverOverflows'
    BY <2>1 DEF IInv, ArgsTyped, WideNeverOverflows, Abs
  <2>7. Checked' /\ Ahead' /\ AtLevel'
    BY <1>0, <2>1 DEF IInv, Checked, Ahead, AtLevel, ListValid, Reference
  <2> QED BY <2>3, <2>5, <2>6, <2>7 DEF IInv
<1> QED BY <1>3, <1>5, <1>6

\* A level is left behind by a volume list: no threshold is left within it.
LEMMA AddVolumeKeeps ==
  ASSUME IInv, AddVolumeLevel
  PROVE  IInv'
<1> DEFINE w == cum_size + Level.size
           lost == ~Fits(w)
<1>0. /\ pc = "cross" /\ kind = "volume" /\ i \in DOMAIN levels
      /\ is_valid_level(Level.price, Level.size)
      /\ next_cum \in Raw /\ cum_size \in Raw /\ RawMax \in Nat
  BY WidthAssumption DEF AddVolumeLevel, IInv, AtLevel, TypeOK
<1>1. Level.size \in Int /\ Level.size >= 0
  BY <1>0, LevelFacts DEF is_valid_level
<1>2. w \in Int
  BY <1>0, <1>1 DEF Raw
<1>3. Narrow(w) \in Raw /\ (~lost => Narrow(w) = w)
  <2> HIDE DEF w
  <2> QED BY <1>2, NarrowType, NarrowId
<1>4. /\ cum_size' = Narrow(w) /\ cum_notional' = next_cum
      /\ narrowed' = (narrowed \/ lost) /\ pc' = "level" /\ i' = i + 1
      /\ UNCHANGED << kind, side, levels, list, next, next_cum, result, error,
                      numerator >>
  BY DEF AddVolumeLevel, argVars
<1>5. NonNegative'
  <2>1. ~narrowed' => ~narrowed /\ ~lost
    <3> HIDE DEF lost
    <3> QED BY <1>4
  <2>2. ~narrowed' => w >= 0
    <3> HIDE DEF lost
    <3> QED BY <1>0, <1>1, <2>1 DEF IInv, NonNegative, Raw
  <2> HIDE DEF w, lost
  <2> QED BY <1>3, <1>4, <2>1, <2>2 DEF IInv, NonNegative
<1>6. i' \in 1 .. Len(levels') + 1
  BY <1>0, <1>4 DEF IInv, ArgsTyped
<1> HIDE DEF w, lost
<1>7. TypeOK'
  <2>1. narrowed' \in BOOLEAN
    BY <1>4 DEF IInv, TypeOK
  <2> QED BY <1>0, <1>3, <1>4, <1>6, <2>1 DEF IInv, TypeOK
<1>8. ArgsTyped' /\ WideNeverOverflows'
  BY <1>4 DEF IInv, ArgsTyped, WideNeverOverflows, Abs
<1>9. Checked' /\ AtLevel'
  BY <1>0, <1>4 DEF IInv, Checked, AtLevel, ListValid, Reference
<1>10. Ahead'
  <2>1. ASSUME next <= Len(list)
        PROVE  next_cum < list[next]
    <3>1. ~(next_cum >= list[next])
      BY <2>1 DEF AddVolumeLevel, Reached
    <3>2. next \in DOMAIN list
      BY <2>1 DEF IInv, ArgsTyped, TypeOK
    <3>3. list[next] \in Int /\ next_cum \in Int
      BY <1>0, <3>2 DEF IInv, ArgsTyped, Raw
    <3> QED BY <3>1, <3>3
  <2> QED BY <1>4, <2>1 DEF Ahead
<1> QED BY <1>5, <1>7, <1>8, <1>9, <1>10 DEF IInv

\* A threshold is crossed: the next one is no smaller.
LEMMA CrossVolumeKeeps ==
  ASSUME IInv, CrossVolume
  PROVE  IInv'
<1>0. /\ pc = "cross" /\ kind = "volume" /\ next <= Len(list)
      /\ list \in Seq(Raw) /\ next \in 1 .. Len(list) + 1
      /\ cum_notional \in Raw /\ Raw \subseteq Int
  BY WidthAssumption DEF CrossVolume, IInv, ArgsTyped, TypeOK, Raw
<1>1. next \in DOMAIN list
  BY <1>0
<1>2. list[next] \in Raw
  BY <1>0, <1>1, ElementType, Zenon
<1>3. /\ Vwap.ok \in BOOLEAN
      /\ Vwap.ok => Vwap.value \in Int
      /\ ~Vwap.ok => Vwap.error \in Errc
  BY <1>0, <1>1, VwapFacts
<1> DEFINE n == vwap_numerator(cum_notional, Remaining, Level.price)
<1>4. Vwap.ok /\ ~AtEdge => n.value \in Int /\ Abs(n.value) <= WideMax
  BY <1>0, <1>1, VwapFacts
<1>5. CASE ~Vwap.ok
  <2>1. Fail(Vwap.error)
    BY <1>5 DEF CrossVolume
  <2> QED BY <1>3, <1>5, <2>1, FailKeeps
<1>6. CASE Vwap.ok
  <2> DEFINE band == [notional_threshold |-> list[next],
                      vwap |-> << Narrow(Vwap.value) >>,
                      filled_notional |-> list[next]]
             lost == \/ ~Fits(Vwap.value) \/ ~Fits(list[next] - cum_notional)
                     \/ AtEdge /\ ~Fits(cum_size + Level.size)
  <2>1. /\ result' = Append(result, band)
        /\ numerator' = IF AtEdge THEN numerator ELSE n.value
        /\ narrowed' = (narrowed \/ lost)
        /\ next' = next + 1
        /\ UNCHANGED << kind, side, levels, list, pc, i, cum_size,
                        cum_notional, next_cum, error >>
    BY <1>6, Zenon DEF CrossVolume, argVars
  <2>2. band \in VolumeBand
    <3>1. Narrow(Vwap.value) \in Raw
      BY <1>3, <1>6, NarrowType
    <3> DEFINE r == Narrow(Vwap.value)
    <3> HIDE DEF r
    <3>2. << r >> \in {<< >>} \cup {<< x >> : x \in Raw}
      BY <3>1 DEF r
    <3> QED BY <1>2, <3>2 DEF VolumeBand, r
  <2>3. numerator' \in Int /\ Abs(numerator') <= WideMax
    <3> HIDE DEF n
    <3> QED BY <1>4, <1>6, <2>1 DEF IInv, TypeOK, WideNeverOverflows
  <2>4. TypeOK'
    <3>1. next' \in 1 .. Len(list') + 1
      BY <1>0, <1>1, <2>1
    <3>2. result \in Seq(VolumeBand)
      BY <1>0 DEF IInv, TypeOK
    <3>3. result' \in Seq(VolumeBand)
      <4> HIDE DEF band
      <4> QED BY <2>1, <2>2, <3>2
    <3>4. narrowed' \in BOOLEAN
      <4> HIDE DEF lost
      <4> QED BY <2>1 DEF IInv, TypeOK
    <3> HIDE DEF band, lost
    <3> QED BY <1>0, <2>1, <2>3, <3>1, <3>3, <3>4 DEF IInv, TypeOK
  <2> HIDE DEF band, lost, n
  <2>5. Ahead'
    <3>1. ASSUME next + 1 <= Len(list)
          PROVE  cum_notional < list[next + 1]
      <4>1. cum_notional < list[next]
        BY <1>0 DEF IInv, Ahead
      <4>2. next + 1 \in DOMAIN list /\ next <= next + 1
        BY <1>0, <3>1
      <4>3. is_sorted(list)
        BY <1>0 DEF IInv, Checked, ListValid, volume_thresholds_valid
      <4>4. list[next] <= list[next + 1]
        BY <1>1, <4>2, <4>3 DEF is_sorted
      <4>5. list[next + 1] \in Raw
        BY <1>0, <4>2, ElementType, Zenon
      <4> DEFINE a == list[next]
                 b == list[next + 1]
      <4>6. a \in Int /\ b \in Int /\ cum_notional \in Int
        BY <1>0, <1>2, <4>5, Zenon
      <4>7. cum_notional < a /\ a <= b
        BY <4>1, <4>4
      <4> HIDE DEF a, b
      <4>8. cum_notional < b
        BY <4>6, <4>7
      <4> QED BY <4>8 DEF b
    <3> QED BY <1>0, <2>1, <3>1 DEF Ahead
  <2>6. ArgsTyped' /\ WideNeverOverflows'
    BY <2>1, <2>3 DEF IInv, ArgsTyped, WideNeverOverflows, Abs
  <2>7. Checked' /\ AtLevel'
    BY <2>1 DEF IInv, Checked, AtLevel, ListValid, Reference, Level
  <2>8. NonNegative'
    BY <2>1 DEF IInv, NonNegative
  <2> QED BY <2>4, <2>5, <2>6, <2>7, <2>8 DEF IInv
<1> QED BY <1>3, <1>5, <1>6

\* The thresholds that the book is too thin for.
LEMMA RestVolumeKeeps ==
  ASSUME IInv, RestOfVolume
  PROVE  IInv'
<1> DEFINE band == [notional_threshold |-> list[next], vwap |-> << >>,
                    filled_notional |-> cum_notional]
<1>0. /\ pc = "rest" /\ kind = "volume" /\ next <= Len(list)
      /\ list \in Seq(Raw) /\ next \in 1 .. Len(list) + 1
      /\ cum_notional \in Raw
  BY DEF RestOfVolume, IInv, ArgsTyped, TypeOK
<1>1. next \in DOMAIN list
  BY <1>0
<1>2. band \in VolumeBand
  <2>1. list[next] \in Raw
    BY <1>0, <1>1, ElementType, Zenon
  <2> QED BY <1>0, <2>1 DEF VolumeBand
<1>3. /\ result' = Append(result, band) /\ next' = next + 1
      /\ UNCHANGED << kind, side, levels, list, pc, i, cum_size, cum_notional,
                      next_cum, narrowed, error, numerator >>
  BY DEF RestOfVolume, argVars, sumVars
<1>4. TypeOK'
  <2>1. next' \in 1 .. Len(list') + 1
    BY <1>0, <1>1, <1>3
  <2>2. result \in Seq(VolumeBand)
    BY <1>0 DEF IInv, TypeOK
  <2>3. result' \in Seq(VolumeBand)
    <3> HIDE DEF band
    <3> QED BY <1>2, <1>3, <2>2
  <2> HIDE DEF band
  <2> QED BY <1>0, <1>3, <2>1, <2>3 DEF IInv, TypeOK
<1> HIDE DEF band
<1>5. ArgsTyped' /\ Ahead' /\ AtLevel'
  BY <1>0, <1>3 DEF IInv, ArgsTyped, Ahead, AtLevel
<1>6. Checked'
  BY <1>3 DEF IInv, Checked, ListValid, Reference
<1>7. NonNegative' /\ WideNeverOverflows'
  BY <1>3 DEF IInv, NonNegative, WideNeverOverflows, Abs
<1> QED BY <1>4, <1>5, <1>6, <1>7 DEF IInv

-----------------------------------------------------------------------------
(* The theorems.                                                           *)

\* A call begins, for any levels and list of raw values.
NewCall ==
  /\ kind \in {"price", "volume"} /\ side \in {"bid", "ask"} /\ ArgsTyped
  /\ Called(kind, side, levels, list)

LEMMA InitNewCall == Init => NewCall
<1> SUFFICES ASSUME NEW k \in {"price", "volume"}, NEW s \in {"bid", "ask"},
                    NEW ls \in Sides, NEW l \in Lists, Called(k, s, ls, l)
             PROVE  NewCall
  BY DEF Init
<1>1. ls \in Seq([price : Raw, size : Raw]) /\ l \in Seq(Raw)
  BY BandsAssumption, Zenon
<1> QED BY <1>1 DEF NewCall, Called, ArgsTyped

\* A call starts in the invariant.
LEMMA NewCallIInv == NewCall => IInv
<1> SUFFICES ASSUME NewCall PROVE IInv
  OBVIOUS
<1>1. kind \in {"price", "volume"} /\ side \in {"bid", "ask"}
  BY DEF NewCall
<1>2. levels \in Seq([price : Raw, size : Raw]) /\ list \in Seq(Raw)
  BY DEF NewCall, ArgsTyped
<1>3. /\ pc = "begin" /\ i = 1 /\ next = 1
      /\ cum_size = 0 /\ cum_notional = 0 /\ next_cum = 0
      /\ result = << >> /\ error = "none"
      /\ numerator = 0 /\ narrowed = FALSE
  BY DEF NewCall, Called
<1>4. ArgsTyped
  BY <1>2 DEF ArgsTyped
<1>5. 0 \in Raw /\ RawMax \in Nat /\ WideMax \in Nat
  BY WidthAssumption DEF Raw
<1>6. TypeOK
  <2>1. Len(levels) \in Nat /\ Len(list) \in Nat
    BY <1>2
  <2>2. i \in 1 .. Len(levels) + 1 /\ next \in 1 .. Len(list) + 1
    BY <1>3, <2>1
  <2>3. result \in Seq(IF kind = "price" THEN PriceBand ELSE VolumeBand)
    BY <1>3
  <2>4. /\ kind \in {"price", "volume"} /\ side \in {"bid", "ask"}
        /\ {cum_size, cum_notional, next_cum} \subseteq Raw
    BY <1>1, <1>3, <1>5
  <2>5. narrowed \in BOOLEAN
    BY <1>3, Zenon
  <2>6. numerator \in Int
    BY <1>3
  <2> QED BY <1>3, <2>2, <2>3, <2>4, <2>5, <2>6, Zenon DEF TypeOK
<1>7. Checked /\ AtLevel /\ Ahead
  BY <1>3 DEF Checked, AtLevel, Ahead
<1>8. NonNegative /\ WideNeverOverflows
  BY <1>3, <1>5 DEF NonNegative, WideNeverOverflows, Abs
<1> QED BY <1>4, <1>6, <1>7, <1>8 DEF IInv

\* Every step keeps it.
LEMMA StepKeepsIInv == IInv /\ [Step]_vars => IInv'
<1> SUFFICES ASSUME IInv, [Step]_vars
             PROVE  IInv'
  OBVIOUS
<1>1. CASE RejectList
  BY <1>1, FailKeeps DEF RejectList, Errc
<1>2. CASE RejectReference
  BY <1>2, FailKeeps DEF RejectReference, Errc
<1>3. CASE RejectLevel
  BY <1>3, FailKeeps DEF RejectLevel, Errc
<1>4. CASE EmptySide
  BY <1>4, MoveKeeps DEF EmptySide
<1>5. CASE Enter
  BY <1>5, MoveKeeps DEF Enter
<1>6. CASE EnterPriceLevel
  BY <1>6, MoveKeeps DEF EnterPriceLevel
<1>7. CASE StopWalking
  BY <1>7, MoveKeeps DEF StopWalking
<1>8. CASE LevelsEnd
  BY <1>8, MoveKeeps DEF LevelsEnd
<1>9. CASE Return
  BY <1>9, MoveKeeps DEF Return
<1>10. CASE EnterVolumeLevel
  BY <1>10, EnterVolumeKeeps
<1>11. CASE CrossPrice
  BY <1>11, PushKeeps DEF CrossPrice
<1>12. CASE RestOfPrice
  BY <1>12, PushKeeps DEF RestOfPrice
<1>13. CASE AddPriceLevel
  BY <1>13, AddPriceKeeps
<1>14. CASE CrossVolume
  BY <1>14, CrossVolumeKeeps
<1>15. CASE AddVolumeLevel
  BY <1>15, AddVolumeKeeps
<1>16. CASE RestOfVolume
  BY <1>16, RestVolumeKeeps
<1>17. CASE UNCHANGED vars
  <2>1. UNCHANGED << kind, side, levels, list, pc, i, next, cum_size,
                     cum_notional, next_cum, narrowed, result, error,
                     numerator >>
    BY <1>17 DEF vars, argVars, sumVars
  <2> QED BY <2>1 DEF IInv, ArgsTyped, TypeOK, Checked, ListValid, Reference,
                      AtLevel, Level, Ahead, NonNegative, WideNeverOverflows
<1> QED
  BY <1>1, <1>2, <1>3, <1>4, <1>5, <1>6, <1>7, <1>8, <1>9, <1>10, <1>11,
     <1>12, <1>13, <1>14, <1>15, <1>16, <1>17
     DEF Step

\* The invariant is one of every call.
LEMMA Invariance == Spec => []IInv
BY InitNewCall, NewCallIInv, StepKeepsIInv, PTL DEF Spec

\* What is left of a threshold that is crossed is positive: the sum before
\* the level had not reached it, and their difference fits.
LEMMA IInvAsserts == IInv => AssertsHold
<1> SUFFICES ASSUME IInv, pc \in {"cross", "rest"}, next <= Len(list)
             PROVE  /\ kind = "price" =>
                         Reference > 0 /\ Factor(side, list[next]) > 0
                    /\ kind = "volume" /\ pc = "cross"
                         /\ next_cum >= list[next] /\ ~narrowed
                         => Remaining > 0 /\ Level.price > 0 /\ cum_size >= 0
  BY DEF AssertsHold
<1>1. /\ list \in Seq(Raw) /\ next \in DOMAIN list /\ side \in {"bid", "ask"}
      /\ cum_notional \in Raw /\ RawMax \in Nat /\ kBpsDenominator \in Nat \ {0}
  BY WidthAssumption, BandsAssumption DEF IInv, ArgsTyped, TypeOK
<1>2. list[next] \in Raw
  BY <1>1, ElementType, Zenon
<1> DEFINE t == list[next]
<1>3. t \in Int /\ t >= -RawMax - 1 /\ t <= RawMax
  BY <1>1, <1>2 DEF Raw
<1>4. ASSUME kind = "price"
      PROVE  Reference > 0 /\ Factor(side, t) > 0
  <2>1. Reference > 0 /\ bps_thresholds_valid(side, list)
    BY <1>4 DEF IInv, Checked, ListValid
  <2>2. t >= 0 /\ (side = "bid" => t < kBpsDenominator)
    BY <1>1, <2>1 DEF bps_thresholds_valid
  <2> HIDE DEF t
  <2> QED BY <1>1, <1>3, <2>1, <2>2 DEF Factor, Signed
<1>5. ASSUME kind = "volume", pc = "cross", ~narrowed
      PROVE  Remaining > 0 /\ Level.price > 0 /\ cum_size >= 0
  <2>1. cum_notional < t /\ cum_notional >= 0 /\ cum_size >= 0
    BY <1>5 DEF IInv, Ahead, NonNegative
  <2>2. Level.price > 0
    BY <1>5 DEF IInv, AtLevel, is_valid_level
  <2>3. cum_notional \in Int
    BY <1>1 DEF Raw
  <2> DEFINE d == t - cum_notional
  <2>4. d \in Int /\ d > 0 /\ Fits(d)
    <3> HIDE DEF t
    <3> QED BY <1>1, <1>3, <2>1, <2>3 DEF Fits, Raw
  <2>5. Remaining = Narrow(d)
    BY DEF Remaining
  <2>6. Narrow(d) = d
    <3> HIDE DEF d
    <3> QED BY <2>4, NarrowId
  <2> HIDE DEF d
  <2> QED BY <2>1, <2>2, <2>4, <2>5, <2>6
<1> QED BY <1>4, <1>5

\* Types: for every book, list and width, every stored sum and every band of
\* a result is a value of std::int64_t.
THEOREM BandsTypeCorrect == Spec => []TypeOK
BY Invariance, PTL DEF IInv

\* No precondition that offset_by_bps, within_bps or vwap_at_partial_fill only
\* assert is ever violated by the walk that calls them.
THEOREM BandsAssertsHold == Spec => []AssertsHold
BY Invariance, IInvAsserts, PTL

\* The guard of vwap_at_partial_fill keeps the triple product within __int128,
\* for every width and scale.
THEOREM BandsNeverOverflow == Spec => []WideNeverOverflows
BY Invariance, PTL DEF IInv

-----------------------------------------------------------------------------
(* Price bands are exact: the arithmetic.                                  *)

\* Division rounds down.
LEMMA DivFloor ==
  ASSUME NEW n \in Int, NEW d \in Nat \ {0}
  PROVE  /\ n \div d \in Int
         /\ (n \div d) * d <= n /\ n < (n \div d) * d + d
BY Z3

\* Both tests of a price against a band say the same, although one of them
\* compares with the product of the reference and the factor.
LEMMA WithinIsInBand ==
  ASSUME NEW D \in Nat \ {0}, NEW r \in Int, NEW p \in Int, NEW b \in Int
  PROVE  /\ (p - r) * D <= r * b <=> p * D <= r * (D + b)
         /\ (r - p) * D <= r * b <=> p * D >= r * (D + (-b))
<1>1. /\ (p - r) * D = p * D - r * D /\ (r - p) * D = r * D - p * D
      /\ r * (D + b) = r * D + r * b /\ r * (D + (-b)) = r * D - r * b
  BY Z3
<1> DEFINE x == p * D
           y == r * D
           z == r * b
<1>2. x \in Int /\ y \in Int /\ z \in Int
  OBVIOUS
<1> HIDE DEF x, y, z
<1>3. (x - y <= z <=> x <= y + z) /\ (y - x <= z <=> x >= y - z)
  BY <1>2
<1> QED BY <1>1, <1>3 DEF x, y, z

\* A wider band contains a narrower one, and what lies further out than a
\* price outside a band is outside it as well.
LEMMA ProductMonotone ==
  ASSUME NEW c \in Nat, NEW a \in Int, NEW b \in Int, a <= b
  PROVE  a * c <= b * c /\ c * a <= c * b
BY Z3

\* The displayed boundary is the last price in the band.
LEMMA BoundaryIsLast ==
  ASSUME NEW D \in Nat \ {0}, NEW x \in Int
  PROVE  /\ (x \div D) * D <= x /\ ~(((x \div D) + 1) * D <= x)
         /\ ((x + D - 1) \div D) * D >= x
         /\ ~((((x + D - 1) \div D) + (-1)) * D >= x)
<1> DEFINE q == x \div D
           u == (x + D - 1) \div D
<1>1. q \in Int /\ q * D <= x /\ x < q * D + D
  BY DivFloor
<1>2. x + D - 1 \in Int
  OBVIOUS
<1>3. u \in Int /\ u * D <= x + D - 1 /\ x + D - 1 < u * D + D
  BY <1>2, DivFloor
<1> HIDE DEF q, u
<1>4. (q + 1) * D = q * D + D /\ (u + (-1)) * D = u * D - D
  BY <1>1, <1>3, Z3
<1> DEFINE a == q * D
           b == u * D
<1>5. a \in Int /\ b \in Int
  BY <1>1, <1>3
<1>6. a <= x /\ x < a + D /\ b <= x + D - 1 /\ x + D - 1 < b + D
  BY <1>1, <1>3
<1> HIDE DEF a, b
<1>7. a <= x /\ ~(a + D <= x) /\ b >= x /\ ~(b - D >= x)
  BY <1>5, <1>6
<1> QED BY <1>4, <1>7 DEF a, b, q, u

-----------------------------------------------------------------------------
(* Sums over the levels before a level.                                    *)

LEMMA TotalType ==
  ASSUME ArgsTyped, NEW f \in [DOMAIN levels -> Int], NEW S
  PROVE  Total(f, S) \in Int
<1> DEFINE n == Len(levels)
           g == [k \in 1 .. n |-> IF k \in S THEN f[k] ELSE 0]
<1>1. n \in Nat /\ DOMAIN levels = 1 .. n
  BY DEF ArgsTyped
<1>2. Total(f, S) = SumOf(g, n)
  BY <1>1 DEF Total
<1> HIDE DEF n
<1>3. g \in [1 .. n -> Int]
  BY <1>1
<1> HIDE DEF g
<1>4. PICK h \in [0 .. n -> Int] : IsSums(h, g, n) /\ SumOf(g, n) = h[n]
  BY <1>1, <1>3, SumOfIs
<1> QED BY <1>1, <1>2, <1>4

LEMMA TotalOfNone ==
  ASSUME ArgsTyped, NEW f \in [DOMAIN levels -> Int]
  PROVE  Total(f, 1 .. 0) = 0
<1> DEFINE n == Len(levels)
           g == [k \in 1 .. n |-> IF k \in 1 .. 0 THEN f[k] ELSE 0]
<1>1. n \in Nat /\ DOMAIN levels = 1 .. n
  BY DEF ArgsTyped
<1>2. Total(f, 1 .. 0) = SumOf(g, n)
  BY <1>1 DEF Total
<1> HIDE DEF n
<1>3. g \in [1 .. n -> {0}]
  BY <1>1
<1> HIDE DEF g
<1> QED BY <1>1, <1>2, <1>3, SumOfZeros

\* The next level adds its own term.
LEMMA TotalOfNext ==
  ASSUME ArgsTyped, NEW f \in [DOMAIN levels -> Int], NEW j \in DOMAIN levels
  PROVE  Total(f, 1 .. j) = Total(f, 1 .. j - 1) + f[j]
<1> DEFINE n == Len(levels)
           e == [k \in 1 .. n |-> IF k \in 1 .. j - 1 THEN f[k] ELSE 0]
           g == [k \in 1 .. n |-> IF k \in 1 .. j THEN f[k] ELSE 0]
<1>1. n \in Nat /\ DOMAIN levels = 1 .. n /\ j \in 1 .. n
  BY DEF ArgsTyped
<1>2. Total(f, 1 .. j - 1) = SumOf(e, n) /\ Total(f, 1 .. j) = SumOf(g, n)
  BY <1>1 DEF Total
<1> HIDE DEF n
<1>3. e \in [1 .. n -> Int] /\ g \in [1 .. n -> Int]
  BY <1>1
<1>4. \A k \in 1 .. n : k # j => g[k] = e[k]
  BY <1>1
<1>5. g[j] = f[j] /\ e[j] = 0 /\ f[j] \in Int
  BY <1>1
<1> HIDE DEF e, g
<1>6. SumOf(g, n) = SumOf(e, n) + (g[j] - e[j])
  BY <1>1, <1>3, <1>4, SumOfChange
<1>7. PICK h \in [0 .. n -> Int] : IsSums(h, e, n) /\ SumOf(e, n) = h[n]
  BY <1>1, <1>3, SumOfIs
<1>8. SumOf(e, n) \in Int
  BY <1>1, <1>7
<1> QED BY <1>2, <1>5, <1>6, <1>8

-----------------------------------------------------------------------------
(* Price bands are exact: the invariant.                                   *)

\* What the walk has added up, and that all of it lies in the open bands.
Walked ==
  /\ ~narrowed => /\ cum_size = SizeOf(1 .. i - 1)
                  /\ cum_notional = NotionalOf(1 .. i - 1)
  /\ \A n \in DOMAIN list, k \in DOMAIN levels :
       next <= n /\ k < i => InBand(levels[k].price, list[n])

\* One answer, as PriceBandsAreExact states it.
IsBand(band, bps) ==
  LET S == {k \in DOMAIN levels : InBand(levels[k].price, bps)}
  IN /\ band.bps = bps
     /\ band.cumulative_size = SizeOf(S)
     /\ band.cumulative_notional = NotionalOf(S)
     /\ InBand(band.boundary_price, bps)
     /\ ~InBand(band.boundary_price + Outwards, bps)

\* Where the call is, and how many bands it has answered.
Progress ==
  /\ pc # "done" => error = "none"
  /\ Len(result) = IF error = "none" THEN next - 1 ELSE 0
  /\ pc = "begin" => next = 1
  /\ pc = "rest" => next > Len(list) \/ i > Len(levels)
  /\ pc = "done" /\ error = "none" =>
       next - 1 = IF levels = << >> THEN 0 ELSE Len(list)

Answers == ~narrowed => \A n \in DOMAIN result : IsBand(result[n], list[n])

PriceInv == kind = "price" => BestFirst /\ Walked /\ Progress /\ Answers

\* The types of what the bands are computed from.
LEMMA PriceTypes ==
  ASSUME IInv
  PROVE  /\ Len(levels) \in Nat /\ DOMAIN levels = 1 .. Len(levels)
         /\ Len(list) \in Nat /\ DOMAIN list = 1 .. Len(list)
         /\ kBpsDenominator \in Nat \ {0}
         /\ \A k \in DOMAIN levels :
              levels[k].price \in Int /\ levels[k].size \in Int
         /\ \A n \in DOMAIN list : list[n] \in Int
         /\ i \in 1 .. Len(levels) + 1 /\ next \in 1 .. Len(list) + 1
         /\ side \in {"bid", "ask"} /\ ArgsTyped
<1>1. /\ levels \in Seq([price : Raw, size : Raw]) /\ list \in Seq(Raw)
      /\ i \in 1 .. Len(levels) + 1 /\ next \in 1 .. Len(list) + 1
      /\ side \in {"bid", "ask"} /\ ArgsTyped
  BY DEF IInv, ArgsTyped, TypeOK
<1>2. Raw \subseteq Int
  BY WidthAssumption DEF Raw
<1>3. \A k \in DOMAIN levels : levels[k] \in [price : Raw, size : Raw]
  BY <1>1, ElementType, Zenon
<1>4. \A n \in DOMAIN list : list[n] \in Raw
  BY <1>1, ElementType, Zenon
<1>5. /\ Len(levels) \in Nat /\ DOMAIN levels = 1 .. Len(levels)
      /\ Len(list) \in Nat /\ DOMAIN list = 1 .. Len(list)
  BY <1>1
<1>6. \A k \in DOMAIN levels : levels[k].price \in Raw /\ levels[k].size \in Raw
  BY <1>3
<1>7. \A k \in DOMAIN levels : levels[k].price \in Int /\ levels[k].size \in Int
  BY <1>2, <1>6, Zenon
<1>8. \A n \in DOMAIN list : list[n] \in Int
  BY <1>2, <1>4, Zenon
<1>9. kBpsDenominator \in Nat \ {0}
  BY BandsAssumption
<1> QED BY <1>1, <1>5, <1>7, <1>8, <1>9, Zenon

\* The notional of every level is an integer, so that they can be summed.
LEMMA TermTypes ==
  ASSUME IInv
  PROVE  /\ [k \in DOMAIN levels |-> levels[k].size] \in [DOMAIN levels -> Int]
         /\ [k \in DOMAIN levels |->
               fixed_multiply(levels[k].price, levels[k].size)]
              \in [DOMAIN levels -> Int]
<1>1. \A k \in DOMAIN levels : levels[k].price \in Int /\ levels[k].size \in Int
  BY PriceTypes
<1>2. ASSUME NEW k \in DOMAIN levels
      PROVE  fixed_multiply(levels[k].price, levels[k].size) \in Int
  <2>1. levels[k].price * levels[k].size \in Int
    BY <1>1
  <2> QED BY <2>1, WidthAssumption, RoundType DEF fixed_multiply
<1> QED BY <1>1, <1>2

\* The sums of the walk, when it passes level j.
LEMMA PassLevel ==
  ASSUME IInv, NEW j \in DOMAIN levels
  PROVE  /\ SizeOf(1 .. j) = SizeOf(1 .. j - 1) + levels[j].size
         /\ NotionalOf(1 .. j) =
              NotionalOf(1 .. j - 1)
                + fixed_multiply(levels[j].price, levels[j].size)
<1> DEFINE f == [k \in DOMAIN levels |-> levels[k].size]
           g == [k \in DOMAIN levels |->
                   fixed_multiply(levels[k].price, levels[k].size)]
<1>1. f \in [DOMAIN levels -> Int] /\ g \in [DOMAIN levels -> Int] /\ ArgsTyped
  BY TermTypes, PriceTypes
<1>2. /\ f[j] = levels[j].size
      /\ g[j] = fixed_multiply(levels[j].price, levels[j].size)
  OBVIOUS
<1>3. /\ SizeOf(1 .. j) = Total(f, 1 .. j)
      /\ SizeOf(1 .. j - 1) = Total(f, 1 .. j - 1)
      /\ NotionalOf(1 .. j) = Total(g, 1 .. j)
      /\ NotionalOf(1 .. j - 1) = Total(g, 1 .. j - 1)
  BY DEF SizeOf, NotionalOf
<1> HIDE DEF f, g
<1>4. /\ Total(f, 1 .. j) = Total(f, 1 .. j - 1) + f[j]
      /\ Total(g, 1 .. j) = Total(g, 1 .. j - 1) + g[j]
  BY <1>1, TotalOfNext
<1> QED BY <1>2, <1>3, <1>4

\* within_bps decides membership.
LEMMA WithinLemma ==
  ASSUME IInv, levels # << >>, NEW p \in Int, NEW b \in Int
  PROVE  within(side, p, Reference, b) <=> InBand(p, b)
<1>1. /\ Reference \in Int /\ kBpsDenominator \in Nat \ {0}
      /\ side \in {"bid", "ask"}
  <2>1. 1 \in DOMAIN levels
    BY DEF IInv, ArgsTyped
  <2> QED BY <2>1, PriceTypes DEF Reference
<1> DEFINE r == Reference
           D == kBpsDenominator
<1>2. r \in Int /\ D \in Nat \ {0}
  BY <1>1
<1>3. InBand(p, b) <=>
        (IF side = "ask" THEN p - r ELSE r - p) * D <= r * b
  BY DEF InBand
<1>4. within(side, p, Reference, b) <=>
        IF side = "ask" THEN p * D <= r * (D + b) ELSE p * D >= r * (D + (-b))
  BY DEF within, Factor, Signed
<1> HIDE DEF r, D
<1>5. /\ (p - r) * D <= r * b <=> p * D <= r * (D + b)
      /\ (r - p) * D <= r * b <=> p * D >= r * (D + (-b))
  BY <1>2, WithinIsInBand
<1> QED BY <1>3, <1>4, <1>5

\* A wider band holds what a narrower one does.
LEMMA WiderBand ==
  ASSUME IInv, levels # << >>, Reference > 0, NEW p \in Int, NEW b \in Int,
         NEW c \in Int, b <= c, InBand(p, b)
  PROVE  InBand(p, c)
<1>1. /\ Reference \in Nat /\ kBpsDenominator \in Nat \ {0}
  <2>1. 1 \in DOMAIN levels
    BY DEF IInv, ArgsTyped
  <2>2. Reference \in Int
    BY <2>1, PriceTypes DEF Reference
  <2> QED BY <2>2, PriceTypes
<1> DEFINE r == Reference
           x == (IF side = "ask" THEN p - r ELSE r - p) * kBpsDenominator
<1>2. x \in Int /\ r \in Nat
  BY <1>1
<1>3. InBand(p, b) <=> x <= r * b
  BY DEF InBand
<1>4. InBand(p, c) <=> x <= r * c
  BY DEF InBand
<1> HIDE DEF r, x
<1>5. r * b <= r * c /\ r * b \in Int /\ r * c \in Int
  BY <1>2, ProductMonotone
<1> QED BY <1>2, <1>3, <1>4, <1>5

\* Beyond a level outside a band there are only levels outside it.
LEMMA FurtherOut ==
  ASSUME IInv, levels # << >>, BestFirst, NEW b \in Int,
         NEW j \in DOMAIN levels, NEW k \in DOMAIN levels, j <= k,
         ~InBand(levels[j].price, b)
  PROVE  ~InBand(levels[k].price, b)
<1>1. /\ Reference \in Int /\ kBpsDenominator \in Nat \ {0}
      /\ levels[j].price \in Int /\ levels[k].price \in Int
  <2>1. 1 \in DOMAIN levels
    BY DEF IInv, ArgsTyped
  <2> QED BY <2>1, PriceTypes DEF Reference
<1> DEFINE r == Reference
           D == kBpsDenominator
           x == IF side = "ask" THEN levels[j].price - r ELSE r - levels[j].price
           y == IF side = "ask" THEN levels[k].price - r ELSE r - levels[k].price
           z == r * b
<1>2. x \in Int /\ y \in Int /\ x <= y /\ D \in Nat /\ z \in Int
  BY <1>1 DEF BestFirst
<1>3. InBand(levels[j].price, b) <=> x * D <= z
  BY DEF InBand
<1>4. InBand(levels[k].price, b) <=> y * D <= z
  BY DEF InBand
<1> HIDE DEF r, D, x, y, z
<1>5. x * D <= y * D /\ x * D \in Int /\ y * D \in Int
  BY <1>2, ProductMonotone
<1> QED BY <1>2, <1>3, <1>4, <1>5

\* round_inner() is the last price of the band.
LEMMA BoundaryLemma ==
  ASSUME IInv, levels # << >>, NEW b \in Int
  PROVE  /\ round_inner(side, Reference, b) \in Int
         /\ InBand(round_inner(side, Reference, b), b)
         /\ ~InBand(round_inner(side, Reference, b) + Outwards, b)
<1>1. /\ Reference \in Int /\ kBpsDenominator \in Nat \ {0}
      /\ side \in {"bid", "ask"}
  <2>1. 1 \in DOMAIN levels
    BY DEF IInv, ArgsTyped
  <2> QED BY <2>1, PriceTypes DEF Reference
<1> DEFINE D == kBpsDenominator
           x == Reference * Factor(side, b)
           q == round_inner(side, Reference, b)
<1>2. D \in Nat \ {0} /\ x \in Int
  <2>1. Factor(side, b) \in Int
    BY <1>1 DEF Factor, Signed
  <2> DEFINE f == Factor(side, b)
  <2> HIDE DEF f
  <2>2. Reference * f \in Int
    BY <1>1, <2>1 DEF f
  <2> QED BY <1>1, <2>2 DEF f
<1>3. q = IF side = "ask" THEN x \div D ELSE (x + D - 1) \div D
  BY DEF round_inner
<1>4. \A p \in Int : InBand(p, b) <=> IF side = "ask" THEN p * D <= x
                                                     ELSE p * D >= x
  <2> SUFFICES ASSUME NEW p \in Int
               PROVE  InBand(p, b) <=> IF side = "ask" THEN p * D <= x
                                                       ELSE p * D >= x
    OBVIOUS
  <2>1. within(side, p, Reference, b) <=> InBand(p, b)
    BY WithinLemma
  <2> QED BY <2>1 DEF within
<1> HIDE DEF D, x, q
<1>5. /\ (x \div D) * D <= x /\ ~(((x \div D) + 1) * D <= x)
      /\ ((x + D - 1) \div D) * D >= x
      /\ ~((((x + D - 1) \div D) + (-1)) * D >= x)
  BY <1>2, BoundaryIsLast
<1>6. x \div D \in Int /\ (x + D - 1) \div D \in Int
  <2>1. x + D - 1 \in Int
    BY <1>2
  <2> QED BY <1>2, <2>1, DivFloor
<1>7. CASE side = "ask"
  <2>1. q = x \div D /\ Outwards = 1
    BY <1>3, <1>7 DEF Outwards
  <2>2. q \in Int /\ q + 1 \in Int /\ q * D <= x /\ ~((q + 1) * D <= x)
    BY <1>5, <1>6, <2>1
  <2> QED BY <1>4, <1>7, <2>1, <2>2 DEF q
<1>8. CASE side = "bid"
  <2>1. q = (x + D - 1) \div D /\ Outwards = -1
    BY <1>3, <1>8 DEF Outwards
  <2>2. q \in Int /\ q + (-1) \in Int /\ q * D >= x /\ ~((q + (-1)) * D >= x)
    BY <1>5, <1>6, <2>1
  <2> QED BY <1>4, <1>8, <2>1, <2>2 DEF q
<1> QED BY <1>1, <1>7, <1>8

\* What is in a band that level i does not belong to: the levels before i.
LEMMA BandIsPrefix ==
  ASSUME IInv, BestFirst, Walked, NEW n \in DOMAIN list, next <= n,
         i \in DOMAIN levels => ~InBand(levels[i].price, list[n])
  PROVE  {k \in DOMAIN levels : InBand(levels[k].price, list[n])} = 1 .. i - 1
<1>1. /\ Len(levels) \in Nat /\ DOMAIN levels = 1 .. Len(levels)
      /\ i \in 1 .. Len(levels) + 1 /\ list[n] \in Int
  BY PriceTypes
<1>2. ASSUME NEW k \in DOMAIN levels, k < i
      PROVE  InBand(levels[k].price, list[n])
  BY <1>2 DEF Walked
<1>3. ASSUME NEW k \in DOMAIN levels, ~(k < i)
      PROVE  ~InBand(levels[k].price, list[n])
  <2>1. i \in DOMAIN levels /\ i <= k /\ levels # << >>
    BY <1>1, <1>3
  <2> QED BY <1>1, <2>1, FurtherOut
<1> QED BY <1>1, <1>2, <1>3

\* A band is pushed when the walk knows that the next level is outside it.
LEMMA PushExact ==
  ASSUME IInv, PriceInv, pc \in {"cross", "rest"}, kind = "price",
         next <= Len(list), PushPriceBand,
         i \in DOMAIN levels => ~InBand(levels[i].price, list[next])
  PROVE  PriceInv'
<1> DEFINE b == round_inner(side, Reference, list[next])
           boundary == from_raw_safe(b)
<1>0. BestFirst /\ Walked /\ Progress /\ Answers /\ levels # << >>
  BY DEF PriceInv, IInv, Checked
<1>1. /\ Len(list) \in Nat /\ DOMAIN list = 1 .. Len(list)
      /\ next \in DOMAIN list /\ next \in Nat /\ list[next] \in Int
  BY PriceTypes
<1>2. b \in Int /\ InBand(b, list[next]) /\ ~InBand(b + Outwards, list[next])
  BY <1>0, <1>1, BoundaryLemma
<1>3. boundary.ok => boundary.value = b
  <2> HIDE DEF b
  <2> QED BY <1>2, SafeFacts
<1>4. CASE ~boundary.ok
  <2>1. Fail(boundary.error) /\ boundary.error = "result_out_of_range"
    BY <1>4 DEF PushPriceBand, from_raw_safe, Ok, Error
  <2>2. /\ pc' = "done" /\ error' # "none" /\ result' = << >>
        /\ UNCHANGED << kind, side, levels, list, i, next, cum_size,
                        cum_notional, narrowed >>
    BY <2>1 DEF Fail, argVars, sumVars
  <2>3. BestFirst' /\ Walked'
    BY <1>0, <2>2 DEF BestFirst, Walked, SizeOf, NotionalOf, Total, InBand,
                      Reference
  <2>4. Progress' /\ Answers'
    BY <2>2 DEF Progress, Answers
  <2> QED BY <2>3, <2>4 DEF PriceInv
<1>5. CASE boundary.ok
  <2> DEFINE band == [bps |-> list[next], boundary_price |-> boundary.value,
                      cumulative_size |-> cum_size,
                      cumulative_notional |-> cum_notional]
  <2>1. /\ result' = Append(result, band)
        /\ next' = next + 1
        /\ UNCHANGED << kind, side, levels, list, pc, i, cum_size,
                        cum_notional, next_cum, narrowed, error, numerator >>
    BY <1>5 DEF PushPriceBand, argVars, sumVars
  <2>2. ~narrowed => IsBand(band, list[next])
    <3>1. {k \in DOMAIN levels : InBand(levels[k].price, list[next])} = 1 .. i - 1
      BY <1>0, <1>1, BandIsPrefix
    <3>2. ~narrowed => /\ cum_size = SizeOf(1 .. i - 1)
                       /\ cum_notional = NotionalOf(1 .. i - 1)
      BY <1>0 DEF Walked
    <3>3. /\ band.bps = list[next] /\ band.boundary_price = b
          /\ band.cumulative_size = cum_size
          /\ band.cumulative_notional = cum_notional
      BY <1>3, <1>5
    <3> HIDE DEF band, b
    <3> QED BY <1>2, <3>1, <3>2, <3>3 DEF IsBand
  <2>3. /\ result \in Seq(PriceBand) /\ Len(result) = next - 1
        /\ error = "none"
    BY <1>0 DEF IInv, TypeOK, Progress
  <2> HIDE DEF band
  <2>4. /\ Len(result') = next /\ DOMAIN result' = 1 .. next
        /\ DOMAIN result = 1 .. next - 1
        /\ \A n \in 1 .. next - 1 : result'[n] = result[n]
        /\ result'[next] = band
    BY <1>1, <2>1, <2>3
  <2>5. Answers'
    <3> SUFFICES ASSUME ~narrowed, NEW n \in 1 .. next
                 PROVE  IsBand(result[n], list[n])'
      BY <2>1, <2>4 DEF Answers
    <3>1. IsBand(result'[n], list[n])
      <4>1. CASE n = next
        BY <2>2, <2>4, <4>1
      <4>2. CASE n # next
        <5>1. n \in 1 .. next - 1
          BY <1>1, <4>2
        <5> QED BY <1>0, <2>4, <5>1 DEF Answers
      <4> QED BY <4>1, <4>2
    <3> QED BY <2>1, <3>1 DEF IsBand, SizeOf, NotionalOf, Total, InBand,
                              Reference, Outwards
  <2>6. BestFirst' /\ Walked'
    <3>1. \A n \in DOMAIN list : next + 1 <= n => next <= n
      BY <1>1
    <3>2. BestFirst'
      BY <1>0, <2>1 DEF BestFirst
    <3>3. ~narrowed' => /\ cum_size' = SizeOf(1 .. i - 1)'
                        /\ cum_notional' = NotionalOf(1 .. i - 1)'
      BY <1>0, <2>1 DEF Walked, SizeOf, NotionalOf, Total
    <3>4. \A n \in DOMAIN list, k \in DOMAIN levels :
            next + 1 <= n /\ k < i => InBand(levels[k].price, list[n])
      BY <1>0, <3>1 DEF Walked
    <3> QED BY <2>1, <3>2, <3>3, <3>4 DEF Walked, InBand, Reference
  <2>7. Progress'
    BY <1>0, <1>1, <2>1, <2>3, <2>4 DEF Progress
  <2> QED BY <2>5, <2>6, <2>7 DEF PriceInv
<1> QED BY <1>4, <1>5

\* A level joins the depth of all the bands that are open.
LEMMA AddPriceExact ==
  ASSUME IInv, PriceInv, AddPriceLevel
  PROVE  PriceInv'
<1> DEFINE v == cum_notional + LevelNotional
           w == cum_size + Level.size
           m == fixed_multiply(Level.price, Level.size)
           sum == from_raw_safe(v)
<1>0. /\ pc = "cross" /\ kind = "price" /\ i \in DOMAIN levels
      /\ next <= Len(list) /\ within(side, Level.price, Reference, list[next])
      /\ BestFirst /\ Walked /\ Progress /\ Answers
      /\ levels # << >> /\ Reference > 0 /\ is_sorted(list)
  BY DEF AddPriceLevel, IInv, AtLevel, PriceInv, Checked, ListValid,
         bps_thresholds_valid
<1>1. /\ Len(list) \in Nat /\ DOMAIN list = 1 .. Len(list)
      /\ next \in DOMAIN list /\ next \in Nat
      /\ \A n \in DOMAIN list : list[n] \in Int
      /\ Len(levels) \in Nat /\ DOMAIN levels = 1 .. Len(levels)
      /\ Level.price \in Int /\ Level.size \in Int /\ Level = levels[i]
      /\ cum_size \in Int /\ cum_notional \in Int
  BY <1>0, PriceTypes, WidthAssumption DEF Level, IInv, TypeOK, Raw
<1>2. m \in Int /\ LevelNotional \in Raw /\ LevelNotional = Narrow(m)
  BY <1>0, LevelFacts DEF LevelNotional
<1>3. v \in Int /\ w \in Int
  <2> HIDE DEF m
  <2>1. LevelNotional \in Int
    BY <1>2, WidthAssumption DEF Raw
  <2> QED BY <1>1, <2>1
<1>4. sum.ok => sum.value = v
  <2> HIDE DEF v
  <2> QED BY <1>3, SafeFacts
<1>5. CASE ~sum.ok
  <2>1. Fail(sum.error) /\ sum.error = "result_out_of_range"
    BY <1>5 DEF AddPriceLevel, from_raw_safe, Ok, Error
  <2>2. /\ pc' = "done" /\ error' # "none" /\ result' = << >>
        /\ UNCHANGED << kind, side, levels, list, i, next, cum_size,
                        cum_notional, narrowed >>
    BY <2>1 DEF Fail, argVars, sumVars
  <2>3. BestFirst' /\ Walked'
    BY <1>0, <2>2 DEF BestFirst, Walked, SizeOf, NotionalOf, Total, InBand,
                      Reference
  <2>4. Progress' /\ Answers'
    BY <2>2 DEF Progress, Answers
  <2> QED BY <2>3, <2>4 DEF PriceInv
<1>6. CASE sum.ok
  <2>1. /\ cum_size' = Narrow(w) /\ cum_notional' = v
        /\ narrowed' = (narrowed \/ ~Fits(w) \/ ~Fits(m))
        /\ pc' = "level" /\ i' = i + 1
        /\ UNCHANGED << kind, side, levels, list, next, result, error >>
    <3>1. cum_notional' = sum.value
      BY <1>6 DEF AddPriceLevel
    <3>2. cum_notional' = v
      <4> HIDE DEF sum, v
      <4> QED BY <1>4, <1>6, <3>1
    <3>3. narrowed' = (narrowed \/ ~Fits(w) \/ ~Fits(m))
      BY <1>6 DEF AddPriceLevel
    <3> QED BY <1>6, <3>2, <3>3 DEF AddPriceLevel, argVars
  <2>2. ~narrowed' => /\ ~narrowed /\ cum_size' = w
                      /\ cum_notional' = cum_notional + m
    <3>1. ~narrowed' => ~narrowed /\ Fits(w) /\ Fits(m)
      <4> HIDE DEF w, m
      <4> QED BY <2>1
    <3>2. Fits(w) => Narrow(w) = w
      <4> HIDE DEF w
      <4> QED BY <1>3, NarrowId
    <3>3. Fits(m) => LevelNotional = m
      <4> HIDE DEF m
      <4> QED BY <1>2, NarrowId
    <3> HIDE DEF w, m
    <3> QED BY <2>1, <3>1, <3>2, <3>3
  <2>3. ~narrowed' => /\ cum_size' = SizeOf(1 .. i)
                      /\ cum_notional' = NotionalOf(1 .. i)
    <3>1. /\ SizeOf(1 .. i) = SizeOf(1 .. i - 1) + Level.size
          /\ NotionalOf(1 .. i) = NotionalOf(1 .. i - 1) + m
      BY <1>0, <1>1, PassLevel
    <3>2. ~narrowed => /\ cum_size = SizeOf(1 .. i - 1)
                       /\ cum_notional = NotionalOf(1 .. i - 1)
      BY <1>0 DEF Walked
    <3> HIDE DEF m
    <3> QED BY <2>2, <3>1, <3>2
  <2>4. i' - 1 = i
    BY <1>0, <1>1, <2>1
  <2>5. \A n \in DOMAIN list, k \in DOMAIN levels :
          next <= n /\ k < i + 1 => InBand(levels[k].price, list[n])
    <3> SUFFICES ASSUME NEW n \in DOMAIN list, NEW k \in DOMAIN levels,
                        next <= n, k < i + 1
                 PROVE  InBand(levels[k].price, list[n])
      OBVIOUS
    <3>1. CASE k = i
      <4>1. InBand(Level.price, list[next])
        BY <1>0, <1>1, WithinLemma
      <4>2. list[next] <= list[n]
        BY <1>0, <1>1 DEF is_sorted
      <4> QED BY <1>0, <1>1, <3>1, <4>1, <4>2, WiderBand
    <3>2. CASE k # i
      <4>1. k < i
        BY <1>0, <1>1, <3>2
      <4> QED BY <1>0, <4>1 DEF Walked
    <3> QED BY <3>1, <3>2
  <2> HIDE DEF v, w, m, sum
  <2>6. Walked'
    <3>1. ~narrowed' => /\ cum_size' = SizeOf(1 .. i - 1)'
                        /\ cum_notional' = NotionalOf(1 .. i - 1)'
      BY <2>1, <2>3, <2>4 DEF SizeOf, NotionalOf, Total
    <3> QED BY <2>1, <2>5, <3>1 DEF Walked, InBand, Reference
  <2>7. BestFirst'
    BY <1>0, <2>1 DEF BestFirst
  <2>8. Answers'
    BY <1>0, <2>1, <2>2 DEF Answers, IsBand, SizeOf, NotionalOf, Total, InBand,
                            Reference, Outwards
  <2>9. Progress'
    BY <1>0, <2>1 DEF Progress
  <2> QED BY <2>6, <2>7, <2>8, <2>9 DEF PriceInv
<1> QED BY <1>5, <1>6

\* A call that failed has no bands; the others only move on.
LEMMA FailExact ==
  ASSUME PriceInv, NEW errc, errc # "none", Fail(errc)
  PROVE  PriceInv'
<1>1. /\ pc' = "done" /\ error' # "none" /\ result' = << >>
      /\ UNCHANGED << kind, side, levels, list, i, next, cum_size,
                      cum_notional, narrowed >>
  BY DEF Fail, argVars, sumVars
<1> SUFFICES ASSUME kind = "price" PROVE PriceInv'
  BY <1>1 DEF PriceInv
<1>2. BestFirst' /\ Walked'
  BY <1>1 DEF PriceInv, BestFirst, Walked, SizeOf, NotionalOf, Total, InBand,
              Reference
<1>3. Progress' /\ Answers'
  BY <1>1 DEF Progress, Answers
<1> QED BY <1>2, <1>3 DEF PriceInv

LEMMA MoveExact ==
  ASSUME IInv, PriceInv,
         UNCHANGED << argVars, i, next, sumVars, result, error, numerator >>,
         \/ EmptySide \/ Enter \/ EnterPriceLevel \/ StopWalking \/ LevelsEnd
         \/ Return \/ UNCHANGED vars
  PROVE  PriceInv'
<1>1. UNCHANGED << kind, side, levels, list, i, next, cum_size, cum_notional,
                   narrowed, result, error >>
  BY DEF argVars, sumVars
<1> SUFFICES ASSUME kind = "price" PROVE PriceInv'
  BY <1>1 DEF PriceInv
<1>2. BestFirst' /\ Walked' /\ Answers'
  <2>1. BestFirst'
    BY <1>1, Zenon DEF PriceInv, BestFirst
  <2>2. Walked'
    BY <1>1, Zenon DEF PriceInv, Walked, SizeOf, NotionalOf, Total, InBand,
                       Reference
  <2>3. \A band, bps : IsBand(band, bps)' <=> IsBand(band, bps)
    BY <1>1 DEF IsBand, SizeOf, NotionalOf, Total, InBand, Reference, Outwards
  <2>4. Answers'
    BY <1>1, <2>3, Zenon DEF PriceInv, Answers
  <2> QED BY <2>1, <2>2, <2>4
<1> SUFFICES Progress'
  BY <1>2 DEF PriceInv
<1>3. Progress
  BY DEF PriceInv
<1>4. CASE EmptySide
  BY <1>1, <1>3, <1>4 DEF Progress, EmptySide
<1>5. CASE Enter \/ EnterPriceLevel \/ StopWalking \/ LevelsEnd
  <2>1. /\ pc' \in {"level", "cross", "rest"} /\ error = "none"
        /\ pc' = "rest" => next > Len(list) \/ i > Len(levels)
    BY <1>3, <1>5 DEF Progress, Enter, EnterPriceLevel, InLoop, StopWalking,
                      LevelsEnd
  <2> QED BY <1>1, <1>3, <2>1 DEF Progress
<1>6. CASE Return
  <2>1. next = Len(list) + 1 /\ levels # << >> /\ pc' = "done"
        /\ Len(list) \in Nat
    BY <1>6, PriceTypes DEF Return, IInv, Checked
  <2> QED BY <1>1, <1>3, <1>6, <2>1 DEF Progress, Return
<1>7. CASE UNCHANGED vars
  BY <1>1, <1>3, <1>7 DEF Progress, vars
<1> QED BY <1>4, <1>5, <1>6, <1>7

LEMMA StepKeepsPriceInv == IInv /\ PriceInv /\ [Step]_vars => PriceInv'
<1> SUFFICES ASSUME IInv, PriceInv, [Step]_vars PROVE PriceInv'
  OBVIOUS
<1>1. CASE RejectList \/ RejectReference \/ RejectLevel
  BY <1>1, FailExact DEF RejectList, RejectReference, RejectLevel
<1>2. CASE \/ EmptySide \/ Enter \/ EnterPriceLevel \/ StopWalking \/ LevelsEnd
           \/ Return \/ UNCHANGED vars
  <2>1. UNCHANGED << argVars, i, next, sumVars, result, error, numerator >>
    BY <1>2 DEF EmptySide, Enter, EnterPriceLevel, StopWalking, LevelsEnd,
                Return, vars
  <2> QED BY <1>2, <2>1, MoveExact
<1>3. CASE CrossPrice
  <2>1. /\ pc = "cross" /\ kind = "price" /\ next <= Len(list) /\ PushPriceBand
        /\ ~within(side, Level.price, Reference, list[next])
        /\ i \in DOMAIN levels
    BY <1>3 DEF CrossPrice, IInv, AtLevel
  <2>2. Level.price \in Int /\ Level = levels[i] /\ levels # << >>
    BY <2>1, PriceTypes DEF Level, IInv, ArgsTyped
  <2>3. list[next] \in Int
    BY <2>1, PriceTypes
  <2>4. ~InBand(levels[i].price, list[next])
    BY <2>1, <2>2, <2>3, WithinLemma
  <2> QED BY <2>1, <2>4, PushExact
<1>4. CASE RestOfPrice
  <2>1. /\ pc = "rest" /\ kind = "price" /\ next <= Len(list) /\ PushPriceBand
    BY <1>4 DEF RestOfPrice
  <2>2. i \notin DOMAIN levels
    <3>1. next > Len(list) \/ i > Len(levels)
      BY <2>1 DEF PriceInv, Progress
    <3> QED BY <2>1, <3>1, PriceTypes
  <2> QED BY <2>1, <2>2, PushExact
<1>5. CASE AddPriceLevel
  BY <1>5, AddPriceExact
<1>6. CASE EnterVolumeLevel \/ CrossVolume \/ AddVolumeLevel \/ RestOfVolume
  <2>1. kind = "volume" /\ kind' = kind
    BY <1>6 DEF EnterVolumeLevel, CrossVolume, AddVolumeLevel, RestOfVolume,
                Fail, argVars
  <2> QED BY <2>1 DEF PriceInv
<1> QED BY <1>1, <1>2, <1>3, <1>4, <1>5, <1>6 DEF Step

LEMMA NewCallPriceInv == NewCall /\ BestFirst => PriceInv
<1> SUFFICES ASSUME NewCall, BestFirst PROVE PriceInv
  OBVIOUS
<1>1. /\ pc = "begin" /\ i = 1 /\ next = 1 /\ cum_size = 0 /\ cum_notional = 0
      /\ result = << >> /\ error = "none" /\ IInv
  BY NewCallIInv DEF NewCall, Called
<1>2. SizeOf(1 .. 0) = 0 /\ NotionalOf(1 .. 0) = 0
  <2> DEFINE f == [k \in DOMAIN levels |-> levels[k].size]
             g == [k \in DOMAIN levels |->
                     fixed_multiply(levels[k].price, levels[k].size)]
  <2>1. f \in [DOMAIN levels -> Int] /\ g \in [DOMAIN levels -> Int]
    BY <1>1, TermTypes
  <2>2. SizeOf(1 .. 0) = Total(f, 1 .. 0) /\ NotionalOf(1 .. 0) = Total(g, 1 .. 0)
    BY DEF SizeOf, NotionalOf
  <2> HIDE DEF f, g
  <2> QED BY <1>1, <2>1, <2>2, TotalOfNone DEF IInv
<1>3. i - 1 = 0 /\ \A k \in DOMAIN levels : ~(k < i)
  BY <1>1, PriceTypes
<1>4. Walked
  BY <1>1, <1>2, <1>3 DEF Walked
<1>5. Progress /\ Answers
  BY <1>1 DEF Progress, Answers
<1> QED BY <1>4, <1>5 DEF PriceInv

LEMMA PriceInvExact == PriceInv => PriceBandsAreExact
<1> SUFFICES ASSUME PriceInv, kind = "price", ~narrowed
             PROVE  /\ \A n \in DOMAIN result : IsBand(result[n], list[n])
                    /\ pc = "done" /\ error = "none" =>
                         Len(result) = IF levels = << >> THEN 0 ELSE Len(list)
  BY DEF PriceBandsAreExact, IsBand
<1> QED BY DEF PriceInv, Answers, Progress

\* For every book side that is given best price first, every list and every
\* width: a price band is exactly the depth of the levels within it, however
\* early the walk answers it, and its boundary is the last price in it
\* (price_band_depths, within_bps, offset_by_bps).
THEOREM PriceBandsExact == Spec /\ BestFirst => []PriceBandsAreExact
BY PriceInvExact, InitNewCall, NewCallIInv, StepKeepsIInv, NewCallPriceInv,
     StepKeepsPriceInv, PTL DEF Spec

-----------------------------------------------------------------------------
(* A list that main() accepts never fails a call.                          *)

\* Strictly increasing from one to the next is sorted.
LEMMA AscendingIsSorted ==
  ASSUME NEW N \in Nat, NEW l, DOMAIN l = 1 .. N,
         \A k \in 1 .. N : l[k] \in Int,
         \A k \in 2 .. N : l[k - 1] < l[k]
  PROVE  is_sorted(l)
<1> SUFFICES ASSUME NEW m \in 1 .. N, NEW n \in 1 .. N, m <= n
             PROVE  l[m] <= l[n]
  BY DEF is_sorted
<1> DEFINE S == {d \in Nat : m + d <= N => l[m] <= l[m + d]}
<1>1. 0 \in S
  OBVIOUS
<1>2. ASSUME NEW d \in Nat, d \in S PROVE d + 1 \in S
  <2> SUFFICES ASSUME m + (d + 1) <= N PROVE l[m] <= l[m + (d + 1)]
    OBVIOUS
  <2>1. /\ m + d \in 1 .. N /\ m + (d + 1) \in 2 .. N
        /\ (m + (d + 1)) - 1 = m + d
    OBVIOUS
  <2>2. l[m] <= l[m + d]
    BY <1>2, <2>1
  <2>3. l[m + d] < l[m + (d + 1)]
    BY <2>1
  <2>4. l[m] \in Int /\ l[m + d] \in Int /\ l[m + (d + 1)] \in Int
    BY <2>1
  <2> QED BY <2>2, <2>3, <2>4
<1>3. Nat \subseteq S
  <2> HIDE DEF S
  <2> QED BY <1>1, <1>2, SetInduction
<1>4. PICK d \in Nat : n = m + d
  <2>1. n - m \in Nat /\ n = m + (n - m)
    OBVIOUS
  <2> QED BY <2>1
<1>5. d \in S
  BY <1>3, <1>4, Zenon
<1> QED BY <1>4, <1>5

LEMMA AcceptedList ==
  ASSUME NEW N \in Nat, NEW parsed, DOMAIN parsed = 1 .. N, Len(parsed) = N,
         NEW valid, valid \subseteq Int, parse_ascending_list(parsed, valid).ok
  PROVE  /\ is_sorted(parse_ascending_list(parsed, valid).value)
         /\ \A n \in DOMAIN parse_ascending_list(parsed, valid).value :
              parse_ascending_list(parsed, valid).value[n] \in valid
<1> DEFINE l == [k \in DOMAIN parsed |-> parsed[k].value]
<1>1. /\ \A k \in 2 .. Len(parsed) : l[k - 1] < l[k]
      /\ \A k \in DOMAIN parsed : l[k] \in valid
      /\ parse_ascending_list(parsed, valid).value = l
  BY DEF parse_ascending_list, Ok, Error
<1>2. DOMAIN l = 1 .. N
  OBVIOUS
<1> HIDE DEF l
<1>3. is_sorted(l)
  BY <1>1, <1>2, AscendingIsSorted
<1> QED BY <1>1, <1>2, <1>3

\* The lists that both parsers accept are the lists that both computations
\* accept, on either side.
LEMMA ParsedListsAreValid ==
  ASSUME NEW tokens \in Seq(DecimalText)
  PROVE  /\ parse_volume_thresholds(tokens).ok =>
              volume_thresholds_valid(parse_volume_thresholds(tokens).value)
         /\ parse_price_bps(tokens, kBpsDenominator).ok =>
              \A s \in {"bid", "ask"} :
                bps_thresholds_valid(
                  s, parse_price_bps(tokens, kBpsDenominator).value)
<1> DEFINE N == Len(tokens)
           t == [k \in 1 .. N |-> threshold_token(tokens[k])]
           b == [k \in 1 .. N |-> bps_token(tokens[k])]
<1>1. N \in Nat /\ DOMAIN tokens = 1 .. N
  OBVIOUS
<1>2. /\ parse_volume_thresholds(tokens) = parse_ascending_list(t, 1 .. RawMax)
      /\ parse_price_bps(tokens, kBpsDenominator) =
           parse_ascending_list(b, 0 .. kBpsDenominator - 1)
  BY <1>1 DEF parse_volume_thresholds, parse_price_bps
<1> HIDE DEF N
<1>3. DOMAIN t = 1 .. N /\ Len(t) = N /\ DOMAIN b = 1 .. N /\ Len(b) = N
  BY <1>1
<1> HIDE DEF t, b
<1>4. 1 .. RawMax \subseteq Int /\ 0 .. kBpsDenominator - 1 \subseteq Int
  BY WidthAssumption, BandsAssumption
<1> DEFINE v == parse_ascending_list(t, 1 .. RawMax)
           p == parse_ascending_list(b, 0 .. kBpsDenominator - 1)
<1>5. v.ok => is_sorted(v.value) /\ \A n \in DOMAIN v.value :
                                      v.value[n] \in 1 .. RawMax
  BY <1>1, <1>3, <1>4, AcceptedList
<1>6. p.ok => is_sorted(p.value) /\ \A n \in DOMAIN p.value :
                                      p.value[n] \in 0 .. kBpsDenominator - 1
  BY <1>1, <1>3, <1>4, AcceptedList
<1> HIDE DEF v, p
<1>7. v.ok => volume_thresholds_valid(v.value)
  BY <1>5, WidthAssumption DEF volume_thresholds_valid
<1>8. p.ok => \A s \in {"bid", "ask"} : bps_thresholds_valid(s, p.value)
  BY <1>6, BandsAssumption DEF bps_thresholds_valid
<1> QED BY <1>2, <1>7, <1>8 DEF v, p

\* An argument's list, when the flag was given.
IsCsv(x) == x = Absent \/ x[1] \in Seq(DecimalText)

Usable ==
  IF kind = "volume" THEN volume_thresholds_valid(list)
  ELSE \A s \in {"bid", "ask"} : bps_thresholds_valid(s, list)

UsableInv ==
  /\ args \in Args
  /\ kind \in {"price", "volume"} /\ side \in {"bid", "ask"}
  /\ phase = "override" =>
       IsCsv(flags.volume_thresholds_csv) /\ IsCsv(flags.price_bps_csv)
  /\ phase \in {"read", "print", "bid", "ask"} => Usable
  /\ error # "invalid_argument"

LEMMA ExtractedLists ==
  ASSUME NEW a \in Args, extract_flags(a).ok
  PROVE  /\ IsCsv(extract_flags(a).value.volume_thresholds_csv)
         /\ IsCsv(extract_flags(a).value.price_bps_csv)
<1> DEFINE Arg == [flag : STRING, csv : Seq(DecimalText)]
           volume == Given(a, "--volume-thresholds=")
           price == Given(a, "--price-bps=")
           Csv(given) == IF given = << >> THEN Absent ELSE << given[1].csv >>
<1>1. a \in Seq(Arg)
  BY ClientAssumption
<1> HIDE DEF Arg
<1>2. volume \in Seq(Arg) /\ price \in Seq(Arg)
  BY <1>1, AtIndicesProperties DEF Given
<1>3. /\ extract_flags(a).value.volume_thresholds_csv = Csv(volume)
      /\ extract_flags(a).value.price_bps_csv = Csv(price)
  BY DEF extract_flags, Ok, Error
<1> HIDE DEF volume, price
<1>4. ASSUME NEW given \in Seq(Arg) PROVE IsCsv(Csv(given))
  <2>1. CASE given = << >>
    BY <2>1 DEF IsCsv
  <2>2. CASE given # << >>
    <3>1. 1 \in DOMAIN given
      BY <2>2
    <3>2. given[1] \in Arg
      BY <3>1, ElementType, Zenon
    <3>3. given[1].csv \in Seq(DecimalText)
      BY <3>2 DEF Arg
    <3> QED BY <2>2, <3>3 DEF IsCsv
  <2> QED BY <2>1, <2>2
<1> QED BY <1>2, <1>3, <1>4

\* Only the check of the list fails with invalid_argument.
LEMMA StepErrors ==
  ASSUME Step, ListValid, error # "invalid_argument"
  PROVE  error' # "invalid_argument"
<1>1. ASSUME NEW e, Fail(e), e # "invalid_argument"
      PROVE  error' # "invalid_argument"
  BY <1>1 DEF Fail
<1>2. \A v : ~from_raw_safe(v).ok =>
               from_raw_safe(v).error # "invalid_argument"
  BY DEF from_raw_safe, Ok, Error
<1>3. ~Vwap.ok => Vwap.error # "invalid_argument"
  <2>1. CASE AtEdge
    BY <2>1 DEF Vwap, fixed_divide, Ok, Error
  <2>2. CASE ~AtEdge
    BY <2>2 DEF Vwap, vwap_at_partial_fill, vwap_numerator, Ok, Error
  <2> QED BY <2>1, <2>2
<1>4. CASE RejectList
  BY <1>4 DEF RejectList
<1>5. CASE RejectReference \/ RejectLevel
  BY <1>1, <1>5 DEF RejectReference, RejectLevel
<1>6. CASE EnterVolumeLevel
  BY <1>1, <1>2, <1>6 DEF EnterVolumeLevel
<1>7. CASE CrossPrice \/ RestOfPrice
  BY <1>1, <1>2, <1>7 DEF CrossPrice, RestOfPrice, PushPriceBand
<1>8. CASE AddPriceLevel
  BY <1>1, <1>2, <1>8 DEF AddPriceLevel
<1>9. CASE CrossVolume
  BY <1>1, <1>3, <1>9 DEF CrossVolume
<1>10. CASE \/ EmptySide \/ Enter \/ EnterPriceLevel \/ StopWalking
            \/ AddVolumeLevel \/ LevelsEnd \/ RestOfVolume \/ Return
  BY <1>10 DEF EmptySide, Enter, EnterPriceLevel, StopWalking, AddVolumeLevel,
               LevelsEnd, RestOfVolume, Return
<1> QED BY <1>4, <1>5, <1>6, <1>7, <1>8, <1>9, <1>10 DEF Step

LEMMA UsableStep == UsableInv /\ [ClientNext]_allVars => UsableInv'
<1> SUFFICES ASSUME UsableInv, [ClientNext]_allVars PROVE UsableInv'
  OBVIOUS
<1>1. CASE ExtractFlags
  <2>1. /\ UNCHANGED << args, kind, side, error >>
        /\ \/ /\ extract_flags(args).ok /\ phase' = "override"
              /\ flags' = extract_flags(args).value
           \/ phase' = "usage"
    BY <1>1 DEF ExtractFlags, vars, argVars
  <2>2. phase' = "override" =>
          IsCsv(flags'.volume_thresholds_csv) /\ IsCsv(flags'.price_bps_csv)
    BY <2>1, ExtractedLists DEF UsableInv
  <2> QED BY <2>1, <2>2 DEF UsableInv
<1>2. CASE ApplyOverride
  <2>1. /\ UNCHANGED << args, kind, side, error >> /\ phase = "override"
        /\ \/ phase' = "usage"
           \/ phase' = "read" /\ list' = Default
           \/ /\ phase' = "read" /\ Override # Absent /\ Parsed(Override[1]).ok
              /\ list' = Parsed(Override[1]).value
    BY <1>2 DEF ApplyOverride
  <2>2. Override # Absent => Override[1] \in Seq(DecimalText)
    BY <2>1 DEF UsableInv, Override, IsCsv
  <2>3. phase' = "read" => Usable'
    <3>1. CASE list' = Default
      BY <2>1, <3>1, ClientAssumption DEF Default, Usable
    <3>2. CASE /\ Override # Absent /\ Parsed(Override[1]).ok
               /\ list' = Parsed(Override[1]).value
      BY <2>1, <2>2, <3>2, ParsedListsAreValid DEF Parsed, Usable
    <3> QED BY <2>1, <3>1, <3>2
  <2> QED BY <2>1, <2>3 DEF UsableInv
<1>3. CASE ReadBook \/ PrintLine
  BY <1>3 DEF ReadBook, PrintLine, vars, argVars, UsableInv, Usable
<1>4. CASE CallBids \/ CallAsks
  BY <1>4 DEF CallBids, CallAsks, Call, UsableInv, Usable
<1>5. CASE phase \in {"bid", "ask"} /\ Step /\ UNCHANGED clientVars
  <2>1. UNCHANGED << args, phase, flags >>
    BY <1>5 DEF clientVars
  <2>2. UNCHANGED << kind, side, list >>
    BY <1>5 DEF Step, RejectList, EmptySide, RejectReference, Enter,
         RejectLevel, EnterPriceLevel, EnterVolumeLevel, CrossPrice,
         StopWalking, AddPriceLevel, CrossVolume, AddVolumeLevel, LevelsEnd,
         RestOfPrice, RestOfVolume, Return, PushPriceBand, Fail, argVars
  <2>3. ListValid
    BY <1>5 DEF UsableInv, Usable, ListValid
  <2>4. error' # "invalid_argument"
    BY <1>5, <2>3, StepErrors DEF UsableInv
  <2> QED BY <2>1, <2>2, <2>4 DEF UsableInv, Usable
<1>6. CASE UNCHANGED allVars
  BY <1>6 DEF allVars, vars, argVars, clientVars, UsableInv, Usable
<1> QED BY <1>1, <1>2, <1>3, <1>4, <1>5, <1>6 DEF ClientNext

\* A list that main() accepted, or its default, never makes a call fail, on
\* either side and for any text on the command line: what
\* parse_volume_thresholds and parse_price_bps let through is what
\* volume_thresholds_valid and bps_thresholds_valid of both sides let through.
THEOREM AcceptedListsAreUsable == ClientSpec => []AcceptedListIsUsable
<1>1. ClientInit => UsableInv
  BY DEF ClientInit, Called, UsableInv
<1>2. UsableInv => AcceptedListIsUsable
  BY DEF UsableInv, AcceptedListIsUsable
<1> QED BY <1>1, <1>2, UsableStep, PTL DEF ClientSpec

-----------------------------------------------------------------------------
(* Volume bands are exact: the arithmetic.                                 *)

LEMMA DivMod ==
  ASSUME NEW m \in Nat, NEW d \in Nat \ {0}
  PROVE  /\ m \div d \in Nat /\ m % d \in Nat
         /\ m = (m \div d) * d + (m % d) /\ m % d < d
BY Z3

LEMMA HalfUp ==
  ASSUME NEW d \in Nat \ {0}
  PROVE  /\ (d \div 2) + (d % 2) \in Nat
         /\ d <= 2 * ((d \div 2) + (d % 2))
         /\ 2 * ((d \div 2) + (d % 2)) <= d + 1
BY Z3

\* A rounded quotient is within half a unit of the exact one.
LEMMA RoundNearest ==
  ASSUME NEW n \in Int, NEW d \in Nat \ {0}
  PROVE  /\ 2 * (round_div_nearest_away(n, d) * d - n) <= d
         /\ -d <= 2 * (round_div_nearest_away(n, d) * d - n)
<1> DEFINE m == Abs(n)
           h == (d \div 2) + (d % 2)
           q == m \div d
           r == m % d
           up == IF r >= h THEN 1 ELSE 0
<1>1. m \in Nat /\ (n >= 0 => n = m) /\ (n < 0 => n = -m)
  BY DEF Abs
<1>2. round_div_nearest_away(n, d) = IF n >= 0 THEN q + up ELSE -(q + up)
  BY DEF round_div_nearest_away
<1>3. h \in Nat /\ d <= 2 * h /\ 2 * h <= d + 1
  BY HalfUp
<1> HIDE DEF m, h
<1>4. q \in Nat /\ r \in Nat /\ m = q * d + r /\ r < d
  BY <1>1, DivMod
<1> HIDE DEF q, r
<1> DEFINE a == q * d
           b == (q + up) * d
<1>5. a \in Nat
  BY <1>4
<1>6. /\ up = 1 => b = a + d
      /\ up = 0 => b = a
  BY <1>4, Z3
<1>7. (up = 1 /\ r >= h) \/ (up = 0 /\ r < h)
  BY <1>3, <1>4
<1>8. up \in {0, 1} /\ q + up \in Nat /\ -(q + up) \in Int
  BY <1>4
<1>9. (-(q + up)) * d = -b
  BY <1>8, Z3
<1>10. m = a + r
  BY <1>4
<1> HIDE DEF a, b, up
<1>11. b \in Nat /\ 2 * (b - m) <= d /\ -d <= 2 * (b - m)
  BY <1>3, <1>4, <1>5, <1>6, <1>7, <1>10
<1>12. CASE n >= 0
  <2>1. round_div_nearest_away(n, d) * d - n = b - m
    BY <1>1, <1>2, <1>12 DEF b
  <2> QED BY <1>11, <2>1
<1>13. CASE n < 0
  <2>1. round_div_nearest_away(n, d) * d = -b
    BY <1>2, <1>9, <1>13
  <2>2. n = -m
    BY <1>1, <1>13
  <2> HIDE DEF b
  <2> DEFINE y == round_div_nearest_away(n, d) * d
  <2>3. y = -b
    BY <2>1
  <2> HIDE DEF y
  <2>4. 2 * (y - n) <= d /\ -d <= 2 * (y - n)
    BY <1>1, <1>11, <2>2, <2>3
  <2> QED BY <2>4 DEF y
<1> QED BY <1>12, <1>13

\* A fill that ends within a level: from the error of the quotient (v), of the
\* sum of notionals (P) and of the level's own notional (L).
LEMMA PartialFill ==
  ASSUME NEW c \in Nat \ {0}, NEW p \in Nat \ {0}, NEW N \in Nat, NEW Z \in Nat,
         NEW R \in Nat, NEW z \in Nat, NEW L \in Int, NEW P \in Int,
         NEW v \in Int, NEW m \in Nat \ {0},
         R < L, 2 * (L * c - p * z) <= c,
         2 * (P - N * c) <= (m - 1) * c, -((m - 1) * c) <= 2 * (P - N * c),
         2 * (v * (Z * p + R * c) - (N + R) * p * c) <= Z * p + R * c,
         -(Z * p + R * c) <= 2 * (v * (Z * p + R * c) - (N + R) * p * c)
  PROVE  2 * Abs(v * (Z * p + R * c) - (P + R * c) * p)
           <= (m * c + Z + z) * p + Abs(v - p) * c
<1> DEFINE D == Z * p + R * c
           x == v * D
           k == (m - 1) * c
           e == P - N * c
           y == (P + R * c) * p
           n == (N + R) * p * c
           Rc == R * c
           Lc == L * c
           pz == p * z
           Zp == Z * p
           kp == k * p
           ep == e * p
           cp == c * p
           g == Abs(v - p) * c
<1>1. /\ D \in Nat /\ x \in Int /\ k \in Nat /\ e \in Int /\ y \in Int
      /\ n \in Int /\ Rc \in Nat /\ Lc \in Int /\ pz \in Nat /\ Zp \in Nat
      /\ kp \in Nat /\ ep \in Int /\ cp \in Nat
  BY Z3
<1>2. g \in Nat
  BY Z3 DEF Abs
<1>3. Rc + c <= Lc
  <2>1. (R + 1) * c <= L * c
    BY ProductMonotone
  <2>2. (R + 1) * c = R * c + c
    BY Z3
  <2> QED BY <2>1, <2>2
<1>4. y = n + ep
  BY Z3
<1>5. (m * c + Z + z) * p = kp + cp + Zp + pz
  BY Z3
<1>6. 2 * ep <= kp /\ -kp <= 2 * ep
  <2>1. 2 * e <= k /\ -k <= 2 * e
    OBVIOUS
  <2> HIDE DEF e, k
  <2>2. (2 * e) * p <= k * p /\ (-k) * p <= (2 * e) * p
    BY <1>1, <2>1, ProductMonotone
  <2>3. (2 * e) * p = 2 * (e * p) /\ (-k) * p = -(k * p)
    BY <1>1, Z3
  <2> QED BY <2>2, <2>3
<1>7. 2 * (x - n) <= D /\ -D <= 2 * (x - n) /\ D = Zp + Rc
  OBVIOUS
<1>8. 2 * (Lc - pz) <= c
  OBVIOUS
<1> HIDE DEF D, x, k, e, y, n, Rc, Lc, pz, Zp, kp, ep, cp, g
<1>9. 2 * Abs(x - y) <= kp + cp + Zp + pz + g
  BY <1>1, <1>2, <1>3, <1>4, <1>6, <1>7, <1>8 DEF Abs
<1> QED BY <1>5, <1>9 DEF x, y, g, D, Rc, Zp

\* A fill that ends at the far edge of a level: its size is known exactly.
LEMMA EdgeFill ==
  ASSUME NEW c \in Nat \ {0}, NEW p \in Nat \ {0}, NEW N \in Nat, NEW Z \in Nat,
         NEW R \in Nat, NEW z \in Nat, NEW P \in Int,
         NEW v \in Int, NEW m \in Nat \ {0},
         2 * (R * c - p * z) <= c, -c <= 2 * (R * c - p * z),
         2 * (P - N * c) <= (m - 1) * c, -((m - 1) * c) <= 2 * (P - N * c),
         2 * (v * (Z + z) - (N + R) * c) <= Z + z,
         -(Z + z) <= 2 * (v * (Z + z) - (N + R) * c)
  PROVE  2 * Abs(v * (Z * p + R * c) - (P + R * c) * p)
           <= (m * c + Z + z) * p + Abs(v - p) * c
<1> DEFINE D == Z + z
           k == (m - 1) * c
           e == P - N * c
           f == R * c - p * z
           w == v * D - (N + R) * c
           x == v * (Z * p + R * c)
           y == (P + R * c) * p
           wp == w * p
           vf == v * f
           kp == k * p
           ep == e * p
           cp == c * p
           Dp == D * p
           g == Abs(v - p) * c
           av == Abs(v)
           avc == av * c
<1>1. /\ D \in Nat /\ k \in Nat /\ e \in Int /\ f \in Int /\ w \in Int
      /\ x \in Int /\ y \in Int /\ wp \in Int /\ vf \in Int /\ kp \in Nat
      /\ ep \in Int /\ cp \in Nat /\ Dp \in Nat
  BY Z3
<1>2. g \in Nat /\ av \in Nat /\ avc \in Nat
  BY Z3 DEF Abs
<1>3. x - y = wp + vf - ep
  BY Z3
<1>4. (m * c + Z + z) * p = kp + cp + Dp
  BY Z3
<1>5. /\ 2 * e <= k /\ -k <= 2 * e /\ 2 * f <= c /\ -c <= 2 * f
      /\ 2 * w <= D /\ -D <= 2 * w
  OBVIOUS
<1>6. avc <= g + cp
  <2> DEFINE u == Abs(v - p)
  <2>1. u \in Nat /\ av \in Nat /\ av <= u + p
    BY DEF Abs
  <2> HIDE DEF u, av
  <2>2. av * c <= (u + p) * c
    BY <2>1, ProductMonotone
  <2>3. (u + p) * c = u * c + c * p
    BY <2>1, Z3
  <2> QED BY <2>2, <2>3 DEF u
<1>7. v = av \/ v = -av
  BY DEF Abs
<1> HIDE DEF D, k, e, f, w, x, y, g, av
<1>8. 2 * ep <= kp /\ -kp <= 2 * ep
  <2>1. (2 * e) * p <= k * p /\ (-k) * p <= (2 * e) * p
    BY <1>1, <1>5, ProductMonotone
  <2>2. (2 * e) * p = 2 * (e * p) /\ (-k) * p = -(k * p)
    BY <1>1, Z3
  <2> QED BY <2>1, <2>2
<1>9. 2 * wp <= Dp /\ -Dp <= 2 * wp
  <2>1. (2 * w) * p <= D * p /\ (-D) * p <= (2 * w) * p
    BY <1>1, <1>5, ProductMonotone
  <2>2. (2 * w) * p = 2 * (w * p) /\ (-D) * p = -(D * p)
    BY <1>1, Z3
  <2> QED BY <2>1, <2>2
<1>10. 2 * vf <= avc /\ -avc <= 2 * vf
  <2>1. av * (2 * f) <= av * c /\ av * (-c) <= av * (2 * f)
    BY <1>1, <1>2, <1>5, ProductMonotone
  <2>2. av * (2 * f) = 2 * (av * f) /\ av * (-c) = -(av * c)
    BY <1>1, <1>2, Z3
  <2>3. v * f = av * f \/ v * f = -(av * f)
    BY <1>1, <1>2, <1>7, Z3
  <2> DEFINE af == av * f
             ac == av * c
  <2>4. af \in Int /\ ac \in Int
    BY <1>1, <1>2
  <2>5. 2 * af <= ac /\ -ac <= 2 * af
    BY <2>1, <2>2
  <2>6. vf = af \/ vf = -af
    BY <2>3
  <2>7. avc = ac
    OBVIOUS
  <2> HIDE DEF af, ac, vf, avc
  <2> QED BY <2>4, <2>5, <2>6, <2>7
<1> HIDE DEF wp, vf, kp, ep, cp, Dp, avc
<1>11. 2 * Abs(x - y) <= kp + cp + Dp + g
  BY <1>1, <1>2, <1>3, <1>6, <1>8, <1>9, <1>10 DEF Abs
<1> QED BY <1>4, <1>11 DEF x, y, g


-----------------------------------------------------------------------------
(* Volume bands are exact: sums over the levels.                           *)

LEMMA ValueTypes ==
  ASSUME IInv
  PROVE  [k \in DOMAIN levels |-> levels[k].price * levels[k].size]
           \in [DOMAIN levels -> Int]
<1>1. \A k \in DOMAIN levels : levels[k].price \in Int /\ levels[k].size \in Int
  BY PriceTypes
<1>2. \A k \in DOMAIN levels : levels[k].price * levels[k].size \in Int
  BY <1>1
<1> QED BY <1>2

\* The sums over no level are 0, and those over some are integers.
LEMMA SumTypes ==
  ASSUME IInv, NEW S
  PROVE  SizeOf(S) \in Int /\ NotionalOf(S) \in Int /\ ValueOf(S) \in Int
<1> DEFINE f == [k \in DOMAIN levels |-> levels[k].size]
           g == [k \in DOMAIN levels |->
                   fixed_multiply(levels[k].price, levels[k].size)]
           h == [k \in DOMAIN levels |-> levels[k].price * levels[k].size]
<1>1. /\ f \in [DOMAIN levels -> Int] /\ g \in [DOMAIN levels -> Int]
      /\ h \in [DOMAIN levels -> Int] /\ ArgsTyped
  BY TermTypes, ValueTypes, PriceTypes
<1>2. SizeOf(S) = Total(f, S) /\ NotionalOf(S) = Total(g, S)
      /\ ValueOf(S) = Total(h, S)
  BY DEF SizeOf, NotionalOf, ValueOf
<1> HIDE DEF f, g, h
<1> QED BY <1>1, <1>2, TotalType

LEMMA SumsOfNone ==
  ASSUME IInv
  PROVE  SizeOf(1 .. 0) = 0 /\ NotionalOf(1 .. 0) = 0 /\ ValueOf(1 .. 0) = 0
<1> DEFINE f == [k \in DOMAIN levels |-> levels[k].size]
           g == [k \in DOMAIN levels |->
                   fixed_multiply(levels[k].price, levels[k].size)]
           h == [k \in DOMAIN levels |-> levels[k].price * levels[k].size]
<1>1. /\ f \in [DOMAIN levels -> Int] /\ g \in [DOMAIN levels -> Int]
      /\ h \in [DOMAIN levels -> Int] /\ ArgsTyped
  BY TermTypes, ValueTypes, PriceTypes
<1>2. SizeOf(1 .. 0) = Total(f, 1 .. 0) /\ NotionalOf(1 .. 0) = Total(g, 1 .. 0)
      /\ ValueOf(1 .. 0) = Total(h, 1 .. 0)
  BY DEF SizeOf, NotionalOf, ValueOf
<1> HIDE DEF f, g, h
<1> QED BY <1>1, <1>2, TotalOfNone

LEMMA PassValue ==
  ASSUME IInv, NEW j \in DOMAIN levels
  PROVE  ValueOf(1 .. j) =
           ValueOf(1 .. j - 1) + levels[j].price * levels[j].size
<1> DEFINE h == [k \in DOMAIN levels |-> levels[k].price * levels[k].size]
<1>1. h \in [DOMAIN levels -> Int] /\ ArgsTyped
  BY ValueTypes, PriceTypes
<1>2. h[j] = levels[j].price * levels[j].size
  OBVIOUS
<1>3. /\ ValueOf(1 .. j) = Total(h, 1 .. j)
      /\ ValueOf(1 .. j - 1) = Total(h, 1 .. j - 1)
  BY DEF ValueOf
<1> HIDE DEF h
<1> QED BY <1>1, <1>2, <1>3, TotalOfNext

\* The notional of a level is its value to within half a unit.
LEMMA NotionalNearest ==
  ASSUME NEW p \in Int, NEW z \in Int
  PROVE  /\ fixed_multiply(p, z) \in Int
         /\ 2 * (fixed_multiply(p, z) * SizeScale - p * z) <= SizeScale
         /\ -SizeScale <= 2 * (fixed_multiply(p, z) * SizeScale - p * z)
<1> DEFINE n == p * z
<1>1. n \in Int /\ SizeScale \in Nat \ {0}
  BY WidthAssumption
<1>2. fixed_multiply(p, z) = round_div_nearest_away(n, SizeScale)
  BY DEF fixed_multiply
<1> HIDE DEF n
<1>3. /\ round_div_nearest_away(n, SizeScale) \in Int
      /\ 2 * (round_div_nearest_away(n, SizeScale) * SizeScale - n) <= SizeScale
      /\ -SizeScale
           <= 2 * (round_div_nearest_away(n, SizeScale) * SizeScale - n)
  BY <1>1, RoundNearest, RoundType
<1>4. /\ fixed_multiply(p, z) \in Int
      /\ 2 * (fixed_multiply(p, z) * SizeScale - n) <= SizeScale
      /\ -SizeScale <= 2 * (fixed_multiply(p, z) * SizeScale - n)
  BY <1>2, <1>3
<1> QED BY <1>4 DEF n

\* How far the sum of k notionals is from the value of their levels.
Tracks(k) ==
  /\ 2 * (ValueOf(1 .. k) - NotionalOf(1 .. k) * SizeScale) <= k * SizeScale
  /\ -(k * SizeScale) <= 2 * (ValueOf(1 .. k) - NotionalOf(1 .. k) * SizeScale)

\* One more level adds at most half a unit.
LEMMA OneMore ==
  ASSUME NEW c \in Nat \ {0}, NEW k \in Nat, NEW V \in Int, NEW N \in Int,
         NEW x \in Int, NEW y \in Int,
         2 * (V - N * c) <= k * c, -(k * c) <= 2 * (V - N * c),
         2 * (y * c - x) <= c, -c <= 2 * (y * c - x)
  PROVE  /\ 2 * ((V + x) - (N + y) * c) <= (k + 1) * c
         /\ -((k + 1) * c) <= 2 * ((V + x) - (N + y) * c)
<1> DEFINE a == N * c
           b == y * c
           d == k * c
<1>1. a \in Int /\ b \in Int /\ d \in Int
  OBVIOUS
<1>2. (N + y) * c = a + b /\ (k + 1) * c = d + c
  BY Z3
<1>3. /\ 2 * (V - a) <= d /\ -d <= 2 * (V - a)
      /\ 2 * (b - x) <= c /\ -c <= 2 * (b - x)
  OBVIOUS
<1> HIDE DEF a, b, d
<1>4. /\ 2 * ((V + x) - (a + b)) <= d + c
      /\ -(d + c) <= 2 * ((V + x) - (a + b))
  BY <1>1, <1>3
<1> QED BY <1>2, <1>4

LEMMA NotionalTracksValue ==
  ASSUME IInv, NEW j \in 0 .. Len(levels)
  PROVE  Tracks(j)
<1> DEFINE S == {k \in Nat : k <= Len(levels) => Tracks(k)}
<1>0. Len(levels) \in Nat /\ DOMAIN levels = 1 .. Len(levels)
      /\ SizeScale \in Nat \ {0}
  BY PriceTypes, WidthAssumption
<1>1. 0 \in S
  <2>1. NotionalOf(1 .. 0) = 0 /\ ValueOf(1 .. 0) = 0
    BY SumsOfNone
  <2> QED BY <1>0, <2>1 DEF Tracks
<1>2. ASSUME NEW k \in Nat, k \in S PROVE k + 1 \in S
  <2> SUFFICES ASSUME k + 1 <= Len(levels) PROVE Tracks(k + 1)
    OBVIOUS
  <2>1. k + 1 \in DOMAIN levels /\ (k + 1) - 1 = k /\ Tracks(k)
    BY <1>0, <1>2
  <2> DEFINE p == levels[k + 1].price
             z == levels[k + 1].size
             x == p * z
             y == fixed_multiply(p, z)
  <2>2. p \in Int /\ z \in Int
    BY <2>1, PriceTypes
  <2>3. x \in Int
    BY <2>2
  <2>4. /\ y \in Int /\ 2 * (y * SizeScale - x) <= SizeScale
        /\ -SizeScale <= 2 * (y * SizeScale - x)
    BY <2>2, NotionalNearest
  <2>5. ValueOf(1 .. k + 1) = ValueOf(1 .. k) + x
    BY <2>1, PassValue
  <2>6. NotionalOf(1 .. k + 1) = NotionalOf(1 .. k) + y
    BY <2>1, PassLevel
  <2> DEFINE V == ValueOf(1 .. k)
             N == NotionalOf(1 .. k)
  <2>7. V \in Int /\ N \in Int
    BY SumTypes
  <2>8. /\ 2 * (V - N * SizeScale) <= k * SizeScale
        /\ -(k * SizeScale) <= 2 * (V - N * SizeScale)
    BY <2>1 DEF Tracks
  <2> HIDE DEF x, y, V, N
  <2>9. /\ 2 * ((V + x) - (N + y) * SizeScale) <= (k + 1) * SizeScale
        /\ -((k + 1) * SizeScale) <= 2 * ((V + x) - (N + y) * SizeScale)
    BY <1>0, <2>3, <2>4, <2>7, <2>8, OneMore
  <2> QED BY <2>5, <2>6, <2>9 DEF Tracks, V, N
<1> HIDE DEF S
<1>3. Nat \subseteq S
  BY <1>1, <1>2, SetInduction
<1>4. j \in S /\ j <= Len(levels)
  BY <1>0, <1>3
<1> QED BY <1>4 DEF S


-----------------------------------------------------------------------------
(* Volume bands are exact: the invariant.                                  *)

\* What the walk has added up.
VolumeWalked ==
  ~narrowed => /\ cum_size = SizeOf(1 .. i - 1)
               /\ cum_notional = NotionalOf(1 .. i - 1)
               /\ pc = "cross" => next_cum = NotionalOf(1 .. i)

\* No open threshold was reached by a level that the walk has left.
Unreached ==
  pc \in {"level", "cross", "rest"} /\ ~narrowed =>
    \A n \in DOMAIN list, k \in 0 .. i - 1 :
      next <= n => NotionalOf(1 .. k) < list[n]

\* One answer, as VolumeBandsAreExact states it.
IsVolumeBand(band, threshold) ==
  LET all == NotionalOf(DOMAIN levels)
  IN /\ band.notional_threshold = threshold
     /\ IF band.vwap = << >>
        THEN all < threshold /\ band.filled_notional = all
        ELSE /\ band.filled_notional = threshold
             /\ \E m \in DOMAIN levels : /\ Completes(m, threshold)
                                         /\ IsAverage(band.vwap[1], m, threshold)

VolumeProgress ==
  /\ pc # "done" => error = "none"
  /\ Len(result) = IF error = "none" THEN next - 1 ELSE 0
  /\ pc = "begin" => i = 1
  /\ pc = "rest" => i > Len(levels)
  /\ pc = "done" /\ error = "none" => next - 1 = Len(list)

VolumeAnswers ==
  ~narrowed => \A n \in DOMAIN result : IsVolumeBand(result[n], list[n])

VolumeInv ==
  kind = "volume" => VolumeWalked /\ Unreached /\ VolumeProgress /\ VolumeAnswers

\* At a level that was entered without losing bits: what the walk knows.
LEMMA EnteredLevel ==
  ASSUME IInv, VolumeWalked, pc = "cross", ~narrowed
  PROVE  /\ i \in DOMAIN levels /\ i \in Nat \ {0}
         /\ Level = levels[i]
         /\ Level.price \in Nat \ {0} /\ Level.size \in Nat
         /\ cum_notional \in Nat /\ cum_size \in Nat
         /\ LevelNotional = fixed_multiply(Level.price, Level.size)
         /\ LevelNotional \in Nat /\ next_cum = cum_notional + LevelNotional
<1> DEFINE m == fixed_multiply(Level.price, Level.size)
<1>1. /\ i \in DOMAIN levels /\ is_valid_level(Level.price, Level.size)
      /\ cum_notional \in Raw /\ cum_size \in Raw /\ next_cum \in Raw
      /\ cum_size >= 0 /\ cum_notional >= 0 /\ next_cum >= 0
  BY DEF IInv, AtLevel, TypeOK, NonNegative
<1>2. Level.price \in Int /\ Level.size \in Int /\ m \in Int
  BY <1>1, LevelFacts
<1>3. Level = levels[i] /\ i \in Nat \ {0}
  BY <1>1, PriceTypes DEF Level
<1>4. next_cum = cum_notional + m
  <2>1. NotionalOf(1 .. i) = NotionalOf(1 .. i - 1) + m
    BY <1>1, <1>3, PassLevel
  <2> HIDE DEF m
  <2> QED BY <2>1 DEF VolumeWalked
<1>5. m >= 0
  <2> DEFINE p == Level.price
             z == Level.size
             product == p * z
  <2>1. p \in Nat /\ z \in Nat
    BY <1>1, <1>2 DEF is_valid_level
  <2>2. product \in Nat
    <3> HIDE DEF p, z
    <3> QED BY <2>1
  <2>3. m = round_div_nearest_away(product, SizeScale)
    BY DEF fixed_multiply
  <2> HIDE DEF product, m
  <2> QED BY <2>2, <2>3, RoundType, WidthAssumption
<1> HIDE DEF m
<1>6. RawMax \in Nat /\ cum_notional \in Nat /\ cum_size \in Nat
      /\ next_cum \in Nat /\ next_cum <= RawMax
  BY <1>1, WidthAssumption DEF Raw
<1>7. Fits(m)
  BY <1>2, <1>4, <1>5, <1>6 DEF Fits, Raw
<1>8. LevelNotional = m
  BY <1>2, <1>7, NarrowId DEF LevelNotional, m
<1>9. Level.price \in Nat \ {0} /\ Level.size \in Nat
  BY <1>1, <1>2 DEF is_valid_level
<1>10. m \in Nat
  BY <1>2, <1>5
<1> QED BY <1>1, <1>3, <1>4, <1>6, <1>8, <1>9, <1>10 DEF m

\* The price of a threshold that falls within the level or on its far edge.
LEMMA VwapIsAverage ==
  ASSUME IInv, VolumeWalked, pc = "cross", kind = "volume", ~narrowed,
         next \in DOMAIN list, next_cum >= list[next], Vwap.ok,
         Fits(list[next] - cum_notional),
         AtEdge => Fits(cum_size + Level.size)
  PROVE  IsAverage(Vwap.value, i, list[next])
<1> DEFINE c == SizeScale
           p == Level.price
           N == cum_notional
           Z == cum_size
           t == list[next]
           R == t - N
           z == Level.size
           L == LevelNotional
           P == ValueOf(1 .. i - 1)
           v == Vwap.value
<1>1. /\ i \in DOMAIN levels /\ i \in Nat \ {0} /\ Level = levels[i]
      /\ p \in Nat \ {0} /\ z \in Nat /\ N \in Nat /\ Z \in Nat
      /\ L = fixed_multiply(p, z) /\ L \in Nat /\ next_cum = N + L
  BY EnteredLevel
<1>2. c \in Nat \ {0} /\ t \in Int
  BY PriceTypes, WidthAssumption
<1>3. N < t
  BY <1>2 DEF IInv, Ahead, ArgsTyped
<1>4. R \in Nat /\ R \in Int /\ R > 0 /\ R <= L
  <2>1. next_cum >= t
    OBVIOUS
  <2> HIDE DEF t, N, L
  <2> QED BY <1>1, <1>2, <1>3, <2>1
<1>5. Remaining = R
  <2>1. Remaining = Narrow(R) /\ Fits(R)
    BY DEF Remaining
  <2> HIDE DEF R
  <2> QED BY <1>4, <2>1, NarrowId
<1>6. v \in Int
  BY VwapFacts
<1>7. P \in Int
  BY SumTypes
<1>8. /\ 2 * (P - N * c) <= (i - 1) * c /\ -((i - 1) * c) <= 2 * (P - N * c)
  <2>1. i - 1 \in 0 .. Len(levels)
    <3>1. i \in 1 .. Len(levels) /\ Len(levels) \in Nat
      BY <1>1, PriceTypes, Zenon
    <3> HIDE DEF c, p, N, Z, t, R, z, L, P, v
    <3> QED BY <3>1
  <2>2. Tracks(i - 1)
    BY <2>1, NotionalTracksValue
  <2>3. N = NotionalOf(1 .. i - 1)
    BY DEF VolumeWalked
  <2> QED BY <2>2, <2>3 DEF Tracks
<1>9. 2 * (L * c - p * z) <= c /\ -c <= 2 * (L * c - p * z)
  <2>1. p \in Int /\ z \in Int
    BY <1>1
  <2> HIDE DEF p, z, L
  <2> QED BY <1>1, <2>1, NotionalNearest
<1>10. SUFFICES 2 * Abs(v * (Z * p + R * c) - (P + R * c) * p)
                  <= (i * c + Z + z) * p + Abs(v - p) * c
  <2>1. N = NotionalOf(1 .. i - 1) /\ Z = SizeOf(1 .. i - 1)
    BY DEF VolumeWalked
  <2>2. p = levels[i].price /\ z = levels[i].size
    BY <1>1
  <2> HIDE DEF p, z, N, Z, t, P, v
  <2> QED BY <2>1, <2>2 DEF IsAverage, t, P, v
<1>11. CASE AtEdge
  <2>1. R = L
    BY <1>5, <1>11 DEF AtEdge
  <2> DEFINE nn == Narrow(N + Remaining)
             zz == Narrow(Z + z)
  <2>2. Vwap = fixed_divide(nn, zz)
    BY <1>11 DEF Vwap
  <2>3. nn = N + R
    <3>1. N + R = t
      BY <1>1, <1>2
    <3>2. Fits(t)
      BY ElementType, Zenon DEF IInv, ArgsTyped, Fits
    <3> HIDE DEF t, R
    <3> QED BY <1>2, <1>5, <3>1, <3>2, NarrowId
  <2>4. zz = Z + z
    <3>1. Z + z \in Int /\ Fits(Z + z)
      BY <1>1, <1>11
    <3> QED BY <3>1, NarrowId
  <2> DEFINE x == (N + R) * c
             d == Z + z
  <2>5. /\ d \in Int /\ x \in Int
    <3> HIDE DEF R, N, Z, z, c
    <3> QED BY <1>1, <1>2, <1>4
  <2>6. Vwap = IF d <= 0 THEN Error("argument_out_of_domain")
               ELSE Ok(round_div_nearest_away(x, d))
    <3> HIDE DEF nn, zz, N, R, Z, z
    <3> QED BY <2>2, <2>3, <2>4 DEF fixed_divide
  <2> HIDE DEF x, d
  <2>7. d > 0 /\ v = round_div_nearest_away(x, d)
    BY <2>5, <2>6 DEF Ok, Error
  <2>8. d \in Nat \ {0}
    BY <2>5, <2>7
  <2>9. 2 * (v * d - x) <= d /\ -d <= 2 * (v * d - x)
    <3> HIDE DEF v
    <3> QED BY <2>5, <2>7, <2>8, RoundNearest
  <2>10. /\ 2 * (v * (Z + z) - (N + R) * c) <= Z + z
         /\ -(Z + z) <= 2 * (v * (Z + z) - (N + R) * c)
    BY <2>9 DEF x, d
  <2>11. 2 * (R * c - p * z) <= c /\ -c <= 2 * (R * c - p * z)
    <3> HIDE DEF R, L, p, z, c
    <3> QED BY <1>9, <2>1
  <2> HIDE DEF c, p, N, Z, R, z, P, v
  <2> QED BY <1>1, <1>2, <1>4, <1>6, <1>7, <1>8, <2>10, <2>11, EdgeFill
<1>12. CASE ~AtEdge
  <2>1. R < L
    <3>1. R # L
      BY <1>5, <1>12 DEF AtEdge
    <3> HIDE DEF R, L
    <3> QED BY <1>1, <1>4, <3>1
  <2> DEFINE x == (N + R) * p * c
             d == Z * p + R * c
             n == vwap_numerator(N, R, p)
  <2>2. x \in Int /\ d \in Int
    <3> HIDE DEF R, N, Z, p, c
    <3> QED BY <1>1, <1>2, <1>4
  <2>3. Vwap = vwap_at_partial_fill(N, Z, R, p)
    <3> HIDE DEF R
    <3> QED BY <1>5, <1>12 DEF Vwap
  <2>4. Vwap = IF p <= 0 THEN Error("argument_out_of_domain")
               ELSE IF ~n.ok THEN n
               ELSE IF d <= 0 THEN Error("argument_out_of_domain")
               ELSE Ok(round_div_nearest_away(n.value, d))
    <3> HIDE DEF N, Z, R, p
    <3> QED BY <2>3 DEF vwap_at_partial_fill
  <2>5. n = Error("result_out_of_range") \/ n = Ok(x)
    <3> HIDE DEF N, R, p
    <3> QED BY DEF vwap_numerator
  <2> HIDE DEF x, d, n
  <2>6. d > 0 /\ v = round_div_nearest_away(x, d)
    <3> HIDE DEF p
    <3> QED BY <1>1, <2>2, <2>4, <2>5 DEF Ok, Error
  <2>7. d \in Nat \ {0}
    BY <2>2, <2>6
  <2>8. 2 * (v * d - x) <= d /\ -d <= 2 * (v * d - x)
    <3> HIDE DEF v
    <3> QED BY <2>2, <2>6, <2>7, RoundNearest
  <2>9. /\ 2 * (v * (Z * p + R * c) - (N + R) * p * c) <= Z * p + R * c
        /\ -(Z * p + R * c) <= 2 * (v * (Z * p + R * c) - (N + R) * p * c)
    BY <2>8 DEF x, d
  <2>10. L \in Int
    BY <1>1
  <2> HIDE DEF c, p, N, Z, R, z, P, v, L
  <2> QED BY <1>1, <1>2, <1>4, <1>6, <1>7, <1>8, <1>9, <2>1, <2>9, <2>10,
             PartialFill
<1> QED BY <1>11, <1>12


\* Answers depend on the arguments of the call and on the result alone.
LEMMA SameSums ==
  ASSUME levels' = levels
  PROVE  \A S : /\ SizeOf(S)' = SizeOf(S) /\ NotionalOf(S)' = NotionalOf(S)
                /\ ValueOf(S)' = ValueOf(S)
BY DEF SizeOf, NotionalOf, ValueOf, Total

LEMMA SameBand ==
  ASSUME levels' = levels
  PROVE  \A b, t : IsVolumeBand(b, t) => IsVolumeBand(b, t)'
<1>1. \A m, t : Completes(m, t)' <=> Completes(m, t)
  BY SameSums DEF Completes
<1>2. \A v, m, t : IsAverage(v, m, t)' <=> IsAverage(v, m, t)
  BY SameSums DEF IsAverage
<1> QED BY <1>1, <1>2, SameSums DEF IsVolumeBand

LEMMA SameAnswers ==
  ASSUME VolumeAnswers, UNCHANGED << levels, list, result >>,
         ~narrowed' => ~narrowed
  PROVE  VolumeAnswers'
<1>1. \A b, t : IsVolumeBand(b, t) => IsVolumeBand(b, t)'
  BY SameBand
<1> QED BY <1>1 DEF VolumeAnswers

\* A call that failed has no bands.
LEMMA FailVolume ==
  ASSUME VolumeInv, NEW errc, errc # "none", Fail(errc)
  PROVE  VolumeInv'
<1>1. /\ pc' = "done" /\ error' # "none" /\ result' = << >>
      /\ UNCHANGED << kind, side, levels, list, i, next, cum_size,
                      cum_notional, next_cum, narrowed >>
  BY DEF Fail, argVars, sumVars
<1> SUFFICES ASSUME kind = "volume" PROVE VolumeInv'
  BY <1>1 DEF VolumeInv
<1>2. VolumeWalked'
  BY <1>1 DEF VolumeInv, VolumeWalked, SizeOf, NotionalOf, Total
<1>3. Unreached' /\ VolumeProgress' /\ VolumeAnswers'
  BY <1>1 DEF Unreached, VolumeProgress, VolumeAnswers
<1> QED BY <1>2, <1>3 DEF VolumeInv

\* Steps that only move the program counter: entering the loop, no threshold
\* is reached, because none is 0.
LEMMA MoveVolume ==
  ASSUME IInv, VolumeInv,
         UNCHANGED << argVars, i, next, sumVars, result, error, numerator >>,
         \/ EmptySide \/ Enter \/ EnterPriceLevel \/ StopWalking \/ LevelsEnd
         \/ Return \/ UNCHANGED vars
  PROVE  VolumeInv'
<1>1. UNCHANGED << kind, side, levels, list, i, next, cum_size, cum_notional,
                   next_cum, narrowed, result, error >>
  BY DEF argVars, sumVars
<1> SUFFICES ASSUME kind = "volume" PROVE VolumeInv'
  BY <1>1 DEF VolumeInv
<1>0. VolumeWalked /\ Unreached /\ VolumeProgress /\ VolumeAnswers
  BY DEF VolumeInv
<1>2. VolumeAnswers'
  BY <1>0, <1>1, SameAnswers
<1>3. Enter \/ LevelsEnd \/ Return \/ UNCHANGED vars
  BY DEF EmptySide, EnterPriceLevel, StopWalking
<1>4. pc' = "cross" => pc = "cross"
  BY <1>3 DEF Enter, LevelsEnd, Return, vars
<1>5. VolumeWalked'
  BY <1>0, <1>1, <1>4 DEF VolumeWalked, SizeOf, NotionalOf, Total
<1>6. Unreached' /\ VolumeProgress'
  <2>1. CASE Enter
    <3>1. /\ pc = "begin" /\ pc' = "level" /\ volume_thresholds_valid(list)
      BY <2>1 DEF Enter, ListValid
    <3>2. ASSUME ~narrowed, NEW n \in DOMAIN list, NEW k \in 0 .. i - 1
          PROVE  NotionalOf(1 .. k) < list[n]
      <4>1. i = 1 /\ NotionalOf(1 .. 0) = 0 /\ list[n] \in Int
        BY <3>1, PriceTypes, SumsOfNone, <1>0 DEF VolumeProgress
      <4>2. list[n] > 0
        BY <3>1 DEF volume_thresholds_valid
      <4>3. k = 0
        BY <4>1
      <4> QED BY <4>1, <4>2, <4>3
    <3>3. Unreached'
      BY <1>1, <3>2 DEF Unreached, NotionalOf, Total
    <3>4. VolumeProgress'
      BY <1>0, <1>1, <3>1 DEF VolumeProgress
    <3> QED BY <3>3, <3>4
  <2>2. CASE LevelsEnd
    <3>1. pc = "level" /\ pc' = "rest" /\ i > Len(levels)
      BY <2>2 DEF LevelsEnd
    <3> QED BY <1>0, <1>1, <3>1 DEF Unreached, VolumeProgress, NotionalOf, Total
  <2>3. CASE Return
    <3>1. pc = "rest" /\ pc' = "done" /\ next - 1 = Len(list)
      BY <2>3, PriceTypes DEF Return
    <3> QED BY <1>0, <1>1, <3>1 DEF Unreached, VolumeProgress
  <2>4. CASE UNCHANGED vars
    <3>1. pc' = pc
      BY <2>4 DEF vars
    <3> QED BY <1>0, <1>1, <3>1 DEF Unreached, VolumeProgress, NotionalOf, Total
  <2> QED BY <1>3, <2>1, <2>2, <2>3, <2>4
<1> QED BY <1>2, <1>5, <1>6 DEF VolumeInv

\* A level enters the walk: its notional joins the sum it is compared with.
LEMMA EnterVolumeExact ==
  ASSUME IInv, VolumeInv, EnterVolumeLevel
  PROVE  VolumeInv'
<1> DEFINE v == cum_notional + LevelNotional
           m == fixed_multiply(Level.price, Level.size)
           sum == from_raw_safe(v)
<1>0. /\ pc = "level" /\ kind = "volume" /\ i \in DOMAIN levels
      /\ VolumeWalked /\ Unreached /\ VolumeProgress /\ VolumeAnswers
      /\ cum_notional \in Int /\ Level = levels[i]
  BY WidthAssumption DEF EnterVolumeLevel, InLoop, VolumeInv, IInv, TypeOK, Raw,
                         Level
<1>1. m \in Int /\ LevelNotional \in Int /\ LevelNotional = Narrow(m)
  BY <1>0, LevelFacts, WidthAssumption DEF LevelNotional, Raw
<1>2. v \in Int
  BY <1>0, <1>1
<1>3. sum.ok => sum.value = v
  <2> HIDE DEF v
  <2> QED BY <1>2, SafeFacts
<1>4. CASE ~sum.ok
  <2>1. Fail(sum.error) /\ sum.error = "result_out_of_range"
    BY <1>4 DEF EnterVolumeLevel, from_raw_safe, Ok, Error
  <2> HIDE DEF sum
  <2>2. Fail("result_out_of_range")
    BY <2>1
  <2> QED BY <2>2, FailVolume
<1>5. CASE sum.ok
  <2>1. /\ next_cum' = v /\ narrowed' = (narrowed \/ ~Fits(m)) /\ pc' = "cross"
        /\ UNCHANGED << kind, side, levels, list, i, next, cum_size,
                        cum_notional, result, error >>
    <3>1. next_cum' = sum.value
      BY <1>5 DEF EnterVolumeLevel
    <3>2. next_cum' = v
      <4> HIDE DEF sum, v
      <4> QED BY <1>3, <1>5, <3>1
    <3> QED BY <1>5, <3>2 DEF EnterVolumeLevel, argVars
  <2>2. ~narrowed' => ~narrowed /\ next_cum' = cum_notional + m
    <3>1. ~narrowed' => ~narrowed /\ Fits(m)
      <4> HIDE DEF m
      <4> QED BY <2>1
    <3>2. Fits(m) => LevelNotional = m
      <4> HIDE DEF m
      <4> QED BY <1>1, NarrowId
    <3> HIDE DEF m
    <3> QED BY <2>1, <3>1, <3>2
  <2>3. NotionalOf(1 .. i) = NotionalOf(1 .. i - 1) + m
    BY <1>0, PassLevel
  <2> HIDE DEF v, m, sum
  <2>4. VolumeWalked'
    <3>1. ~narrowed' => /\ cum_size = SizeOf(1 .. i - 1)
                        /\ cum_notional = NotionalOf(1 .. i - 1)
                        /\ next_cum' = NotionalOf(1 .. i)
      BY <1>0, <2>2, <2>3 DEF VolumeWalked
    <3> QED BY <2>1, <3>1 DEF VolumeWalked, SizeOf, NotionalOf, Total
  <2>5. Unreached'
    BY <1>0, <2>1, <2>2 DEF Unreached, NotionalOf, Total
  <2>6. VolumeProgress'
    BY <1>0, <2>1 DEF VolumeProgress
  <2>7. VolumeAnswers'
    BY <1>0, <2>1, <2>2, SameAnswers
  <2> QED BY <2>1, <2>4, <2>5, <2>6, <2>7 DEF VolumeInv
<1> QED BY <1>4, <1>5

\* A level is left behind: it has reached none of the open thresholds.
LEMMA AddVolumeExact ==
  ASSUME IInv, VolumeInv, AddVolumeLevel
  PROVE  VolumeInv'
<1> DEFINE w == cum_size + Level.size
<1>0. /\ pc = "cross" /\ kind = "volume" /\ i \in DOMAIN levels
      /\ VolumeWalked /\ Unreached /\ VolumeProgress /\ VolumeAnswers
      /\ next <= Len(list) => ~(next_cum >= list[next])
      /\ cum_size \in Int /\ next_cum \in Int /\ Level = levels[i]
      /\ is_sorted(list)
  BY WidthAssumption DEF AddVolumeLevel, Reached, IInv, AtLevel, VolumeInv,
                         TypeOK, Raw, Level, Checked, ListValid,
                         volume_thresholds_valid
<1>1. /\ Len(levels) \in Nat /\ DOMAIN levels = 1 .. Len(levels)
      /\ Len(list) \in Nat /\ DOMAIN list = 1 .. Len(list)
      /\ next \in 1 .. Len(list) + 1 /\ \A n \in DOMAIN list : list[n] \in Int
      /\ Level.size \in Int /\ w \in Int
  BY <1>0, PriceTypes
<1>2. /\ cum_size' = Narrow(w) /\ cum_notional' = next_cum
      /\ narrowed' = (narrowed \/ ~Fits(w)) /\ pc' = "level" /\ i' = i + 1
      /\ UNCHANGED << kind, side, levels, list, next, next_cum, result, error >>
  BY DEF AddVolumeLevel, argVars
<1>3. ~narrowed' => ~narrowed /\ cum_size' = w
  <2> HIDE DEF w
  <2> QED BY <1>1, <1>2, NarrowId
<1>4. SizeOf(1 .. i) = SizeOf(1 .. i - 1) + Level.size
  BY <1>0, PassLevel
<1>5. i' - 1 = i
  BY <1>0, <1>1, <1>2
<1>6. VolumeWalked'
  <2>1. ~narrowed' => /\ cum_size' = SizeOf(1 .. i)
                      /\ cum_notional' = NotionalOf(1 .. i)
    BY <1>0, <1>2, <1>3, <1>4 DEF VolumeWalked
  <2> HIDE DEF w
  <2> QED BY <1>2, <1>5, <2>1 DEF VolumeWalked, SizeOf, NotionalOf, Total
<1> HIDE DEF w
<1>7. Unreached'
  <2>1. ASSUME ~narrowed, NEW n \in DOMAIN list, NEW k \in 0 .. i, next <= n
        PROVE  NotionalOf(1 .. k) < list[n]
    <3>1. CASE k = i
      <4>1. next \in DOMAIN list /\ ~(next_cum >= list[next])
        BY <1>0, <1>1, <2>1
      <4>2. list[next] <= list[n] /\ list[next] \in Int /\ list[n] \in Int
        BY <1>0, <1>1, <2>1, <4>1 DEF is_sorted
      <4>3. next_cum = NotionalOf(1 .. k)
        BY <1>0, <2>1, <3>1 DEF VolumeWalked
      <4>4. next_cum < list[n]
        BY <1>0, <4>1, <4>2
      <4> QED BY <4>3, <4>4
    <3>2. CASE k # i
      <4>1. k \in 0 .. i - 1
        BY <1>0, <1>1, <3>2
      <4> QED BY <1>0, <2>1, <4>1 DEF Unreached
    <3> QED BY <3>1, <3>2
  <2> QED BY <1>2, <1>3, <1>5, <2>1 DEF Unreached, NotionalOf, Total
<1>8. VolumeProgress'
  BY <1>0, <1>2 DEF VolumeProgress
<1>9. VolumeAnswers'
  BY <1>0, <1>2, <1>3, SameAnswers
<1> QED BY <1>2, <1>6, <1>7, <1>8, <1>9 DEF VolumeInv


\* A band is appended: the loop or what follows it answers threshold next.
LEMMA AppendVolume ==
  ASSUME IInv, VolumeInv, kind = "volume", pc \in {"cross", "rest"},
         next \in DOMAIN list, NEW band, band \in VolumeBand,
         result' = Append(result, band), next' = next + 1,
         ~narrowed' => ~narrowed /\ IsVolumeBand(band, list[next]),
         UNCHANGED << kind, levels, list, pc, i, cum_size, cum_notional,
                      next_cum, error >>
  PROVE  VolumeInv'
<1>0. VolumeWalked /\ Unreached /\ VolumeProgress /\ VolumeAnswers
  BY DEF VolumeInv
<1>1. /\ Len(list) \in Nat /\ DOMAIN list = 1 .. Len(list) /\ next \in Nat \ {0}
  BY PriceTypes
<1>2. /\ result \in Seq(VolumeBand) /\ error = "none" /\ Len(result) = next - 1
  BY <1>0 DEF IInv, TypeOK, VolumeProgress
<1>3. /\ Len(result') = next /\ DOMAIN result' = 1 .. next
      /\ DOMAIN result = 1 .. next - 1
      /\ \A n \in 1 .. next - 1 : result'[n] = result[n]
      /\ result'[next] = band
  BY <1>1, <1>2
<1>4. VolumeAnswers'
  <2>1. ASSUME ~narrowed', NEW n \in 1 .. next
        PROVE  IsVolumeBand(result'[n], list[n])
    <3>1. CASE n = next
      BY <1>3, <2>1, <3>1
    <3>2. CASE n # next
      <4>1. n \in 1 .. next - 1
        BY <1>1, <3>2
      <4> QED BY <1>0, <1>3, <2>1, <4>1 DEF VolumeAnswers
    <3> QED BY <3>1, <3>2
  <2>2. \A b, t : IsVolumeBand(b, t) => IsVolumeBand(b, t)'
    BY SameBand
  <2>3. \A n \in 1 .. next : ~narrowed' =>
          \A b, t : b = result'[n] /\ t = list'[n] => IsVolumeBand(b, t)'
    BY <2>1, <2>2
  <2> QED BY <1>3, <2>3 DEF VolumeAnswers
<1>5. VolumeWalked'
  BY <1>0 DEF VolumeWalked, SizeOf, NotionalOf, Total
<1>6. Unreached'
  <2>1. ASSUME ~narrowed', NEW n \in DOMAIN list, NEW k \in 0 .. i - 1,
               next + 1 <= n
        PROVE  NotionalOf(1 .. k) < list[n]
    BY <1>0, <1>1, <2>1 DEF Unreached
  <2> QED BY <2>1 DEF Unreached, NotionalOf, Total
<1>7. VolumeProgress'
  BY <1>0, <1>1, <1>2, <1>3 DEF VolumeProgress
<1> QED BY <1>4, <1>5, <1>6, <1>7 DEF VolumeInv

\* A threshold is crossed: level i completes it.
LEMMA CrossVolumeExact ==
  ASSUME IInv, VolumeInv, CrossVolume
  PROVE  VolumeInv'
<1>0. /\ pc = "cross" /\ kind = "volume" /\ next <= Len(list)
      /\ next_cum >= list[next] /\ i \in DOMAIN levels
      /\ VolumeWalked /\ Unreached
  BY DEF CrossVolume, Reached, IInv, AtLevel, VolumeInv
<1>1. next \in DOMAIN list /\ list[next] \in Raw
  <2>1. next \in DOMAIN list
    BY <1>0, PriceTypes
  <2> QED BY <2>1, ElementType, Zenon DEF IInv, ArgsTyped
<1>2. /\ Vwap.ok \in BOOLEAN /\ (Vwap.ok => Vwap.value \in Int)
      /\ ~Vwap.ok => Vwap.error \in Errc
  BY <1>0, <1>1, VwapFacts
<1>3. CASE ~Vwap.ok
  <2>1. Fail(Vwap.error) /\ Vwap.error # "none"
    BY <1>2, <1>3 DEF CrossVolume, Errc
  <2> QED BY <2>1, FailVolume
<1>4. CASE Vwap.ok
  <2> DEFINE v == Vwap.value
             band == [notional_threshold |-> list[next], vwap |-> << Narrow(v) >>,
                      filled_notional |-> list[next]]
             lost == \/ ~Fits(v) \/ ~Fits(list[next] - cum_notional)
                     \/ AtEdge /\ ~Fits(cum_size + Level.size)
  <2>1. /\ result' = Append(result, band)
        /\ narrowed' = (narrowed \/ lost)
        /\ next' = next + 1
        /\ UNCHANGED << kind, side, levels, list, pc, i, cum_size,
                        cum_notional, next_cum, error >>
    BY <1>4, Zenon DEF CrossVolume, argVars
  <2>2. v \in Int
    BY <1>2, <1>4
  <2>3. band \in VolumeBand
    <3> DEFINE r == Narrow(v)
    <3>1. r \in Raw
      <4> HIDE DEF v
      <4> QED BY <2>2, NarrowType
    <3> HIDE DEF r
    <3>2. << r >> \in {<< >>} \cup {<< x >> : x \in Raw}
      BY <3>1
    <3> QED BY <1>1, <3>2 DEF VolumeBand, r
  <2>4. ASSUME ~narrowed'
        PROVE  ~narrowed /\ IsVolumeBand(band, list[next])
    <3>1. ~narrowed /\ ~lost
      <4> HIDE DEF lost
      <4> QED BY <2>1, <2>4
    <3>2. Narrow(v) = v
      <4>1. Fits(v)
        BY <3>1
      <4> HIDE DEF v
      <4> QED BY <2>2, <4>1, NarrowId
    <3>3. IsAverage(v, i, list[next])
      <4>1. /\ Fits(list[next] - cum_notional)
            /\ AtEdge => Fits(cum_size + Level.size)
        BY <3>1
      <4> QED BY <1>0, <1>1, <1>4, <3>1, <4>1, VwapIsAverage
    <3>4. Completes(i, list[next])
      <4>1. next_cum = NotionalOf(1 .. i)
        BY <1>0, <3>1 DEF VolumeWalked
      <4>2. \A k \in 0 .. i - 1 : NotionalOf(1 .. k) < list[next]
        BY <1>0, <1>1, <3>1, PriceTypes DEF Unreached
      <4> QED BY <1>0, <4>1, <4>2 DEF Completes
    <3>5. /\ band.notional_threshold = list[next]
          /\ band.filled_notional = list[next]
          /\ band.vwap # << >> /\ band.vwap[1] = v
      <4>1. band.vwap = << Narrow(v) >>
        OBVIOUS
      <4>2. band.vwap = << v >>
        BY <3>2, <4>1
      <4> HIDE DEF v
      <4> QED BY <4>2
    <3> HIDE DEF band, v
    <3> QED BY <1>0, <3>1, <3>3, <3>4, <3>5 DEF IsVolumeBand
  <2> HIDE DEF band, lost
  <2> QED BY <1>0, <1>1, <2>1, <2>3, <2>4, AppendVolume
<1> QED BY <1>2, <1>3, <1>4

\* After the last level: the side is too thin for what is still open.
LEMMA RestVolumeExact ==
  ASSUME IInv, VolumeInv, RestOfVolume
  PROVE  VolumeInv'
<1> DEFINE band == [notional_threshold |-> list[next], vwap |-> << >>,
                    filled_notional |-> cum_notional]
<1>0. /\ pc = "rest" /\ kind = "volume" /\ next <= Len(list)
      /\ VolumeWalked /\ Unreached /\ VolumeProgress /\ cum_notional \in Raw
  BY DEF RestOfVolume, VolumeInv, IInv, TypeOK
<1>1. /\ next \in DOMAIN list /\ next \in Int /\ Len(levels) \in Nat
      /\ DOMAIN levels = 1 .. Len(levels) /\ i \in 1 .. Len(levels) + 1
  BY <1>0, PriceTypes
<1>2. band \in VolumeBand
  <2>1. list[next] \in Raw
    BY <1>1, ElementType, Zenon DEF IInv, ArgsTyped
  <2> QED BY <1>0, <2>1 DEF VolumeBand
<1>3. /\ result' = Append(result, band) /\ next' = next + 1
      /\ UNCHANGED << kind, side, levels, list, pc, i, cum_size, cum_notional,
                      next_cum, narrowed, error, numerator >>
  BY DEF RestOfVolume, argVars, sumVars
<1>4. ASSUME ~narrowed
      PROVE  IsVolumeBand(band, list[next])
  <2>1. i - 1 = Len(levels) /\ i - 1 \in 0 .. i - 1
    BY <1>0, <1>1 DEF VolumeProgress
  <2>2. cum_notional = NotionalOf(DOMAIN levels)
    BY <1>0, <1>1, <1>4, <2>1 DEF VolumeWalked
  <2>3. NotionalOf(1 .. i - 1) < list[next]
    BY <1>0, <1>1, <1>4, <2>1 DEF Unreached
  <2>4. NotionalOf(DOMAIN levels) < list[next]
    BY <1>1, <2>1, <2>3
  <2>5. /\ band.notional_threshold = list[next] /\ band.vwap = << >>
        /\ band.filled_notional = cum_notional
    OBVIOUS
  <2> HIDE DEF band
  <2> QED BY <2>2, <2>4, <2>5 DEF IsVolumeBand
<1> HIDE DEF band
<1> QED BY <1>0, <1>1, <1>2, <1>3, <1>4, AppendVolume

LEMMA StepKeepsVolumeInv == IInv /\ VolumeInv /\ [Step]_vars => VolumeInv'
<1> SUFFICES ASSUME IInv, VolumeInv, [Step]_vars PROVE VolumeInv'
  OBVIOUS
<1>1. CASE RejectList \/ RejectReference \/ RejectLevel
  BY <1>1, FailVolume DEF RejectList, RejectReference, RejectLevel
<1>2. CASE \/ EmptySide \/ Enter \/ EnterPriceLevel \/ StopWalking \/ LevelsEnd
           \/ Return \/ UNCHANGED vars
  <2>1. UNCHANGED << argVars, i, next, sumVars, result, error, numerator >>
    BY <1>2 DEF EmptySide, Enter, EnterPriceLevel, StopWalking, LevelsEnd,
                Return, vars
  <2> QED BY <1>2, <2>1, MoveVolume
<1>3. CASE EnterVolumeLevel
  BY <1>3, EnterVolumeExact
<1>4. CASE CrossVolume
  BY <1>4, CrossVolumeExact
<1>5. CASE AddVolumeLevel
  BY <1>5, AddVolumeExact
<1>6. CASE RestOfVolume
  BY <1>6, RestVolumeExact
<1>7. CASE CrossPrice \/ AddPriceLevel \/ RestOfPrice
  <2>1. kind = "price" /\ kind' = kind
    BY <1>7 DEF CrossPrice, AddPriceLevel, RestOfPrice, PushPriceBand, Fail,
                argVars
  <2> QED BY <2>1 DEF VolumeInv
<1> QED BY <1>1, <1>2, <1>3, <1>4, <1>5, <1>6, <1>7 DEF Step

LEMMA NewCallVolumeInv == NewCall => VolumeInv
<1> SUFFICES ASSUME NewCall PROVE VolumeInv
  OBVIOUS
<1>1. /\ pc = "begin" /\ i = 1 /\ next = 1 /\ cum_size = 0 /\ cum_notional = 0
      /\ result = << >> /\ error = "none" /\ IInv
  BY NewCallIInv DEF NewCall, Called
<1>2. SizeOf(1 .. 0) = 0 /\ NotionalOf(1 .. 0) = 0 /\ i - 1 = 0
  BY <1>1, SumsOfNone
<1> QED BY <1>1, <1>2 DEF VolumeInv, VolumeWalked, Unreached, VolumeProgress,
                          VolumeAnswers

LEMMA VolumeInvExact == VolumeInv => VolumeBandsAreExact
<1> SUFFICES ASSUME VolumeInv, kind = "volume", ~narrowed
             PROVE  /\ \A n \in DOMAIN result : IsVolumeBand(result[n], list[n])
                    /\ pc = "done" /\ error = "none" => Len(result) = Len(list)
  BY DEF VolumeBandsAreExact, IsVolumeBand
<1> QED BY DEF VolumeInv, VolumeAnswers, VolumeProgress

\* For every book side, every list and every width: a volume band has a price
\* exactly when the side is deep enough, and the price is the average price of
\* the fill that ends in the level which completes the threshold, up to the
\* rounding of each notional and of the quotient (volume_band_prices,
\* vwap_at_partial_fill).
THEOREM VolumeBandsExact == Spec => []VolumeBandsAreExact
BY VolumeInvExact, InitNewCall, NewCallIInv, StepKeepsIInv, NewCallVolumeInv,
     StepKeepsVolumeInv, PTL DEF Spec

-----------------------------------------------------------------------------
(* A parsed number is the nearest one.                                     *)

\* A sequence whose elements are all in T is one of elements of T.
LEMMA Retyped ==
  ASSUME NEW V, NEW T, NEW s \in Seq(V), \A k \in 1 .. Len(s) : s[k] \in T
  PROVE  s \in Seq(T)
OBVIOUS

\* The integer part: either it is accepted and its value is that of its
\* digits, or a character is not a digit, or the value is beyond the raw type.
LEMMA IntValue ==
  ASSUME NEW text, text.int \in Seq(0 .. NotADigit)
  PROVE  /\ int_value(text).ok =>
              /\ text.int \in Seq(0 .. 9)
              /\ int_value(text).value = Digits(text.int)
              /\ int_value(text).value \in 0 .. RawMax
         /\ ~int_value(text).ok /\ text.int \in Seq(0 .. 9)
              => Digits(text.int) > RawMax
<1> DEFINE s == text.int
           n == Len(s)
           V == {Ok(r) : r \in 0 .. RawMax} \cup
                  {Error("invalid_argument"), Error("result_out_of_range")}
           Body(f) == [k \in 0 .. n |->
                         IF k = 0 THEN Ok(0) ELSE AddDigit(f[k - 1], s[k])]
           F == CHOOSE f : f = Body(f)
           Add(k, v) == IF k + 1 <= n THEN AddDigit(v, s[k + 1]) ELSE v
           step == [k \in Nat |-> [v \in V |-> Add(k, v)]]
<1>1. int_value(text) = F[n]
  BY DEF int_value
<1>2. s \in Seq(Nat) /\ n \in Nat /\ \A k \in 1 .. n : s[k] \in 0 .. 10
  BY DEF NotADigit
<1>3. RawMax \in Nat
  BY WidthAssumption
<1>4. \A r : Ok(r).ok /\ Ok(r).value = r
  BY DEF Ok
<1>5. ~Error("invalid_argument").ok /\ ~Error("result_out_of_range").ok
  BY DEF Error
<1>6. ASSUME NEW v \in V, NEW c \in 0 .. 10
      PROVE  /\ AddDigit(v, c) \in V
             /\ AddDigit(v, c).ok =>
                  /\ v.ok /\ c \in 0 .. 9
                  /\ AddDigit(v, c).value = 10 * v.value + c
                  /\ AddDigit(v, c).value \in 0 .. RawMax
             /\ ~AddDigit(v, c).ok /\ c \in 0 .. 9 /\ v.ok
                  => 10 * v.value + c > RawMax
  <2>1. CASE ~v.ok
    BY <2>1 DEF AddDigit
  <2>2. CASE v.ok
    <3>1. PICK r \in 0 .. RawMax : v = Ok(r)
      BY <1>5, <2>2
    <3>2. v.value = r
      BY <1>4, <3>1
    <3>3. CASE c = 10
      <4>1. AddDigit(v, c) = Error("invalid_argument")
        BY <2>2, <3>3 DEF AddDigit, IsDigit
      <4> QED BY <1>5, <3>3, <4>1
    <3>4. CASE c # 10
      <4> DEFINE w == 10 * r + c
      <4>1. c \in 0 .. 9 /\ w \in Nat
        BY <1>3, <3>4
      <4>2. AddDigit(v, c) = IF w \in Raw THEN Ok(w)
                             ELSE Error("result_out_of_range")
        BY <2>2, <3>2, <4>1 DEF AddDigit, IsDigit, from_raw_safe, Fits
      <4>3. w = 10 * v.value + c
        BY <3>2
      <4> HIDE DEF w
      <4>4. w \in Raw <=> w <= RawMax
        BY <1>3, <4>1 DEF Raw
      <4>5. CASE w \in Raw
        <5>1. AddDigit(v, c) = Ok(w) /\ w \in 0 .. RawMax
          BY <1>3, <4>1, <4>2, <4>4, <4>5
        <5>2. Ok(w) \in V
          BY <5>1
        <5> HIDE DEF V
        <5> QED BY <1>4, <2>2, <4>1, <4>3, <5>1, <5>2
      <4>6. CASE w \notin Raw
        <5>1. AddDigit(v, c) = Error("result_out_of_range") /\ w > RawMax
          BY <1>3, <4>1, <4>2, <4>4, <4>6
        <5>2. Error("result_out_of_range") \in V
          OBVIOUS
        <5> HIDE DEF V
        <5> QED BY <1>5, <4>3, <5>1, <5>2
      <4> QED BY <4>5, <4>6
    <3> QED BY <3>3, <3>4
  <2> QED BY <2>1, <2>2
<1>7. Ok(0) \in V
  BY <1>3
<1>8. \A v \in V : v.ok => v.value \in 0 .. RawMax
  BY <1>4, <1>5
<1> HIDE DEF V, n
<1>9. PICK h \in [Nat -> V] : Iterates(h, Ok(0), step)
  <2>1. ASSUME NEW k \in Nat, NEW v \in V PROVE Add(k, v) \in V
    <3>1. CASE k + 1 <= n
      <4>1. k + 1 \in 1 .. n
        BY <1>2, <3>1
      <4>2. s[k + 1] \in 0 .. 10
        BY <1>2, <4>1
      <4> QED BY <1>6, <3>1, <4>2, Zenon
    <3>2. CASE ~(k + 1 <= n)
      BY <3>2
    <3> QED BY <3>1, <3>2
  <2> HIDE DEF Add
  <2>2. step \in Steps(V)
    BY <2>1 DEF Steps
  <2> HIDE DEF step
  <2> QED BY <1>7, <2>2, Iteration, Zenon
<1>10. h[0] = Ok(0) /\ \A k \in Nat : h[k + 1] = step[k][h[k]]
  BY <1>9 DEF Iterates
<1> DEFINE g == [k \in 0 .. n |-> h[k]]
<1>11. g[0] = Ok(0) /\ \A k \in 1 .. n : g[k] = AddDigit(g[k - 1], s[k])
  <2>1. g[0] = Ok(0)
    BY <1>2, <1>10
  <2>2. ASSUME NEW k \in 1 .. n PROVE g[k] = AddDigit(g[k - 1], s[k])
    <3>1. k - 1 \in Nat /\ k - 1 \in 0 .. n /\ (k - 1) + 1 = k /\ k \in 0 .. n
          /\ k <= n
      BY <1>2
    <3>2. h[k] = Add(k - 1, h[k - 1])
      <4> HIDE DEF Add
      <4> QED BY <1>10, <3>1
    <3> QED BY <3>1, <3>2
  <2> QED BY <2>1, <2>2
<1>12. g = Body(g)
  <2>1. ASSUME NEW k \in 0 .. n
        PROVE  g[k] = IF k = 0 THEN Ok(0) ELSE AddDigit(g[k - 1], s[k])
    <3>1. k # 0 => k \in 1 .. n
      OBVIOUS
    <3> HIDE DEF g
    <3> QED BY <1>11, <3>1
  <2> QED BY <2>1
<1> HIDE DEF g, step, Add
<1>13. F = Body(F)
  BY <1>12
<1> HIDE DEF F
<1>14. F[0] = Ok(0) /\ \A k \in 1 .. n : F[k] = AddDigit(F[k - 1], s[k])
  <2>1. ASSUME NEW k \in 0 .. n PROVE F[k] = Body(F)[k]
    BY <1>13
  <2>2. 0 \in 0 .. n /\ \A k \in 1 .. n : k \in 0 .. n /\ k # 0
    BY <1>2
  <2> QED BY <2>1, <2>2
<1>15. PICK d \in [0 .. n -> Nat] : IsPrefixValue(d, s) /\ Digits(s) = d[n]
  BY <1>2, DigitsAre DEF n
<1>16. d[0] = 0 /\ \A k \in 1 .. n : d[k] = 10 * d[k - 1] + s[k]
  BY <1>15 DEF IsPrefixValue, n
<1> DEFINE Good(k) ==
             /\ F[k] \in V
             /\ F[k].ok => F[k].value = d[k] /\ \A j \in 1 .. k : s[j] \in 0 .. 9
             /\ ~F[k].ok /\ (\A j \in 1 .. k : s[j] \in 0 .. 9) => d[k] > RawMax
           S == {k \in Nat : k <= n => Good(k)}
<1>17. 0 \in S
  BY <1>4, <1>7, <1>14, <1>16
<1>18. ASSUME NEW k \in Nat, k \in S PROVE k + 1 \in S
  <2> SUFFICES ASSUME k + 1 <= n PROVE Good(k + 1)
    <3> HIDE DEF Good
    <3> QED OBVIOUS
  <2>1. /\ k + 1 \in 1 .. n /\ (k + 1) - 1 = k /\ k \in 0 .. n
        /\ F[k + 1] = AddDigit(F[k], s[k + 1]) /\ s[k + 1] \in 0 .. 10
        /\ d[k + 1] = 10 * d[k] + s[k + 1] /\ d[k] \in Nat
    BY <1>2, <1>14, <1>16
  <2>2. Good(k)
    BY <1>2, <1>18
  <2> DEFINE v == F[k]
             w == F[k + 1]
             c == s[k + 1]
  <2>3. /\ w \in V
        /\ w.ok => v.ok /\ c \in 0 .. 9 /\ w.value = 10 * v.value + c
        /\ ~w.ok /\ c \in 0 .. 9 /\ v.ok => 10 * v.value + c > RawMax
    <3>1. v \in V /\ c \in 0 .. 10 /\ w = AddDigit(v, c)
      BY <2>1, <2>2
    <3> HIDE DEF v, w, c
    <3> QED BY <1>6, <3>1, Zenon
  <2>4. (\A j \in 1 .. k + 1 : s[j] \in 0 .. 9) <=>
          c \in 0 .. 9 /\ \A j \in 1 .. k : s[j] \in 0 .. 9
    <3>1. \A j \in 1 .. k + 1 : j \in 1 .. k \/ j = k + 1
      OBVIOUS
    <3> QED BY <3>1
  <2>5. w.ok => w.value = d[k + 1] /\ \A j \in 1 .. k + 1 : s[j] \in 0 .. 9
    BY <2>1, <2>2, <2>3, <2>4
  <2>6. ASSUME ~w.ok, \A j \in 1 .. k + 1 : s[j] \in 0 .. 9
        PROVE  d[k + 1] > RawMax
    <3>1. c \in 0 .. 9 /\ \A j \in 1 .. k : s[j] \in 0 .. 9
      BY <2>4, <2>6
    <3>2. CASE v.ok
      <4>1. 10 * v.value + c > RawMax /\ v.value = d[k]
        BY <2>2, <2>3, <2>6, <3>1, <3>2
      <4> QED BY <2>1, <4>1
    <3>3. CASE ~v.ok
      <4>1. d[k] > RawMax
        BY <2>2, <3>1, <3>3
      <4>2. \A x \in Nat, y \in 0 .. 9 : x > RawMax => 10 * x + y > RawMax
        BY <1>3
      <4> QED BY <2>1, <3>1, <4>1, <4>2
    <3> QED BY <3>2, <3>3
  <2> QED BY <2>3, <2>5, <2>6
<1>19. Good(n)
  <2> HIDE DEF Good
  <2>1. Nat \subseteq S
    <3> HIDE DEF S
    <3> QED BY <1>17, <1>18, SetInduction
  <2> QED BY <1>2, <2>1
<1>20. s \in Seq(0 .. 9) <=> \A j \in 1 .. n : s[j] \in 0 .. 9
  <2>1. DOMAIN s = 1 .. n /\ n \in Nat /\ s = [j \in 1 .. n |-> s[j]]
    BY <1>2 DEF n
  <2>2. ASSUME \A j \in 1 .. n : s[j] \in 0 .. 9 PROVE s \in Seq(0 .. 9)
    <3> HIDE DEF s
    <3> QED BY <1>2, <2>2, Retyped DEF n
  <2>3. ASSUME s \in Seq(0 .. 9), NEW j \in 1 .. n PROVE s[j] \in 0 .. 9
    BY <2>1, <2>3
  <2> QED BY <2>2, <2>3
<1>21. /\ F[n].ok => /\ s \in Seq(0 .. 9) /\ F[n].value = Digits(s)
                     /\ F[n].value \in 0 .. RawMax
       /\ ~F[n].ok /\ s \in Seq(0 .. 9) => Digits(s) > RawMax
  BY <1>8, <1>15, <1>19, <1>20
<1> QED BY <1>1, <1>21

LEMMA MinOfTwo ==
  ASSUME NEW a \in Int, NEW b \in Int
  PROVE  Min({a, b}) = IF a <= b THEN a ELSE b
<1> DEFINE m == IF a <= b THEN a ELSE b
<1>1. m \in {a, b} /\ \A y \in {a, b} : m <= y
  OBVIOUS
<1>2. \A x \in {a, b} : (\A y \in {a, b} : x <= y) => x = m
  OBVIOUS
<1> HIDE DEF m
<1>3. Min({a, b}) = m
  BY <1>1, <1>2 DEF Min
<1> QED BY <1>3 DEF m

\* Rounding away the last digit.
LEMMA RoundTen ==
  ASSUME NEW g \in Nat
  PROVE  /\ round_div_nearest_away(g, 10) \in Nat
         /\ 10 * round_div_nearest_away(g, 10) - g <= 5
         /\ g - 10 * round_div_nearest_away(g, 10) <= 4
<1>1. Abs(g) = g /\ g >= 0 /\ (10 \div 2) + (10 % 2) = 5
  BY DEF Abs
<1> DEFINE q == g \div 10
           r == g % 10
<1>2. q \in Nat /\ r \in Nat /\ g = q * 10 + r /\ r < 10
  BY DivMod
<1>3. round_div_nearest_away(g, 10) = q + (IF r >= 5 THEN 1 ELSE 0)
  BY <1>1 DEF round_div_nearest_away
<1> HIDE DEF q, r
<1> QED BY <1>2, <1>3

\* What the digits beyond the rounded one can add is less than half a unit.
LEMMA DroppedDigits ==
  ASSUME NEW c \in Nat \ {0}, NEW p \in Nat \ {0}, NEW g \in Nat, NEW f \in Nat,
         NEW e \in Nat, e < p, 10 * f - g <= 5, g - 10 * f <= 4,
         NEW F \in Nat, F = g * p + e, NEW u \in Nat, u = 10 * (c * p)
  PROVE  2 * (F * c - f * u) < u /\ 2 * (f * u - F * c) <= u
<1> DEFINE d == g - 10 * f
           dp == d * p
           x == dp + e
           cp == c * p
           xc == x * c
<1>1. d \in Int /\ -5 <= d /\ d <= 4
  OBVIOUS
<1>2. g = d + 10 * f
  OBVIOUS
<1> HIDE DEF d
<1>3. dp \in Int /\ dp <= 4 * p /\ -5 * p <= dp
  BY <1>1, Z3
<1>4. x \in Int /\ x <= 5 * p - 1 /\ -5 * p <= x
  BY <1>3
<1>5. F = x + 10 * f * p
  <2>1. g * p = dp + 10 * f * p
    BY <1>1, <1>2, Z3
  <2> QED BY <1>3, <2>1
<1> HIDE DEF dp, x
<1>6. cp \in Nat /\ cp > 0
  BY Z3
<1>7. xc \in Int /\ xc <= 5 * cp - c /\ -5 * cp <= xc
  <2>1. xc \in Int
    BY <1>4
  <2>2. xc <= (5 * p - 1) * c
    BY <1>4, ProductMonotone
  <2>3. (-5 * p) * c <= xc
    BY <1>4, ProductMonotone
  <2>4. (5 * p - 1) * c = 5 * cp - c /\ (-5 * p) * c = -5 * cp
    BY Z3
  <2> QED BY <2>1, <2>2, <2>3, <2>4
<1>8. F * c - f * u = xc
  <2>1. F * c = xc + 10 * f * p * c
    BY <1>4, <1>5, Z3
  <2>2. f * u = 10 * f * p * c
    BY Z3
  <2> QED BY <1>7, <2>1, <2>2
<1> DEFINE y == F * c
           z == f * u
<1>9. y \in Int /\ z \in Int /\ y - z = xc /\ u = 10 * cp
  BY <1>8
<1> HIDE DEF xc, cp, y, z
<1>10. 2 * (y - z) < u /\ 2 * (z - y) <= u
  BY <1>6, <1>7, <1>9
<1> QED BY <1>10 DEF y, z

\* The fraction, in units of the last kept decimal, is the nearest one.
LEMMA FracValue ==
  ASSUME NEW D \in Nat, NEW text, text.frac \in Seq(0 .. 9),
         NEW F \in Nat, F = Digits(text.frac),
         NEW u \in Nat, u = PowerOfTen(Len(text.frac)),
         NEW c \in Nat, c = PowerOfTen(D)
  PROVE  /\ frac_value(D, text) \in Nat
         /\ 2 * (F * c - frac_value(D, text) * u) < u
         /\ 2 * (frac_value(D, text) * u - F * c) <= u
<1> DEFINE s == text.frac
           L == Len(s)
           take == Min({L, D + 1})
           a == SubSeq(s, 1, take)
           f == frac_value(D, text)
<1>1. L \in Nat /\ \A k \in 1 .. L : s[k] \in 0 .. 9
  OBVIOUS
<1>2. take = IF L <= D + 1 THEN L ELSE D + 1
  <2>1. L \in Int /\ D + 1 \in Int
    BY <1>1
  <2> HIDE DEF L
  <2> QED BY <2>1, MinOfTwo, Zenon
<1>3. f = IF L > D THEN round_div_nearest_away(Digits(a), 10)
          ELSE Digits(a) * PowerOfTen(D - take)
  BY DEF frac_value
<1>4. u \in Nat \ {0} /\ c \in Nat \ {0}
  BY <1>1, PowerOfTenRecursion
<1>5. CASE L <= D
  <2>1. take = L /\ a = s /\ D - L \in Nat /\ (D - L) + L = D
    BY <1>1, <1>2, <1>5
  <2> DEFINE p == PowerOfTen(D - L)
  <2>2. p \in Nat /\ c = p * u
    <3> DEFINE d == D - L
    <3>1. d \in Nat /\ L \in Nat /\ d + L = D
      BY <1>1, <2>1
    <3>2. u = PowerOfTen(L)
      OBVIOUS
    <3> HIDE DEF d, L
    <3>3. PowerOfTen(d) \in Nat
      BY <3>1, PowerOfTenRecursion
    <3>4. PowerOfTen(d + L) = PowerOfTen(d) * PowerOfTen(L)
      BY <3>1, PowerOfTenSum, Zenon
    <3>5. c = PowerOfTen(d) * u
      BY <3>1, <3>2, <3>4, Zenon
    <3> QED BY <3>3, <3>5, Zenon DEF d
  <2>3. f = F * p
    <3> HIDE DEF a, take, f, L
    <3>1. ~(L > D)
      BY <1>1, <1>5
    <3> QED BY <1>3, <2>1, <3>1, Zenon
  <2> HIDE DEF p, f
  <2>4. f \in Nat /\ f * u = F * c
    BY <2>2, <2>3, Z3
  <2> DEFINE y == F * c
  <2>5. y \in Nat
    OBVIOUS
  <2> HIDE DEF y
  <2>6. 2 * (y - y) < u /\ 2 * (y - y) <= u
    BY <1>4, <2>5
  <2> QED BY <2>4, <2>6 DEF y, f
<1>6. CASE L > D
  <2> DEFINE b == SubSeq(s, D + 2, L)
             K == L - (D + 1)
             p == PowerOfTen(K)
  <2>1. take = D + 1 /\ K \in Nat /\ (D + 1) + K = L
    <3> HIDE DEF take, L
    <3> QED BY <1>1, <1>2, <1>6
  <2>2. /\ a \in Seq(0 .. 9) /\ Len(a) = D + 1
        /\ \A k \in 1 .. D + 1 : a[k] = s[k]
    <3>1. \A k \in 1 .. D + 1 : s[k] \in 0 .. 9
      BY <1>1, <1>6
    <3>2. a = SubSeq(s, 1, D + 1)
      BY <2>1
    <3>3. /\ a \in Seq(0 .. 9)
          /\ Len(a) = IF 1 <= D + 1 THEN (D + 1) - 1 + 1 ELSE 0
          /\ \A k \in 1 .. (D + 1) - 1 + 1 : a[k] = s[1 + k - 1]
      <4>1. 1 \in Int /\ D + 1 \in Int
        OBVIOUS
      <4> HIDE DEF a, s
      <4> QED BY <3>1, <3>2, <4>1, SubSeqProperties
    <3> HIDE DEF a, s
    <3> QED BY <3>3
  <2>3. /\ b \in Seq(0 .. 9) /\ Len(b) = K
        /\ \A k \in 1 .. K : b[k] = s[(D + 1) + k]
    <3>1. \A k \in D + 2 .. L : s[k] \in 0 .. 9
      BY <1>1
    <3>2. /\ b \in Seq(0 .. 9)
          /\ Len(b) = IF D + 2 <= L THEN L - (D + 2) + 1 ELSE 0
          /\ \A k \in 1 .. L - (D + 2) + 1 : b[k] = s[(D + 2) + k - 1]
      BY <1>1, <3>1, SubSeqProperties
    <3> HIDE DEF b
    <3> QED BY <1>1, <1>6, <3>2
  <2> HIDE DEF a, b, take
  <2>4. s = a \o b
    <3> HIDE DEF L
    <3>1. a \o b \in Seq(0 .. 9) /\ Len(a \o b) = L
      <4>1. a \o b \in Seq(0 .. 9) /\ Len(a \o b) = Len(a) + Len(b)
        BY <2>2, <2>3, ConcatProperties
      <4> QED BY <2>1, <2>2, <2>3, <4>1
    <3>2. ASSUME NEW k \in 1 .. L PROVE s[k] = (a \o b)[k]
      <4>1. CASE k <= D + 1
        <5>1. (a \o b)[k] = a[k]
          BY <2>1, <2>2, <2>3, <4>1, ConcatProperties
        <5> QED BY <2>2, <4>1, <5>1
      <4>2. CASE k > D + 1
        <5>1. k - (D + 1) \in 1 .. K /\ (D + 1) + (k - (D + 1)) = k
          BY <1>1, <4>2
        <5>2. (a \o b)[k] = b[k - (D + 1)]
          <6>1. k \in 1 .. Len(a) + Len(b) /\ ~(k <= Len(a))
            BY <1>1, <2>1, <2>2, <2>3, <4>2
          <6>2. (a \o b)[k] = IF k <= Len(a) THEN a[k] ELSE b[k - Len(a)]
            BY <2>2, <2>3, <6>1, ConcatProperties
          <6> QED BY <2>2, <6>1, <6>2
        <5>3. b[k - (D + 1)] = s[(D + 1) + (k - (D + 1))]
          BY <2>3, <5>1
        <5> HIDE DEF s
        <5> QED BY <5>1, <5>2, <5>3, Zenon
      <4>3. k <= D + 1 \/ k > D + 1
        BY <1>1
      <4> QED BY <4>1, <4>2, <4>3, Zenon
    <3> QED BY <3>1, <3>2, SeqEqual DEF L
  <2> DEFINE g == Digits(a)
             e == Digits(b)
  <2>5. g \in Nat /\ e \in Nat /\ e < p
    BY <2>2, <2>3, DigitsBound
  <2>6. p \in Nat \ {0}
    BY <2>1, PowerOfTenRecursion
  <2>7. F = g * p + e
    <3>1. \A q \in Seq(0 .. 9) : q \in Seq(Nat)
      OBVIOUS
    <3>2. a \in Seq(Nat) /\ b \in Seq(Nat)
      BY <2>2, <2>3, <3>1
    <3> QED BY <2>3, <2>4, <3>2, DigitsConcat
  <2>8. u = 10 * (c * p)
    <3>1. u = PowerOfTen(D + 1) * p
      <4> HIDE DEF K
      <4>1. D + 1 \in Nat /\ u = PowerOfTen((D + 1) + K)
        BY <2>1
      <4> QED BY <2>1, <4>1, PowerOfTenSum
    <3>2. PowerOfTen(D + 1) = 10 * c
      BY PowerOfTenRecursion
    <3> HIDE DEF p
    <3> QED BY <2>6, <3>1, <3>2, Z3
  <2>9. f = round_div_nearest_away(g, 10)
    BY <1>3, <1>6
  <2> HIDE DEF p, g, e, f
  <2>10. f \in Nat /\ 10 * f - g <= 5 /\ g - 10 * f <= 4
    BY <2>5, <2>9, RoundTen
  <2>11. 2 * (F * c - f * u) < u /\ 2 * (f * u - F * c) <= u
    BY <1>4, <2>5, <2>6, <2>7, <2>8, <2>10, DroppedDigits
  <2> QED BY <2>10, <2>11 DEF f
<1> QED BY <1>1, <1>5, <1>6

LEMMA NatProduct ==
  ASSUME NEW a \in Nat, NEW b \in Nat
  PROVE  a * b \in Nat
BY Z3

\* What two numbers have in common does not change their distance.
LEMMA SharedPart ==
  ASSUME NEW w \in Nat, NEW y \in Nat, NEW z \in Nat, NEW u \in Int,
         NEW x \in Int, NEW v \in Int, NEW e, e = w + y, x = w + z, v <= w,
         2 * (y - z) < u, 2 * (z - y) <= u
  PROVE  e \in Nat /\ 2 * (e - x) < u /\ 2 * (x - e) <= u /\ v <= e
OBVIOUS

LEMMA NegatedMagnitude ==
  ASSUME NEW m \in Nat, m <= RawMax, NEW r, r = -m
  PROVE  r \in Raw /\ Abs(r) = m /\ (r # 0 => r < 0)
BY WidthAssumption DEF Raw, Abs

\* The whole number, with all its digits, and the magnitude that is kept.
LEMMA Magnitude ==
  ASSUME NEW D \in Nat, NEW text, text.int \in Seq(0 .. 9),
         text.frac \in Seq(0 .. 9),
         NEW u, u = PowerOfTen(Len(text.frac)),
         NEW E, E = Digits(text.int \o text.frac) * PowerOfTen(D),
         NEW M, M = Digits(text.int) * PowerOfTen(D) + frac_value(D, text)
  PROVE  /\ u \in Nat \ {0} /\ E \in Nat /\ M \in Nat
         /\ 2 * (E - M * u) < u /\ 2 * (M * u - E) <= u
         /\ Digits(text.int) \in Nat /\ Digits(text.int) * u <= E
<1> DEFINE I == Digits(text.int)
           F == Digits(text.frac)
           c == PowerOfTen(D)
           f == frac_value(D, text)
<1>1. I \in Nat /\ F \in Nat
  BY DigitsBound
<1>2. c \in Nat \ {0} /\ u \in Nat \ {0}
  <2>1. Len(text.frac) \in Nat
    OBVIOUS
  <2> QED BY <2>1, PowerOfTenRecursion
<1>3. /\ f \in Nat /\ 2 * (F * c - f * u) < u /\ 2 * (f * u - F * c) <= u
  BY <1>1, <1>2, FracValue
<1>4. Digits(text.int \o text.frac) = I * u + F
  <2>1. \A q \in Seq(0 .. 9) : q \in Seq(Nat)
    OBVIOUS
  <2>2. text.int \in Seq(Nat) /\ text.frac \in Seq(Nat)
    BY <2>1
  <2> QED BY <2>2, DigitsConcat
<1>5. E = (I * u + F) * c /\ M = I * c + f
  BY <1>4
<1> HIDE DEF I, F, c, f
<1> DEFINE w == I * u * c
           y == F * c
           z == f * u
<1>6. w \in Nat /\ y \in Nat /\ z \in Nat
  <2>1. c \in Nat /\ u \in Nat
    BY <1>2
  <2> QED BY <1>1, <1>3, <2>1, NatProduct
<1>7. E = w + y /\ M * u = w + z /\ M \in Nat
  <2>1. (I * u + F) * c = w + y
    BY <1>1, <1>2, Z3
  <2>2. (I * c + f) * u = w + z
    BY <1>1, <1>2, <1>3, Z3
  <2>3. I * c + f \in Nat
    <3>1. c \in Nat
      BY <1>2
    <3>2. I * c \in Nat
      BY <1>1, <3>1, NatProduct
    <3> QED BY <1>3, <3>2
  <2> QED BY <1>5, <2>1, <2>2, <2>3
<1>8. I * u <= w
  <2> DEFINE v == I * u
  <2>1. v \in Nat /\ w = v * c
    BY <1>1, <1>2
  <2> HIDE DEF v
  <2>2. v * 1 <= v * c
    BY <1>2, <2>1, Z3
  <2>3. v <= w
    BY <2>1, <2>2
  <2> QED BY <2>3 DEF v
<1>9. 2 * (y - z) < u /\ 2 * (z - y) <= u
  BY <1>3
<1> DEFINE x == M * u
           v == I * u
<1>10. x \in Int /\ v \in Int /\ x = w + z /\ v <= w
  <2>1. M \in Nat /\ u \in Nat /\ I \in Nat
    BY <1>1, <1>2, <1>7
  <2>2. x \in Nat /\ v \in Nat
    BY <2>1, NatProduct
  <2> QED BY <1>7, <1>8, <2>2
<1> HIDE DEF w, y, z, x, v
<1>11. E = w + y
  BY <1>7
<1>12. E \in Nat /\ 2 * (E - x) < u /\ 2 * (x - E) <= u /\ v <= E
  <2>1. u \in Int
    BY <1>2
  <2>2. x \in Int /\ v \in Int /\ x = w + z /\ v <= w
    BY <1>10, Zenon
  <2> QED BY <1>6, <1>9, <1>11, <2>1, <2>2, SharedPart
<1> QED BY <1>1, <1>2, <1>7, <1>12 DEF x, v, I

LEMMA WellFormedIs ==
  ASSUME NEW text \in DecimalText
  PROVE  WellFormed(text) <=> /\ text.int # << >> \/ text.frac # << >>
                              /\ text.int \in Seq(0 .. 9)
                              /\ text.frac \in Seq(0 .. 9)
<1>1. text.int \in Seq(0 .. 10) /\ text.frac \in Seq(0 .. 10)
  BY DEF DecimalText, NotADigit
<1>2. ASSUME NEW s \in Seq(0 .. 10)
      PROVE  s \in Seq(0 .. 9) <=> \A x \in Range(s) : IsDigit(x)
  <2>1. DOMAIN s = 1 .. Len(s)
    OBVIOUS
  <2>2. (\A x \in Range(s) : IsDigit(x)) <=> \A k \in 1 .. Len(s) : s[k] \in 0 .. 9
    BY <2>1, Zenon DEF Range, IsDigit
  <2>3. ASSUME s \in Seq(0 .. 9), NEW k \in 1 .. Len(s) PROVE s[k] \in 0 .. 9
    BY <2>3
  <2> QED BY <2>2, <2>3, Retyped
<1> QED BY <1>1, <1>2, Zenon DEF WellFormed

\* A text that is accepted is a number, and the result is the nearest value.
LEMMA ParseAccepts ==
  ASSUME NEW D \in Nat, NEW text \in DecimalText, from_decimal_string(D, text).ok
  PROVE  /\ WellFormed(text) /\ from_decimal_string(D, text).value \in Raw
         /\ IsNearest(from_decimal_string(D, text).value, D, text)
<1> DEFINE int == int_value(text)
           M == int.value * PowerOfTen(D) + frac_value(D, text)
           r == IF text.negative THEN -M ELSE M
           u == PowerOfTen(Len(text.frac))
           E == Digits(text.int \o text.frac) * PowerOfTen(D)
<1>1. text.int \in Seq(0 .. NotADigit) /\ text.frac \in Seq(0 .. NotADigit)
      /\ text.negative \in BOOLEAN
  BY DEF DecimalText
<1>2. /\ text.int # << >> \/ text.frac # << >>
      /\ int.ok /\ \A k \in DOMAIN text.frac : IsDigit(text.frac[k])
      /\ ~(M > RawMax)
      /\ from_decimal_string(D, text) = Ok(r)
  <2> HIDE DEF M, int, r
  <2>1. from_decimal_string(D, text) =
          IF text.int = << >> /\ text.frac = << >> THEN Error("invalid_argument")
          ELSE IF ~int.ok THEN int
          ELSE IF \E k \in DOMAIN text.frac : ~IsDigit(text.frac[k])
          THEN Error("invalid_argument")
          ELSE IF M > RawMax THEN Error("result_out_of_range")
          ELSE Ok(r)
    BY DEF from_decimal_string, M, int, r
  <2>2. ~Error("invalid_argument").ok /\ ~Error("result_out_of_range").ok
    BY DEF Error
  <2> QED BY <2>1, <2>2, Zenon
<1>3. text.int \in Seq(0 .. 9) /\ int.value = Digits(text.int)
  BY <1>1, <1>2, IntValue
<1>4. text.frac \in Seq(0 .. 9)
  <2>1. \A k \in 1 .. Len(text.frac) : text.frac[k] \in 0 .. 9
    BY <1>1, <1>2 DEF IsDigit
  <2> QED BY <1>1, <2>1, Retyped
<1>5. WellFormed(text)
  BY <1>2, <1>3, <1>4, WellFormedIs
<1>6. M = Digits(text.int) * PowerOfTen(D) + frac_value(D, text)
  BY <1>3
<1> HIDE DEF M, int
<1>7. /\ u \in Nat \ {0} /\ E \in Nat /\ M \in Nat
      /\ 2 * (E - M * u) < u /\ 2 * (M * u - E) <= u
  <2> HIDE DEF u, E
  <2>1. u = PowerOfTen(Len(text.frac))
    BY DEF u
  <2>2. E = Digits(text.int \o text.frac) * PowerOfTen(D)
    BY DEF E
  <2> QED BY <1>3, <1>4, <1>6, <2>1, <2>2, Magnitude
<1>8. RawMax \in Nat /\ M <= RawMax
  BY <1>2, <1>7, WidthAssumption
<1>9. r \in Raw /\ Abs(r) = M /\ (r # 0 => (r < 0 <=> text.negative))
  <2>1. CASE text.negative
    <3>1. r = -M
      BY <2>1
    <3> HIDE DEF r
    <3>2. r \in Raw /\ Abs(r) = M /\ (r # 0 => r < 0)
      BY <1>7, <1>8, <3>1, NegatedMagnitude, Zenon
    <3> QED BY <1>1, <2>1, <3>2, Zenon
  <2>2. CASE ~text.negative
    <3>1. r = M
      BY <2>2
    <3> HIDE DEF r
    <3>2. r \in Raw /\ Abs(r) = M /\ ~(r < 0)
      BY <1>7, <1>8, <3>1 DEF Raw, Abs
    <3> QED BY <1>1, <2>2, <3>2, Zenon
  <2> QED BY <2>1, <2>2
<1>10. from_decimal_string(D, text).value = r
  BY <1>2 DEF Ok
<1> HIDE DEF r
<1>11. IsNearest(r, D, text)
  BY <1>7, <1>9 DEF IsNearest
<1> QED BY <1>5, <1>9, <1>10, <1>11

\* A text that is rejected is not a number, or is nearest to no value but the
\* most negative one.
LEMMA ParseRejects ==
  ASSUME NEW D \in Nat, NEW text \in DecimalText,
         ~from_decimal_string(D, text).ok
  PROVE  ~WellFormed(text) \/ Nearest(D, text) \in {{}, {-RawMax - 1}}
<1> SUFFICES ASSUME WellFormed(text)
             PROVE  Nearest(D, text) \in {{}, {-RawMax - 1}}
  OBVIOUS
<1> DEFINE int == int_value(text)
           I == Digits(text.int)
           M == I * PowerOfTen(D) + frac_value(D, text)
           u == PowerOfTen(Len(text.frac))
           E == Digits(text.int \o text.frac) * PowerOfTen(D)
<1>1. /\ text.int \in Seq(0 .. 9) /\ text.frac \in Seq(0 .. 9)
      /\ text.int # << >> \/ text.frac # << >>
      /\ text.int \in Seq(0 .. NotADigit)
  BY WellFormedIs DEF DecimalText
<1>2. RawMax \in Nat
  BY WidthAssumption
<1>3. /\ u \in Nat \ {0} /\ E \in Nat /\ M \in Nat /\ I \in Nat
      /\ 2 * (E - M * u) < u /\ 2 * (M * u - E) <= u /\ I * u <= E
  <2> HIDE DEF u, E, M
  <2>1. u = PowerOfTen(Len(text.frac))
    BY DEF u
  <2>2. E = Digits(text.int \o text.frac) * PowerOfTen(D)
    BY DEF E
  <2>3. M = Digits(text.int) * PowerOfTen(D) + frac_value(D, text)
    BY DEF M
  <2> QED BY <1>1, <2>1, <2>2, <2>3, Magnitude
<1>4. I > RawMax \/ M > RawMax
  <2>1. CASE ~int.ok
    BY <1>1, <2>1, IntValue
  <2>2. CASE int.ok
    <3>1. int.value = I
      BY <1>1, <2>2, IntValue
    <3>2. \A k \in DOMAIN text.frac : IsDigit(text.frac[k])
      BY <1>1 DEF IsDigit
    <3>3. from_decimal_string(D, text) =
            IF M > RawMax THEN Error("result_out_of_range")
            ELSE Ok(IF text.negative THEN -M ELSE M)
      BY <1>1, <2>2, <3>1, <3>2, Zenon DEF from_decimal_string
    <3> QED BY <3>3 DEF Ok
  <2> QED BY <2>1, <2>2
<1>5. ASSUME NEW raw \in Raw, IsNearest(raw, D, text)
      PROVE  raw = -RawMax - 1
  <2> DEFINE a == Abs(raw)
             x == a * u
             y == M * u
             z == I * u
  <2>1. 2 * (E - a * u) < u /\ 2 * (a * u - E) <= u
    BY <1>5 DEF IsNearest
  <2>2. /\ a \in Nat /\ raw \in Int
        /\ a <= RawMax \/ raw = -RawMax - 1
    BY <1>2 DEF Abs, Raw
  <2> HIDE DEF a, u, E, M, I
  <2> SUFFICES ASSUME a <= RawMax PROVE FALSE
    BY <2>2
  <2>3. x \in Int /\ y \in Int /\ z \in Int
    BY <1>3, <2>2
  <2>4. (a + 1) * u = x + u
    BY <1>3, <2>2, Z3
  <2>5. CASE I > RawMax
    <3>1. (a + 1) * u <= z
      BY <1>2, <1>3, <2>2, <2>5, ProductMonotone
    <3> HIDE DEF x, z
    <3>2. x + u <= E /\ 2 * (E - x) < u
      BY <1>3, <2>1, <2>3, <2>4, <3>1 DEF x, z
    <3> QED BY <1>3, <2>3, <3>2
  <2>6. CASE M > RawMax
    <3>1. (a + 1) * u <= y
      BY <1>2, <1>3, <2>2, <2>6, ProductMonotone
    <3> HIDE DEF x, y
    <3>2. x + u <= y /\ 2 * (E - x) < u /\ 2 * (y - E) <= u
      BY <1>3, <2>1, <2>3, <2>4, <3>1 DEF x, y
    <3> QED BY <1>3, <2>3, <3>2
  <2> QED BY <1>4, <2>5, <2>6
<1>6. Nearest(D, text) \subseteq {-RawMax - 1}
  BY <1>5 DEF Nearest
<1> HIDE DEF u, E, M, I
<1> QED BY <1>6

-----------------------------------------------------------------------------
(* The levels of a message are kept best price first.                      *)

IsBefore(s, a, b) == IF s = "bid" THEN a > b ELSE a < b

IsMapOrder(s, q) ==
  \A k, m \in DOMAIN q : k < m => IsBefore(s, q[k], q[m])

\* A set of prices has a worst one.
LEMMA WorstPrice ==
  ASSUME NEW P \in SUBSET Raw, P # {}, NEW s
  PROVE  \E m \in P : \A p \in P \ {m} : IsBefore(s, p, m)
<1>1. RawMax \in Nat /\ \A p \in P : p \in Int /\ -RawMax - 1 <= p /\ p <= RawMax
  BY WidthAssumption DEF Raw
<1>2. CASE s = "bid"
  <2> DEFINE T == {p + RawMax + 1 : p \in P}
  <2>1. T \subseteq Nat /\ T # {}
    BY <1>1
  <2>2. PICK n \in T : \A t \in T : n <= t
    <3> HIDE DEF T
    <3> QED BY <2>1, LeastNat
  <2>3. PICK m \in P : n = m + RawMax + 1
    BY <2>2
  <2>4. ASSUME NEW p \in P \ {m} PROVE p > m
    <3>1. p + RawMax + 1 \in T
      OBVIOUS
    <3>2. m + RawMax + 1 <= p + RawMax + 1
      BY <2>2, <2>3, <3>1
    <3> QED BY <1>1, <3>2
  <2> QED BY <1>2, <2>4 DEF IsBefore
<1>3. CASE s # "bid"
  <2> DEFINE T == {RawMax - p : p \in P}
  <2>1. T \subseteq Nat /\ T # {}
    BY <1>1
  <2>2. PICK n \in T : \A t \in T : n <= t
    <3> HIDE DEF T
    <3> QED BY <2>1, LeastNat
  <2>3. PICK m \in P : n = RawMax - m
    BY <2>2
  <2>4. ASSUME NEW p \in P \ {m} PROVE p < m
    <3>1. RawMax - p \in T
      OBVIOUS
    <3>2. RawMax - m <= RawMax - p
      BY <2>2, <2>3, <3>1
    <3> QED BY <1>1, <3>2
  <2> QED BY <1>3, <2>4 DEF IsBefore
<1> QED BY <1>2, <1>3

\* There is an order, so that MapOrder is one.
LEMMA MapOrderIs ==
  ASSUME NEW P \in SUBSET Raw, NEW s
  PROVE  /\ Cardinality(P) \in Nat
         /\ MapOrder(s, P) \in [1 .. Cardinality(P) -> P]
         /\ IsMapOrder(s, MapOrder(s, P))
<1>1. \A Q \in SUBSET Raw : IsFiniteSet(Q)
  <2>1. RawMax \in Int /\ -RawMax - 1 \in Int
    BY WidthAssumption
  <2>2. IsFiniteSet(Raw)
    BY <2>1, FS_Interval DEF Raw
  <2> QED BY <2>2, FS_Subset
<1> DEFINE Sorts(n, Q) == \E q \in [1 .. n -> Q] : IsMapOrder(s, q)
           S == {n \in Nat : \A Q \in SUBSET Raw :
                    Cardinality(Q) = n => Sorts(n, Q)}
<1>2. 0 \in S
  <2> SUFFICES ASSUME NEW Q \in SUBSET Raw, Cardinality(Q) = 0 PROVE Sorts(0, Q)
    OBVIOUS
  <2> DEFINE q == [k \in 1 .. 0 |-> 0]
  <2>1. q \in [1 .. 0 -> Q] /\ IsMapOrder(s, q)
    BY DEF IsMapOrder
  <2> HIDE DEF q
  <2> QED BY <2>1
<1>3. ASSUME NEW n \in Nat, n \in S PROVE n + 1 \in S
  <2> SUFFICES ASSUME NEW Q \in SUBSET Raw, Cardinality(Q) = n + 1
               PROVE  Sorts(n + 1, Q)
    <3> HIDE DEF Sorts
    <3> QED OBVIOUS
  <2>1. Q # {}
    BY FS_EmptySet
  <2>2. PICK w \in Q : \A p \in Q \ {w} : IsBefore(s, p, w)
    BY <2>1, WorstPrice
  <2>3. Cardinality(Q \ {w}) = n /\ Q \ {w} \in SUBSET Raw
    <3>1. IsFiniteSet(Q)
      BY <1>1
    <3>2. Cardinality(Q \ {w}) = Cardinality(Q) - 1
      BY <3>1, FS_RemoveElement
    <3> QED BY <3>2
  <2>4. PICK q \in [1 .. n -> Q \ {w}] : IsMapOrder(s, q)
    BY <1>3, <2>3
  <2> DEFINE z == [k \in 1 .. n + 1 |-> IF k = n + 1 THEN w ELSE q[k]]
  <2>5. z \in [1 .. n + 1 -> Q]
    OBVIOUS
  <2>6. ASSUME NEW k \in 1 .. n + 1, NEW m \in 1 .. n + 1, k < m
        PROVE  IsBefore(s, z[k], z[m])
    <3>1. k \in 1 .. n /\ z[k] = q[k] /\ q[k] \in Q \ {w}
      BY <2>6
    <3>2. CASE m = n + 1
      BY <2>2, <3>1, <3>2
    <3>3. CASE m # n + 1
      <4>1. m \in 1 .. n /\ z[m] = q[m]
        BY <3>3
      <4> QED BY <2>4, <2>6, <3>1, <4>1 DEF IsMapOrder
    <3> QED BY <3>2, <3>3
  <2>7. DOMAIN z = 1 .. n + 1
    OBVIOUS
  <2> HIDE DEF z
  <2> QED BY <2>5, <2>6, <2>7 DEF IsMapOrder
<1>4. Nat \subseteq S
  <2> HIDE DEF S
  <2> QED BY <1>2, <1>3, SetInduction
<1>5. Cardinality(P) \in Nat
  BY <1>1, FS_CardinalityType
<1>6. Sorts(Cardinality(P), P)
  <2> HIDE DEF Sorts
  <2> QED BY <1>4, <1>5
<1>7. MapOrder(s, P) =
        CHOOSE q \in [1 .. Cardinality(P) -> P] : IsMapOrder(s, q)
  BY DEF MapOrder, IsMapOrder, IsBefore
<1> QED BY <1>5, <1>6, <1>7, Zenon

\* A bounded set of numbers has a maximum.
LEMMA MaxIs ==
  ASSUME NEW n \in Nat, NEW T \in SUBSET (1 .. n), T # {}
  PROVE  Max(T) \in T
<1> DEFINE U == {n - k : k \in T}
<1>1. U \subseteq Nat /\ U # {}
  <2>1. \A k \in T : n - k \in Nat
    OBVIOUS
  <2> QED BY <2>1
<1>2. PICK m \in U : \A t \in U : m <= t
  <2> HIDE DEF U
  <2> QED BY <1>1, LeastNat
<1>3. PICK x \in T : m = n - x
  BY <1>2
<1>4. ASSUME NEW y \in T PROVE x >= y
  <2>1. n - x <= n - y
    BY <1>2, <1>3
  <2> QED BY <2>1
<1> QED BY <1>4 DEF Max

LevelType == [price : Raw, size : Raw]

IsBestFirst(s, ls) ==
  \A k, m \in DOMAIN ls : k <= m =>
    IF s = "ask" THEN ls[k].price <= ls[m].price
                 ELSE ls[k].price >= ls[m].price

\* What apply_levels keeps: levels of the message, best price first.
LEMMA AppliedLevels ==
  ASSUME NEW parsed \in Seq(LevelType), NEW s \in {"bid", "ask"}
  PROVE  /\ apply_levels(parsed, s) \in Seq(LevelType)
         /\ IsBestFirst(s, apply_levels(parsed, s))
         /\ \A k \in DOMAIN apply_levels(parsed, s) :
              \E j \in DOMAIN parsed :
                /\ apply_levels(parsed, s)[k].price = parsed[j].price
                /\ apply_levels(parsed, s)[k].size = parsed[j].size
<1> DEFINE At(p) == {k \in DOMAIN parsed : parsed[k].price = p}
           LastSize(p) == parsed[Max(At(p))].size
           all == {parsed[k].price : k \in DOMAIN parsed}
           kept == {p \in all : LastSize(p) # 0}
           q == MapOrder(s, kept)
           n == Cardinality(kept)
           B == [k \in DOMAIN q |-> [price |-> q[k], size |-> LastSize(q[k])]]
<1>1. apply_levels(parsed, s) = B
  BY DEF apply_levels
<1>2. DOMAIN parsed = 1 .. Len(parsed) /\ Len(parsed) \in Nat
  OBVIOUS
<1>3. \A j \in DOMAIN parsed : parsed[j].price \in Raw /\ parsed[j].size \in Raw
  <2>1. \A j \in DOMAIN parsed : parsed[j] \in LevelType
    BY ElementType, Zenon
  <2> QED BY <2>1 DEF LevelType
<1>4. ASSUME NEW p \in all PROVE Max(At(p)) \in At(p)
  <2>1. At(p) \in SUBSET (1 .. Len(parsed)) /\ At(p) # {}
    BY <1>2
  <2> HIDE DEF At
  <2> QED BY <1>2, <2>1, MaxIs
<1>5. ASSUME NEW p \in all
      PROVE  \E j \in DOMAIN parsed : p = parsed[j].price /\ LastSize(p) = parsed[j].size
  BY <1>4
<1>6. kept \in SUBSET all /\ all \in SUBSET Raw
  BY <1>3
<1> HIDE DEF all, kept, LastSize
<1>7. n \in Nat /\ q \in [1 .. n -> kept] /\ IsMapOrder(s, q)
  BY <1>6, MapOrderIs
<1> HIDE DEF q, n
<1>8. DOMAIN B = 1 .. n /\ \A k \in 1 .. n : /\ B[k].price = q[k]
                                             /\ B[k].size = LastSize(q[k])
                                             /\ B[k] = [price |-> q[k],
                                                        size |-> LastSize(q[k])]
  BY <1>7
<1>9. \A k \in 1 .. n : q[k] \in all /\ q[k] \in Raw
  BY <1>6, <1>7
<1>10. ASSUME NEW k \in 1 .. n
       PROVE  \E j \in DOMAIN parsed : /\ B[k].price = parsed[j].price
                                       /\ B[k].size = parsed[j].size
  <2> HIDE DEF B
  <2> QED BY <1>5, <1>8, <1>9
<1>11. B \in Seq(LevelType)
  <2>1. ASSUME NEW k \in 1 .. n PROVE B[k] \in LevelType
    <3>1. LastSize(q[k]) \in Raw
      <4>1. PICK j \in DOMAIN parsed : LastSize(q[k]) = parsed[j].size
        BY <1>5, <1>9
      <4> QED BY <1>3, <4>1
    <3> QED BY <1>8, <1>9, <3>1 DEF LevelType
  <2>2. B \in [1 .. n -> LevelType]
    BY <1>7, <2>1
  <2> HIDE DEF B
  <2> QED BY <1>7, <2>2
<1>12. IsBestFirst(s, B)
  <2> SUFFICES ASSUME NEW k \in 1 .. n, NEW m \in 1 .. n, k <= m
               PROVE  IF s = "ask" THEN B[k].price <= B[m].price
                                   ELSE B[k].price >= B[m].price
    <3> HIDE DEF B
    <3> QED BY <1>8 DEF IsBestFirst
  <2>1. q[k] \in Int /\ q[m] \in Int
    BY <1>9, WidthAssumption DEF Raw
  <2>2. k = m \/ IsBefore(s, q[k], q[m])
    BY <1>7 DEF IsMapOrder
  <2>3. IF s = "ask" THEN q[k] <= q[m] ELSE q[k] >= q[m]
    BY <2>1, <2>2 DEF IsBefore
  <2> HIDE DEF B
  <2> QED BY <1>8, <2>3
<1> HIDE DEF B
<1> QED BY <1>1, <1>8, <1>10, <1>11, <1>12

-----------------------------------------------------------------------------
(* The client: from the text to the printed line.                          *)

\* One side of a message that parses.
LEMMA ParsedSide ==
  ASSUME NEW texts \in LevelTexts, LevelsParse(texts)
  PROVE  /\ parse_levels(texts) \in Seq(LevelType)
         /\ DOMAIN parse_levels(texts) = DOMAIN texts
         /\ \A k \in DOMAIN texts :
              /\ WellFormed(texts[k].price) /\ WellFormed(texts[k].size)
              /\ IsNearest(parse_levels(texts)[k].price, PriceDecimals,
                           texts[k].price)
              /\ IsNearest(parse_levels(texts)[k].size, SizeDecimals,
                           texts[k].size)
              /\ parse_levels(texts)[k].price \in Raw
              /\ parse_levels(texts)[k].size \in Raw
<1> DEFINE q == parse_levels(texts)
           n == Len(texts)
           Text == [price : DecimalText, size : DecimalText]
<1>1. n \in Nat /\ DOMAIN texts = 1 .. n
  BY DEF LevelTexts
<1>2. \A k \in 1 .. n : texts[k] \in Text
  BY <1>1, ElementType, Zenon DEF LevelTexts
<1>3. \A k \in 1 .. n : /\ texts[k].price \in DecimalText
                        /\ texts[k].size \in DecimalText
  <2> HIDE DEF n
  <2>1. \A l \in Text : l.price \in DecimalText /\ l.size \in DecimalText
    OBVIOUS
  <2> HIDE DEF Text
  <2> QED BY <1>2, <2>1, Zenon
<1>4. /\ DOMAIN q = 1 .. n
      /\ \A k \in 1 .. n :
           /\ q[k].price = from_decimal_string(PriceDecimals, texts[k].price).value
           /\ q[k].size = from_decimal_string(SizeDecimals, texts[k].size).value
           /\ q[k] = [price |-> q[k].price, size |-> q[k].size]
  BY <1>1 DEF parse_levels, parse_level
<1>5. \A k \in 1 .. n :
        /\ from_decimal_string(PriceDecimals, texts[k].price).ok
        /\ from_decimal_string(SizeDecimals, texts[k].size).ok
  BY <1>1 DEF LevelsParse, parse_level
<1> HIDE DEF q, n
<1>6. PriceDecimals \in Nat /\ SizeDecimals \in Nat
  BY DecimalsAssumption
<1>7. ASSUME NEW k \in 1 .. n
      PROVE  /\ WellFormed(texts[k].price) /\ WellFormed(texts[k].size)
             /\ IsNearest(q[k].price, PriceDecimals, texts[k].price)
             /\ IsNearest(q[k].size, SizeDecimals, texts[k].size)
             /\ q[k].price \in Raw /\ q[k].size \in Raw
  <2>1. texts[k].price \in DecimalText /\ texts[k].size \in DecimalText
    BY <1>3
  <2>2. /\ WellFormed(texts[k].price) /\ q[k].price \in Raw
        /\ IsNearest(q[k].price, PriceDecimals, texts[k].price)
    BY <1>4, <1>5, <1>6, <2>1, ParseAccepts
  <2>3. /\ WellFormed(texts[k].size) /\ q[k].size \in Raw
        /\ IsNearest(q[k].size, SizeDecimals, texts[k].size)
    BY <1>4, <1>5, <1>6, <2>1, ParseAccepts
  <2> QED BY <2>2, <2>3
<1>8. q \in Seq(LevelType)
  <2>1. \A k \in 1 .. n : q[k] \in LevelType
    <3>1. ASSUME NEW k \in 1 .. n PROVE q[k] \in LevelType
      <4>1. \A a, b \in Raw : [price |-> a, size |-> b] \in LevelType
        BY DEF LevelType
      <4> QED BY <1>4, <1>7, <4>1, Zenon
    <3> QED BY <3>1
  <2>2. q \in [1 .. n -> LevelType]
    <3>1. q = [k \in 1 .. n |-> q[k]]
      BY <1>1, <1>4 DEF q, parse_levels
    <3> QED BY <2>1, <3>1
  <2> QED BY <1>1, <2>2 DEF n
<1> QED BY <1>1, <1>4, <1>7, <1>8 DEF q

IsTextOf(t, level) == \/ t = << PriceDecimals, level.price >>
                      \/ t = << SizeDecimals, level.size >>

\* The texts of a message are those of its two sides.
LEMMA TextsAre ==
  ASSUME message \in [bids : LevelTexts, asks : LevelTexts], NEW t
  PROVE  t \in MessageTexts <=>
           \/ \E k \in DOMAIN message.bids : IsTextOf(t, message.bids[k])
           \/ \E k \in DOMAIN message.asks : IsTextOf(t, message.asks[k])
<1> DEFINE b == message.bids
           a == message.asks
           all == b \o a
           m == Len(b)
           n == Len(a)
<1>1. b \in LevelTexts /\ a \in LevelTexts
  OBVIOUS
<1>2. t \in MessageTexts <=>
        \E k \in DOMAIN all : IsTextOf(t, all[k])
  BY Zenon DEF MessageTexts, IsTextOf
<1> HIDE DEF b, a
<1>3. /\ m \in Nat /\ n \in Nat /\ DOMAIN b = 1 .. m /\ DOMAIN a = 1 .. n
      /\ all \in LevelTexts /\ Len(all) = m + n
      /\ \A k \in 1 .. m + n : all[k] = IF k <= m THEN b[k] ELSE a[k - m]
  BY <1>1, ConcatProperties, LenProperties DEF LevelTexts
<1>4. DOMAIN all = 1 .. m + n
  BY <1>3, LenProperties DEF LevelTexts
<1> HIDE DEF m, n, all
<1>5. ASSUME NEW k \in DOMAIN all
      PROVE  \/ \E j \in DOMAIN b : all[k] = b[j]
             \/ \E j \in DOMAIN a : all[k] = a[j]
  <2>1. CASE k <= m
    <3>1. k \in DOMAIN b /\ all[k] = b[k]
      BY <1>3, <1>4, <2>1
    <3> QED BY <3>1
  <2>2. CASE ~(k <= m)
    <3>1. k - m \in DOMAIN a /\ all[k] = a[k - m]
      BY <1>3, <1>4, <2>2
    <3> QED BY <3>1
  <2> QED BY <2>1, <2>2
<1>6. ASSUME NEW j \in DOMAIN b PROVE \E k \in DOMAIN all : all[k] = b[j]
  <2>1. j \in DOMAIN all /\ all[j] = b[j]
    BY <1>3, <1>4
  <2> QED BY <2>1
<1>7. ASSUME NEW j \in DOMAIN a PROVE \E k \in DOMAIN all : all[k] = a[j]
  <2>1. m + j \in DOMAIN all /\ ~(m + j <= m) /\ (m + j) - m = j
        /\ m + j \in 1 .. m + n
    BY <1>3, <1>4
  <2>2. all[m + j] = a[(m + j) - m]
    BY <1>3, <2>1
  <2> QED BY <2>1, <2>2
<1>8. (\E k \in DOMAIN all : IsTextOf(t, all[k])) <=>
        \/ \E k \in DOMAIN b : IsTextOf(t, b[k])
        \/ \E k \in DOMAIN a : IsTextOf(t, a[k])
  BY <1>5, <1>6, <1>7, Zenon
<1> QED BY <1>2, <1>8 DEF b, a

MessageType == [bids : LevelTexts, asks : LevelTexts]

\* A side of a message, once applied: the levels that are kept are nearest to
\* levels of the text.
LEMMA AppliedSide ==
  ASSUME NEW texts \in LevelTexts, LevelsParse(texts), NEW s \in {"bid", "ask"},
         NEW B, B = apply_levels(parse_levels(texts), s)
  PROVE  /\ B \in Seq(LevelType) /\ IsBestFirst(s, B)
         /\ \A k \in DOMAIN B : \E l \in Range(texts) :
              /\ IsNearest(B[k].price, PriceDecimals, l.price)
              /\ IsNearest(B[k].size, SizeDecimals, l.size)
<1> DEFINE q == parse_levels(texts)
<1>1. /\ q \in Seq(LevelType) /\ DOMAIN q = DOMAIN texts
      /\ \A k \in DOMAIN texts :
           /\ IsNearest(q[k].price, PriceDecimals, texts[k].price)
           /\ IsNearest(q[k].size, SizeDecimals, texts[k].size)
  BY ParsedSide
<1> HIDE DEF q
<1>2. /\ B \in Seq(LevelType) /\ IsBestFirst(s, B)
      /\ \A k \in DOMAIN B : \E j \in DOMAIN q :
           B[k].price = q[j].price /\ B[k].size = q[j].size
  BY <1>1, AppliedLevels DEF q
<1>3. ASSUME NEW k \in DOMAIN B
      PROVE  \E l \in Range(texts) :
               /\ IsNearest(B[k].price, PriceDecimals, l.price)
               /\ IsNearest(B[k].size, SizeDecimals, l.size)
  <2>1. PICK j \in DOMAIN texts :
          B[k].price = q[j].price /\ B[k].size = q[j].size
    BY <1>1, <1>2
  <2>2. texts[j] \in Range(texts)
    BY DEF Range
  <2>3. /\ IsNearest(B[k].price, PriceDecimals, texts[j].price)
        /\ IsNearest(B[k].size, SizeDecimals, texts[j].size)
    BY <1>1, <2>1, Zenon
  <2> QED BY <2>2, <2>3, Zenon
<1> QED BY <1>2, <1>3

\* A message is read: every number becomes the nearest one, or one of them is
\* a reason to skip it.
LEMMA ReadNearest ==
  ASSUME message \in MessageType, ReadBook
  PROVE  ParsedIsNearest'
<1> DEFINE b == message.bids
           a == message.asks
           Fine(t) == WellFormed(t[2]) /\ Nearest(t[1], t[2]) # {}
           Bad(t) == \/ ~WellFormed(t[2])
                     \/ Nearest(t[1], t[2]) \in {{}, {-RawMax - 1}}
<1>1. b \in LevelTexts /\ a \in LevelTexts /\ message' = message
  BY DEF MessageType, ReadBook
<1>2. \A t : t \in MessageTexts <=> \/ \E k \in DOMAIN b : IsTextOf(t, b[k])
                                    \/ \E k \in DOMAIN a : IsTextOf(t, a[k])
  BY TextsAre DEF MessageType
<1>3. MessageTexts' = MessageTexts
  BY <1>1 DEF MessageTexts
<1>4. PriceDecimals \in Nat /\ SizeDecimals \in Nat
  BY DecimalsAssumption
<1>5. CASE LevelsParse(b) /\ LevelsParse(a)
  <2>1. /\ phase' = "print"
        /\ book' = [bid |-> apply_levels(parse_levels(b), "bid"),
                    ask |-> apply_levels(parse_levels(a), "ask")]
    BY <1>5 DEF ReadBook
  <2>2. ASSUME NEW texts \in LevelTexts, LevelsParse(texts),
               NEW k \in DOMAIN texts, NEW t, IsTextOf(t, texts[k])
        PROVE  Fine(t)
    <3> DEFINE q == parse_levels(texts)
    <3>1. /\ WellFormed(texts[k].price) /\ WellFormed(texts[k].size)
          /\ IsNearest(q[k].price, PriceDecimals, texts[k].price)
          /\ IsNearest(q[k].size, SizeDecimals, texts[k].size)
          /\ q[k].price \in Raw /\ q[k].size \in Raw
      BY <2>2, ParsedSide
    <3> HIDE DEF q
    <3>2. CASE t = << PriceDecimals, texts[k].price >>
      <4>1. t[1] = PriceDecimals /\ t[2] = texts[k].price
        BY <3>2
      <4> QED BY <3>1, <4>1, Zenon DEF Nearest
    <3>3. CASE t = << SizeDecimals, texts[k].size >>
      <4>1. t[1] = SizeDecimals /\ t[2] = texts[k].size
        BY <3>3
      <4> QED BY <3>1, <4>1, Zenon DEF Nearest
    <3> QED BY <2>2, <3>2, <3>3 DEF IsTextOf
  <2> HIDE DEF Fine, b, a
  <2>3. \A t \in MessageTexts : Fine(t)
    BY <1>1, <1>2, <1>5, <2>2, Zenon
  <2> DEFINE Kept(ls, texts) ==
               \A k \in DOMAIN ls : \E l \in Range(texts) :
                 /\ IsNearest(ls[k].price, PriceDecimals, l.price)
                 /\ IsNearest(ls[k].size, SizeDecimals, l.size)
  <2>4. Kept(book'.bid, b) /\ Kept(book'.ask, a)
    <3>1. /\ book'.bid = apply_levels(parse_levels(b), "bid")
          /\ book'.ask = apply_levels(parse_levels(a), "ask")
      BY <2>1
    <3>2. Kept(book'.bid, b)
      BY <1>1, <1>5, <3>1, AppliedSide
    <3>3. Kept(book'.ask, a)
      BY <1>1, <1>5, <3>1, AppliedSide
    <3> QED BY <3>2, <3>3
  <2>5. ASSUME NEW s \in {"bid", "ask"}
        PROVE  Kept(book'[s], IF s = "bid" THEN b ELSE a)
    <3> HIDE DEF Kept
    <3>1. CASE s = "bid"
      BY <2>4, <3>1
    <3>2. CASE s = "ask"
      BY <2>4, <3>2
    <3> QED BY <3>1, <3>2
  <2> QED BY <1>1, <1>3, <2>1, <2>3, <2>5 DEF ParsedIsNearest, Fine, b, a
<1>6. CASE ~(LevelsParse(b) /\ LevelsParse(a))
  <2>1. phase' = "skipped"
    BY <1>6 DEF ReadBook
  <2>2. ASSUME NEW texts \in LevelTexts, ~LevelsParse(texts)
        PROVE  \E k \in DOMAIN texts : \E t : IsTextOf(t, texts[k]) /\ Bad(t)
    <3>1. PICK k \in DOMAIN texts :
            \/ ~from_decimal_string(PriceDecimals, texts[k].price).ok
            \/ ~from_decimal_string(SizeDecimals, texts[k].size).ok
      BY <2>2 DEF LevelsParse, parse_level
    <3>2. texts[k].price \in DecimalText /\ texts[k].size \in DecimalText
      <4> DEFINE Text == [price : DecimalText, size : DecimalText]
      <4>1. \A l \in Text : l.price \in DecimalText /\ l.size \in DecimalText
        OBVIOUS
      <4> HIDE DEF Text
      <4>2. texts[k] \in Text
        BY ElementType, Zenon DEF LevelTexts, Text
      <4> QED BY <4>1, <4>2, Zenon
    <3>3. CASE ~from_decimal_string(PriceDecimals, texts[k].price).ok
      <4> DEFINE t == << PriceDecimals, texts[k].price >>
      <4>1. t[1] = PriceDecimals /\ t[2] = texts[k].price /\ IsTextOf(t, texts[k])
        BY DEF IsTextOf
      <4> HIDE DEF t
      <4>2. Bad(t)
        BY <1>4, <3>2, <3>3, <4>1, ParseRejects
      <4> HIDE DEF Bad
      <4> QED BY <4>1, <4>2, Zenon
    <3>4. CASE ~from_decimal_string(SizeDecimals, texts[k].size).ok
      <4> DEFINE t == << SizeDecimals, texts[k].size >>
      <4>1. t[1] = SizeDecimals /\ t[2] = texts[k].size /\ IsTextOf(t, texts[k])
        BY DEF IsTextOf
      <4> HIDE DEF t
      <4>2. Bad(t)
        BY <1>4, <3>2, <3>4, <4>1, ParseRejects
      <4> HIDE DEF Bad
      <4> QED BY <4>1, <4>2, Zenon
    <3> QED BY <3>1, <3>3, <3>4
  <2> HIDE DEF Bad, b, a
  <2>3. \E t \in MessageTexts : Bad(t)
    BY <1>1, <1>2, <1>6, <2>2, Zenon
  <2> QED BY <1>3, <2>1, <2>3 DEF ParsedIsNearest, Bad
<1> QED BY <1>5, <1>6

\* Every number that is kept of a message is the representable value nearest
\* to its text, ties away from zero, and a message is skipped only for a number
\* that is malformed or has no such value: for any width, any number of
\* decimals and any text (from_decimal_string, parse_levels, apply_levels).
THEOREM ParsedNumbersAreNearest == ClientSpec => []ParsedIsNearest
<1> DEFINE Inv == message \in MessageType /\ ParsedIsNearest
<1>1. ClientInit => Inv
  <2> SUFFICES ASSUME ClientInit PROVE Inv
    OBVIOUS
  <2>1. message \in MessageType /\ phase = "flags"
    BY ClientAssumption DEF ClientInit, MessageType
  <2> QED BY <2>1 DEF ParsedIsNearest
<1>2. Inv /\ [ClientNext]_allVars => Inv'
  <2> SUFFICES ASSUME Inv, [ClientNext]_allVars PROVE Inv'
    OBVIOUS
  <2>1. message' = message
    BY DEF ClientNext, ExtractFlags, ApplyOverride, ReadBook, CallBids,
           CallAsks, PrintLine, allVars, clientVars
  <2>2. CASE ReadBook
    BY <2>1, <2>2, ReadNearest
  <2>3. CASE phase' \notin {"print", "skipped"}
    BY <2>1, <2>3 DEF ParsedIsNearest
  <2>4. CASE UNCHANGED << phase, book >>
    <3>1. MessageTexts' = MessageTexts
      BY <2>1 DEF MessageTexts
    <3> QED BY <2>1, <2>4, <3>1 DEF ParsedIsNearest
  <2>5. \/ ReadBook \/ phase' \notin {"print", "skipped"}
        \/ UNCHANGED << phase, book >>
    BY DEF ClientNext, ExtractFlags, ApplyOverride, CallBids, CallAsks,
           PrintLine, allVars, clientVars
  <2> QED BY <2>2, <2>3, <2>4, <2>5
<1>3. Inv => ParsedIsNearest
  OBVIOUS
<1> QED BY <1>1, <1>2, <1>3, PTL DEF ClientSpec

\* What main() makes of a flag is a list of raw values.
LEMMA ParsedListsAreRaw ==
  ASSUME NEW tokens \in Seq(DecimalText)
  PROVE  /\ parse_volume_thresholds(tokens).ok =>
              parse_volume_thresholds(tokens).value \in Seq(Raw)
         /\ parse_price_bps(tokens, kBpsDenominator).ok =>
              parse_price_bps(tokens, kBpsDenominator).value \in Seq(Raw)
<1> DEFINE N == Len(tokens)
           t == [k \in 1 .. N |-> threshold_token(tokens[k])]
           b == [k \in 1 .. N |-> bps_token(tokens[k])]
<1>1. N \in Nat /\ DOMAIN tokens = 1 .. N
      /\ \A k \in 1 .. N : tokens[k] \in DecimalText
  OBVIOUS
<1>2. /\ parse_volume_thresholds(tokens) = parse_ascending_list(t, 1 .. RawMax)
      /\ parse_price_bps(tokens, kBpsDenominator) =
           parse_ascending_list(b, 0 .. kBpsDenominator - 1)
  BY <1>1 DEF parse_volume_thresholds, parse_price_bps
<1> HIDE DEF N
<1>3. DOMAIN t = 1 .. N /\ DOMAIN b = 1 .. N
  OBVIOUS
<1>4. RawMax \in Nat
  BY WidthAssumption
<1>5. ASSUME NEW parsed, NEW valid, DOMAIN parsed = 1 .. N,
             parse_ascending_list(parsed, valid).ok,
             \A k \in 1 .. N : parsed[k].ok /\ parsed[k].value \in valid
                                 => parsed[k].value \in Raw
      PROVE  parse_ascending_list(parsed, valid).value \in Seq(Raw)
  <2> DEFINE v == [k \in DOMAIN parsed |-> parsed[k].value]
  <2>1. /\ \A k \in DOMAIN parsed : parsed[k].ok /\ v[k] \in valid
        /\ parse_ascending_list(parsed, valid).value = v
    BY <1>5 DEF parse_ascending_list, Ok, Error
  <2>2. v \in [1 .. N -> Raw]
    BY <1>5, <2>1
  <2> HIDE DEF v
  <2> QED BY <1>1, <2>1, <2>2
<1>6. ASSUME NEW k \in 1 .. N, b[k].ok PROVE b[k].value \in Raw
  <2> DEFINE x == tokens[k]
             int == int_value(x)
  <2>1. x.int \in Seq(0 .. NotADigit)
    BY <1>1 DEF DecimalText
  <2>2. bps_token(x).ok
    BY <1>6
  <2>3. /\ int.ok
        /\ bps_token(x).value = IF x.negative THEN -int.value ELSE int.value
    BY <2>2 DEF bps_token, Ok, Error
  <2>4. int.value \in 0 .. RawMax
    BY <2>1, <2>3, IntValue
  <2> HIDE DEF int, x
  <2>5. bps_token(x).value \in Raw
    BY <1>4, <2>3, <2>4 DEF Raw
  <2> QED BY <2>5 DEF x
<1>7. \A x \in 1 .. RawMax : x \in Raw
  BY <1>4 DEF Raw
<1> HIDE DEF t, b
<1>8. parse_ascending_list(t, 1 .. RawMax).ok =>
        parse_ascending_list(t, 1 .. RawMax).value \in Seq(Raw)
  BY <1>3, <1>5, <1>7
<1>9. parse_ascending_list(b, 0 .. kBpsDenominator - 1).ok =>
        parse_ascending_list(b, 0 .. kBpsDenominator - 1).value \in Seq(Raw)
  BY <1>3, <1>5, <1>6
<1> QED BY <1>2, <1>8, <1>9

\* Before the first call there are no levels; then every call is given one side
\* of a book that is best price first, and its invariants hold.
Idle == Called(kind, "bid", << >>, list)

BookOK == \A s \in {"bid", "ask"} :
            book[s] \in Seq(LevelType) /\ IsBestFirst(s, book[s])

CallOK == IInv /\ PriceInv /\ VolumeInv

ClientInv ==
  /\ UsableInv /\ message \in MessageType /\ list \in Seq(Raw) /\ BookOK
  /\ phase \notin {"bid", "ask", "printed"} => Idle
  /\ CallOK

LEMMA NewCallOK == NewCall /\ BestFirst => CallOK
BY NewCallIInv, NewCallPriceInv, NewCallVolumeInv DEF CallOK

LEMMA IdleOK ==
  kind \in {"price", "volume"} /\ list \in Seq(Raw) /\ Idle => CallOK
<1> SUFFICES ASSUME kind \in {"price", "volume"}, list \in Seq(Raw), Idle
             PROVE  NewCall /\ BestFirst
  BY NewCallOK
<1>1. side = "bid" /\ levels = << >>
  BY DEF Idle, Called
<1>2. ArgsTyped /\ BestFirst
  BY <1>1 DEF ArgsTyped, BestFirst
<1>3. Called(kind, side, levels, list)
  BY <1>1 DEF Idle
<1> QED BY <1>1, <1>2, <1>3 DEF NewCall

LEMMA IdleOKNext ==
  (kind \in {"price", "volume"} /\ list \in Seq(Raw) /\ Idle)' => CallOK'
BY IdleOK, PTL

LEMMA NewCallOKNext == (NewCall /\ BestFirst)' => CallOK'
BY NewCallOK, PTL

LEMMA ClientStep == ClientInv /\ [ClientNext]_allVars => ClientInv'
<1> SUFFICES ASSUME ClientInv, [ClientNext]_allVars PROVE ClientInv'
  OBVIOUS
<1>1. UsableInv'
  BY UsableStep DEF ClientInv
<1>2. message' = message
  BY DEF ClientNext, ExtractFlags, ApplyOverride, ReadBook, CallBids,
         CallAsks, PrintLine, allVars, clientVars
<1>3. ASSUME UNCHANGED vars PROVE CallOK' /\ list' = list /\ (Idle => Idle')
  <2>1. [Step]_vars
    BY <1>3
  <2>2. CallOK'
    BY <2>1, StepKeepsIInv, StepKeepsPriceInv, StepKeepsVolumeInv
       DEF ClientInv, CallOK
  <2>3. list' = list /\ (Idle => Idle')
    BY <1>3 DEF vars, argVars, sumVars, Idle, Called
  <2> QED BY <2>2, <2>3
<1>4. CASE ExtractFlags
  <2>1. UNCHANGED << vars, book >> /\ phase = "flags"
    BY <1>4 DEF ExtractFlags
  <2> QED BY <1>1, <1>2, <1>3, <2>1 DEF ClientInv, BookOK
<1>5. CASE ApplyOverride
  <2>1. /\ phase = "override"
        /\ UNCHANGED << kind, side, levels, pc, i, next, sumVars, result, error,
                        numerator, args, message, flags, book, printed >>
        /\ \/ list' = list
           \/ list' = Default
           \/ /\ Override # Absent /\ Parsed(Override[1]).ok
              /\ list' = Parsed(Override[1]).value
    BY <1>5 DEF ApplyOverride
  <2>2. Override # Absent => Override[1] \in Seq(DecimalText)
    BY <2>1 DEF ClientInv, UsableInv, Override, IsCsv
  <2>3. list' \in Seq(Raw)
    <3>1. CASE list' = list
      BY <3>1 DEF ClientInv
    <3>2. CASE list' = Default
      BY <3>2, ClientAssumption DEF Default
    <3>3. CASE /\ Override # Absent /\ Parsed(Override[1]).ok
               /\ list' = Parsed(Override[1]).value
      BY <2>2, <3>3, ParsedListsAreRaw DEF Parsed
    <3> QED BY <2>1, <3>1, <3>2, <3>3
  <2>4. Idle'
    <3>1. Idle
      BY <2>1 DEF ClientInv
    <3> QED BY <2>1, <3>1 DEF Idle, Called, sumVars
  <2>5. kind' \in {"price", "volume"}
    BY <1>1 DEF UsableInv
  <2>6. CallOK'
    BY <2>3, <2>4, <2>5, IdleOKNext
  <2> QED BY <1>1, <1>2, <2>1, <2>3, <2>4, <2>6 DEF ClientInv, BookOK
<1>6. CASE ReadBook
  <2>1. UNCHANGED vars /\ phase = "read"
    BY <1>6 DEF ReadBook
  <2>2. BookOK'
    <3>1. CASE book' = book
      BY <3>1 DEF ClientInv, BookOK
    <3>2. CASE book' # book
      <4> DEFINE b == message.bids
                 a == message.asks
      <4>1. /\ LevelsParse(b) /\ LevelsParse(a)
            /\ book' = [bid |-> apply_levels(parse_levels(b), "bid"),
                        ask |-> apply_levels(parse_levels(a), "ask")]
        BY <1>6, <3>2 DEF ReadBook
      <4>2. b \in LevelTexts /\ a \in LevelTexts
        BY DEF ClientInv, MessageType
      <4>3. /\ book'.bid = apply_levels(parse_levels(b), "bid")
            /\ book'.ask = apply_levels(parse_levels(a), "ask")
        BY <4>1
      <4> HIDE DEF a, b
      <4>4. book'.bid \in Seq(LevelType) /\ IsBestFirst("bid", book'.bid)
        BY <4>1, <4>2, <4>3, AppliedSide
      <4>5. book'.ask \in Seq(LevelType) /\ IsBestFirst("ask", book'.ask)
        BY <4>1, <4>2, <4>3, AppliedSide
      <4>6. ASSUME NEW s \in {"bid", "ask"}
            PROVE  book'[s] \in Seq(LevelType) /\ IsBestFirst(s, book'[s])
        <5>1. CASE s = "bid"
          BY <4>4, <5>1
        <5>2. CASE s = "ask"
          BY <4>5, <5>2
        <5> QED BY <5>1, <5>2
      <4> QED BY <4>6 DEF BookOK, IsBestFirst
    <3> QED BY <3>1, <3>2
  <2>3. phase \notin {"bid", "ask", "printed"}
    BY <2>1
  <2> QED BY <1>1, <1>2, <1>3, <2>1, <2>2, <2>3 DEF ClientInv
<1>7. ASSUME NEW s \in {"bid", "ask"}, Call(s), book' = book
      PROVE  CallOK' /\ list' = list
  <2>1. /\ side' = s /\ levels' = book[s] /\ kind' = kind /\ list' = list
        /\ pc' = "begin" /\ i' = 1 /\ next' = 1
        /\ cum_size' = 0 /\ cum_notional' = 0 /\ next_cum' = 0
        /\ result' = << >> /\ error' = "none"
        /\ numerator' = 0 /\ narrowed' = FALSE
    BY <1>7 DEF Call
  <2>2. /\ book[s] \in Seq(LevelType) /\ IsBestFirst(s, book[s])
        /\ list \in Seq(Raw) /\ kind \in {"price", "volume"}
    BY DEF ClientInv, BookOK, UsableInv
  <2>3. Called(kind, side, levels, list)'
    BY <2>1 DEF Called
  <2>4. ArgsTyped'
    BY <2>1, <2>2 DEF ArgsTyped, LevelType
  <2>5. BestFirst'
    BY <2>1, <2>2 DEF BestFirst, IsBestFirst
  <2>6. NewCall'
    BY <2>1, <2>2, <2>3, <2>4 DEF NewCall
  <2> QED BY <2>1, <2>5, <2>6, NewCallOKNext
<1>8. CASE CallBids
  <2>1. Call("bid") /\ book' = book /\ phase' = "bid"
    BY <1>8 DEF CallBids
  <2>2. CallOK' /\ list' = list
    BY <1>7, <2>1
  <2> QED BY <1>1, <1>2, <2>1, <2>2 DEF ClientInv, BookOK
<1>9. CASE CallAsks
  <2>1. Call("ask") /\ book' = book /\ phase' = "ask"
    BY <1>9 DEF CallAsks
  <2>2. CallOK' /\ list' = list
    BY <1>7, <2>1
  <2> QED BY <1>1, <1>2, <2>1, <2>2 DEF ClientInv, BookOK
<1>10. CASE PrintLine
  <2>1. UNCHANGED << vars, book >> /\ phase' = "printed"
    BY <1>10 DEF PrintLine
  <2> QED BY <1>1, <1>2, <1>3, <2>1 DEF ClientInv, BookOK
<1>11. CASE phase \in {"bid", "ask"} /\ Step /\ UNCHANGED clientVars
  <2>1. UNCHANGED << book, phase >> /\ phase \in {"bid", "ask"}
    BY <1>11 DEF clientVars
  <2>2. CallOK'
    BY <1>11, StepKeepsIInv, StepKeepsPriceInv, StepKeepsVolumeInv
       DEF ClientInv, CallOK
  <2>3. list' \in Seq(Raw)
    BY <2>2 DEF CallOK, IInv, ArgsTyped
  <2> QED BY <1>1, <1>2, <2>1, <2>2, <2>3 DEF ClientInv, BookOK
<1>12. CASE UNCHANGED allVars
  <2>1. UNCHANGED << vars, book, phase >>
    BY <1>12 DEF allVars, clientVars
  <2> QED BY <1>1, <1>2, <1>3, <2>1 DEF ClientInv, BookOK
<1> QED BY <1>4, <1>5, <1>6, <1>8, <1>9, <1>10, <1>11, <1>12 DEF ClientNext

LEMMA ClientInvariance == ClientSpec => []ClientInv
<1>1. ClientInit => ClientInv
  <2> SUFFICES ASSUME ClientInit PROVE ClientInv
    OBVIOUS
  <2>1. PICK k \in {"price", "volume"} : Called(k, "bid", << >>, << >>)
    BY DEF ClientInit
  <2>2. kind = k /\ list = << >> /\ Idle
    BY <2>1 DEF Idle, Called
  <2>3. CallOK
    BY <2>2, IdleOK
  <2>4. UsableInv
    BY DEF ClientInit, Called, UsableInv
  <2>5. message \in MessageType
    BY ClientAssumption DEF ClientInit, MessageType
  <2>6. BookOK
    <3>1. book = [bid |-> << >>, ask |-> << >>]
      BY DEF ClientInit
    <3>2. \A s \in {"bid", "ask"} : book[s] = << >>
      BY <3>1
    <3>3. << >> \in Seq(LevelType) /\ \A s : IsBestFirst(s, << >>)
      BY DEF IsBestFirst
    <3> QED BY <3>2, <3>3, Zenon DEF BookOK
  <2> QED BY <2>2, <2>3, <2>4, <2>5, <2>6 DEF ClientInv
<1> QED BY <1>1, ClientStep, PTL DEF ClientSpec

\* Every call that print_bands makes, for the bids and then for the asks of the
\* book it keeps: types, the preconditions that are only asserted, and the wide
\* products.
THEOREM PrintedBandsAreSafe ==
  ClientSpec => [](TypeOK /\ AssertsHold /\ WideNeverOverflows)
<1>1. ClientInv => TypeOK /\ AssertsHold /\ WideNeverOverflows
  BY IInvAsserts DEF ClientInv, CallOK, IInv
<1> QED BY <1>1, ClientInvariance, PTL

\* From the text of a message to the printed line, for any text, any flags and
\* any width: a price band of the line is the depth of exactly the levels
\* within it, because apply_levels keeps them best price first.
THEOREM PrintedPriceBandsAreExact == ClientSpec => []PriceBandsAreExact
<1>1. ClientInv => PriceBandsAreExact
  BY PriceInvExact DEF ClientInv, CallOK
<1> QED BY <1>1, ClientInvariance, PTL

\* The same for the volume bands of the line.
THEOREM PrintedVolumeBandsAreExact == ClientSpec => []VolumeBandsAreExact
<1>1. ClientInv => VolumeBandsAreExact
  BY VolumeInvExact DEF ClientInv, CallOK
<1> QED BY <1>1, ClientInvariance, PTL
=============================================================================
