---------------------------- MODULE MCBandClient ----------------------------
(***************************************************************************)
(* Command lines and books for module BandClient.  With one decimal and    *)
(* RawMax = 31 the largest number is 3.1, so one level can leave the range *)
(* of a Notional, and three levels that of a Size.                         *)
(***************************************************************************)
EXTENDS BandClient

Text(int, frac) ==
  [negative |-> FALSE, int |-> int, dot |-> frac # << >>, frac |-> frac]
Negative(text) == [text EXCEPT !.negative = TRUE]
Whole(n) == Text(<< n >>, << >>)

\* 0.3, then texts that round up to 0.4 and to 1.0, then 1.2 and 3.1.
PriceTexts == << Text(<< 0 >>, << 3 >>), Text(<< 0 >>, << 3, 5 >>),
                 Text(<< >>, << 9, 6, 4 >>), Text(<< 1 >>, << 2 >>),
                 Text(<< 3 >>, << 1, 4, 9 >>) >>
\* 0.1, a text that rounds up to 0.3, 1 and 3.1.
SizeTexts == {Text(<< 0 >>, << 1 >>), Text(<< 0 >>, << 2, 5 >>), Whole(1),
              Text(<< 3 >>, << 1 >>)}

Level1(p, s) == [price |-> PriceTexts[p], size |-> s]

Books ==
  UNION {{[k \in DOMAIN ps |-> Level1(ps[k], ss[k])] :
            ss \in [DOMAIN ps -> SizeTexts]} :
          ps \in {SetToSortSeq(S, LAMBDA a, b : a < b) :
                    S \in {T \in SUBSET DOMAIN PriceTexts :
                             T # {} /\ Cardinality(T) <= 3}}}

Oddities ==
  LET good == Level1(3, Whole(1))
  IN { << >>, << good, [good EXCEPT !.size = Text(<< 0 >>, << 0, 4 >>)] >>,
       << good, [good EXCEPT !.price = Negative(Text(<< 0 >>, << 1 >>))] >>,
       << good, [Level1(4, Whole(1)) EXCEPT !.size = Negative(Whole(1))] >>,
       << good, [good EXCEPT !.price = Text(<< 3 >>, << 1, 5 >>)] >>,
       << good, [good EXCEPT !.price = Negative(Text(<< 3 >>, << 2 >>))] >>,
       << good, [good EXCEPT !.price = Text(<< 1 >>, << 0, NotADigit >>)] >>,
       << good, [good EXCEPT !.size = Text(<< 1, NotADigit >>, << >>)] >>,
       << [good EXCEPT !.size = Text(<< >>, << >>)] >> }

MCMessages ==
  {[bids |-> b, asks |-> << >>] : b \in Books}
    \cup {[bids |-> << >>, asks |-> b] : b \in Books \cup Oddities}
    \cup {[bids |-> b, asks |-> << Level1(3, Whole(1)) >>] : b \in Oddities}

Wholes(ns) == [k \in DOMAIN ns |-> Whole(ns[k])]
Volume(csv) == [flag |-> "--volume-thresholds=", csv |-> csv]
Bps(csv) == [flag |-> "--price-bps=", csv |-> csv]
Both(v, b) == << Volume(v), [flag |-> "address", csv |-> << >>], Bps(b) >>

MCArgs ==
  { << >>, Both(Wholes(<< 1, 2, 3 >>), Wholes(<< 0, 1, 5 >>)),
    Both(Wholes(<< 3 >>), Wholes(<< 2, 9 >>)),
    Both(Wholes(<< 2, 1 >>), Wholes(<< 5, 1 >>)),
    Both(Wholes(<< 1, 1 >>), Wholes(<< 3, 3 >>)),
    Both(Wholes(<< 0, 1 >>), << Text(<< 1, 0 >>, << >>) >>),
    Both(<< Whole(4) >>, << Negative(Whole(1)) >>),
    Both(<< Text(<< 1 >>, << 2, 5 >>) >>, << Text(<< 1 >>, << 5 >>) >>),
    Both(<< Whole(1), Text(<< >>, << >>) >>, << Whole(NotADigit) >>),
    << Volume(Wholes(<< 1 >>)), Volume(Wholes(<< 2 >>)) >> }

MCDefaultVolumeThresholds == << 10, 20 >>
MCDefaultPriceBps == << 1, 5 >>
=============================================================================
