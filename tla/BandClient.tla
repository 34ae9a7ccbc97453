----------------------------- MODULE BandClient -----------------------------
(***************************************************************************)
(* From text to printed bands: main()'s handling of the band flags in      *)
(* apps/aggregator/client_main.cpp, the levels of a message as they are    *)
(* parsed and kept, and print_bands(), which calls module Bands for the    *)
(* bids and then for the asks.                                             *)
(*                                                                         *)
(* The path of a level from the venue's message to the client's book is in *)
(* modules VenueSession and SymbolBook; here it is taken over unchanged.   *)
(***************************************************************************)
EXTENDS Bands, BandConfig, FiniteSets

CONSTANTS
  Args,             \* command lines
  Messages,         \* books as a venue sends them, in decimal text
  DefaultVolumeThresholds, DefaultPriceBps

LevelTexts == Seq([price : DecimalText, size : DecimalText])

\* Arguments are flags with lists of numbers, messages are levels in text, and
\* the defaults of band_config.hpp are lists that both sides accept.
ASSUME ClientAssumption ==
  /\ Args \subseteq Seq([flag : STRING, csv : Seq(DecimalText)])
  /\ Messages \subseteq [bids : LevelTexts, asks : LevelTexts]
  /\ DefaultVolumeThresholds \in Seq(Raw) /\ DefaultPriceBps \in Seq(Raw)
  /\ volume_thresholds_valid(DefaultVolumeThresholds)
  /\ \A s \in {"bid", "ask"} : bps_thresholds_valid(s, DefaultPriceBps)

VARIABLES
  args, message,
  flags,      \* what extract_flags found
  phase,      \* where the client is
  book,       \* side -> levels, best price first
  printed     \* side -> what the line says

clientVars == << args, message, flags, phase, book, printed >>
allVars == << vars, clientVars >>

\* main(): extract_flags.
ExtractFlags ==
  /\ phase = "flags"
  /\ LET f == extract_flags(args)
     IN IF f.ok THEN flags' = f.value /\ phase' = "override"
        ELSE phase' = "usage" /\ UNCHANGED flags
  /\ UNCHANGED << vars, args, message, book, printed >>

\* The flag that belongs to the mode; the other one is ignored.
Override == IF kind = "volume" THEN flags.volume_thresholds_csv
            ELSE flags.price_bps_csv

Parsed(csv) == IF kind = "volume" THEN parse_volume_thresholds(csv)
               ELSE parse_price_bps(csv, kBpsDenominator)

Default == IF kind = "volume" THEN DefaultVolumeThresholds ELSE DefaultPriceBps

\* apply_band_override: no flag leaves the default, a bad one ends main().
ApplyOverride ==
  /\ phase = "override"
  /\ IF Override = Absent THEN list' = Default /\ phase' = "read"
     ELSE LET parsed == Parsed(Override[1])
          IN IF parsed.ok THEN list' = parsed.value /\ phase' = "read"
             ELSE phase' = "usage" /\ UNCHANGED list
  /\ UNCHANGED << kind, side, levels, pc, i, next, sumVars, result, error,
                  numerator, args, message, flags, book, printed >>

\* A set of prices in the order in which the map of side s iterates: best price
\* first.
MapOrder(s, prices) ==
  CHOOSE q \in [1 .. Cardinality(prices) -> prices] :
    \A k, m \in DOMAIN q :
      k < m => IF s = "bid" THEN q[k] > q[m] ELSE q[k] < q[m]

\* apply_levels: a later level replaces an earlier one of the same price, and
\* a size of zero removes it.
apply_levels(parsed, s) ==
  LET last(p) == parsed[Max({k \in DOMAIN parsed : parsed[k].price = p})].size
      kept == {p \in {parsed[k].price : k \in DOMAIN parsed} : last(p) # 0}
      prices == MapOrder(s, kept)
  IN [k \in DOMAIN prices |-> [price |-> prices[k], size |-> last(prices[k])]]

ReadBook ==
  /\ phase = "read"
  /\ IF LevelsParse(message.bids) /\ LevelsParse(message.asks)
     THEN /\ book' = [bid |-> apply_levels(parse_levels(message.bids), "bid"),
                      ask |-> apply_levels(parse_levels(message.asks), "ask")]
          /\ phase' = "print"
     ELSE phase' = "skipped" /\ UNCHANGED book
  /\ UNCHANGED << vars, args, message, flags, printed >>

\* A call of the band function of this kind for one side of the book.
Call(s) ==
  /\ side' = s /\ levels' = book[s]
  /\ pc' = "begin" /\ i' = 1 /\ next' = 1
  /\ cum_size' = 0 /\ cum_notional' = 0 /\ next_cum' = 0
  /\ result' = << >> /\ error' = "none"
  /\ numerator' = 0 /\ narrowed' = FALSE
  /\ UNCHANGED << kind, list >>

\* print_bands: the bids, ...
CallBids ==
  /\ phase = "print"
  /\ phase' = "bid"
  /\ Call("bid")
  /\ UNCHANGED << args, message, flags, book, printed >>

Line == IF error = "none" THEN << "bands", result >> ELSE << "ERROR" >>

\* ... then the asks, whatever became of the bids.
CallAsks ==
  /\ phase = "bid" /\ pc = "done"
  /\ printed' = [printed EXCEPT !.bid = Line]
  /\ phase' = "ask"
  /\ Call("ask")
  /\ UNCHANGED << args, message, flags, book >>

PrintLine ==
  /\ phase = "ask" /\ pc = "done"
  /\ printed' = [printed EXCEPT !.ask = Line]
  /\ phase' = "printed"
  /\ UNCHANGED << vars, args, message, flags, book >>

ClientInit ==
  /\ \E k \in {"price", "volume"} : Called(k, "bid", << >>, << >>)
  /\ args \in Args /\ message \in Messages
  /\ flags = Absent /\ phase = "flags"
  /\ book = [bid |-> << >>, ask |-> << >>]
  /\ printed = [bid |-> << >>, ask |-> << >>]

ClientNext ==
  \/ ExtractFlags \/ ApplyOverride \/ ReadBook
  \/ CallBids \/ CallAsks \/ PrintLine
  \/ phase \in {"bid", "ask"} /\ Step /\ UNCHANGED clientVars

ClientSpec == ClientInit /\ [][ClientNext]_allVars

-----------------------------------------------------------------------------
(* What must hold.                                                         *)

\* A list that main() accepted, or its default, is never what makes a call
\* fail, on either side: a bad flag is an error at start-up and not "ERROR"
\* on every line.
AcceptedListIsUsable == error # "invalid_argument"

\* raw is the multiple of 10 ^ -decimals nearest to the text, ties away from
\* zero: worked out with all digits of the text.
IsNearest(raw, decimals, text) ==
  LET exact == Digits(text.int \o text.frac) * PowerOfTen(decimals)
      unit == PowerOfTen(Len(text.frac))
  IN /\ 2 * (exact - Abs(raw) * unit) < unit
     /\ 2 * (Abs(raw) * unit - exact) <= unit
     /\ raw # 0 => (raw < 0 <=> text.negative)

Nearest(decimals, text) ==
  {raw \in Raw : IsNearest(raw, decimals, text)}

WellFormed(text) ==
  /\ text.int # << >> \/ text.frac # << >>
  /\ \A c \in Range(text.int) \cup Range(text.frac) : IsDigit(c)

MessageTexts ==
  LET all == message.bids \o message.asks
  IN {<< PriceDecimals, all[k].price >> : k \in DOMAIN all}
       \cup {<< SizeDecimals, all[k].size >> : k \in DOMAIN all}

\* What is kept of a message is, number by number, the representable value
\* nearest to the text; and a message is skipped only if one of its numbers
\* is not a number or has no such value (the most negative raw value, which
\* the parser gives up, excepted).
ParsedIsNearest ==
  /\ phase = "print" =>
       /\ \A t \in MessageTexts : WellFormed(t[2]) /\ Nearest(t[1], t[2]) # {}
       /\ \A s \in {"bid", "ask"} : \A k \in DOMAIN book[s] :
            \E l \in Range(IF s = "bid" THEN message.bids ELSE message.asks) :
              /\ IsNearest(book[s][k].price, PriceDecimals, l.price)
              /\ IsNearest(book[s][k].size, SizeDecimals, l.size)
  /\ phase = "skipped" =>
       \E t \in MessageTexts : ~WellFormed(t[2]) \/ Nearest(t[1], t[2]) \in
                                 {{}, {-RawMax - 1}}
=============================================================================
