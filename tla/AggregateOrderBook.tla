------------------------- MODULE AggregateOrderBook -------------------------
(***************************************************************************)
(* The aggregated book of one symbol, include/bobby/hermeneutic/book/      *)
(* aggregate_order_book.hpp: the levels each venue contributes (venues_)   *)
(* and their running sum (aggregate_), maintained by adding the difference *)
(* every change of a venue's level makes.                                  *)
(*                                                                         *)
(* A level is a side and a price.  Size 0 means that the book has no such  *)
(* level.  Each operation returns the next book together with the changes  *)
(* its Sink is told: the levels it moved, with their new aggregate size.   *)
(***************************************************************************)
EXTENDS Integers, FiniteSets

CONSTANTS
  Venue,     \* venues that may contribute
  MaxPrice   \* the largest price: prices are fixed-width integers

ASSUME PriceAssumption == MaxPrice \in Nat
ASSUME VenueAssumption == IsFiniteSet(Venue)

Price == 1 .. MaxPrice
Level == {"bid", "ask"} \X Price

NoLevels == [l \in Level |-> 0]

\* A message gives a size to some levels and leaves the others as they are.
Same == -1
NoChanges == [l \in Level |-> Same]

\* L2OrderBook per venue, the venues that have one, and the aggregate.
EmptyBook ==
  [live |-> {}, venues |-> [v \in Venue |-> NoLevels], aggregate |-> NoLevels]

\* A book with the levels that d mentions put in place.
Overlay(levels, d) ==
  [l \in Level |-> IF d[l] = Same THEN levels[l] ELSE d[l]]

\* is_valid_level, for every level of a message.
IsValid(levels) == \A l \in Level : levels[l] = Same \/ levels[l] >= 0

\* Seeded fault: one venue's decrease removes the level of all of them.
AdjustRemoving(size, delta) == IF delta <= 0 THEN 0 ELSE size + delta

\* adjust_aggregate: add a difference to a level, removing it at or below 0.
AdjustAggregate(size, delta) == IF size + delta <= 0 THEN 0 ELSE size + delta

\* Seeded fault: the venue's own size is reported, not the aggregate.
SetVenueReportsOwn(book, v, new) ==
  LET changed == {l \in Level : new[l] # book.venues[v][l]}
  IN  [book    |-> [book EXCEPT
                      !.venues[v] = new,
                      !.aggregate =
                        [l \in Level |-> AdjustAggregate(@[l],
                                           new[l] - book.venues[v][l])]],
       changes |-> [l \in Level |-> IF l \in changed THEN new[l] ELSE Same]]

\* Give venue v the levels new.  Only a level whose size differs is moved in
\* the aggregate and reported.
SetVenue(book, v, new) ==
  LET changed == {l \in Level : new[l] # book.venues[v][l]}
      aggregate ==
        [l \in Level |->
           IF l \in changed
             THEN AdjustAggregate(book.aggregate[l],
                                  new[l] - book.venues[v][l])
             ELSE book.aggregate[l]]
  IN  [book    |-> [book EXCEPT !.venues[v] = new, !.aggregate = aggregate],
       changes |-> [l \in Level |->
                      IF l \in changed THEN aggregate[l] ELSE Same]]

\* The venue has an entry from now on, even if it holds no level.
MakeLive(r, v) == [r EXCEPT !.book.live = @ \cup {v}]

\* apply_snapshot: the venue's book is replaced on both sides at once.
BookApplySnapshot(book, v, levels) ==
  MakeLive(SetVenue(book, v, Overlay(NoLevels, levels)), v)

\* apply_batch: the levels of one message are put in place.
BookApplyBatch(book, v, levels) ==
  MakeLive(SetVenue(book, v, Overlay(book.venues[v], levels)), v)

\* Seeded fault: the entry goes, its levels stay in the aggregate.
InvalidateEntryOnly(book, v) ==
  [book |-> [book EXCEPT !.live = @ \ {v}], changes |-> NoChanges]

\* invalidate_venue: the venue's levels and its entry are removed.
BookInvalidateVenue(book, v) ==
  IF v \notin book.live
    THEN [book |-> book, changes |-> NoChanges]
    ELSE LET r == SetVenue(book, v, NoLevels)
         IN  [r EXCEPT !.book.live = @ \ {v}]

-----------------------------------------------------------------------------
(* Top of book, SymbolBook::best_bid and best_ask.                         *)

NoBest == << 0, 0 >>

Quoted(aggregate, side) == {p \in Price : aggregate[<< side, p >>] > 0}

BestBid(aggregate) ==
  IF Quoted(aggregate, "bid") = {} THEN NoBest
  ELSE LET p == CHOOSE p \in Quoted(aggregate, "bid") :
                  \A q \in Quoted(aggregate, "bid") : q <= p
       IN  << p, aggregate[<< "bid", p >>] >>

BestAsk(aggregate) ==
  IF Quoted(aggregate, "ask") = {} THEN NoBest
  ELSE LET p == CHOOSE p \in Quoted(aggregate, "ask") :
                  \A q \in Quoted(aggregate, "ask") : q >= p
       IN  << p, aggregate[<< "ask", p >>] >>

Best(aggregate) == [bid |-> BestBid(aggregate), ask |-> BestAsk(aggregate)]
=============================================================================
