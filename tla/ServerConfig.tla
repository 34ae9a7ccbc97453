---------------------------- MODULE ServerConfig ----------------------------
(***************************************************************************)
(* What the server makes of its configuration before any session starts:   *)
(* the parsers of ingestion/book_subscription.hpp, the naming rules of     *)
(* symbol/symbol.hpp, and the grouping and wiring in server_main.cpp.      *)
(*                                                                         *)
(* A symbol is a sequence of letters, because two different symbols can    *)
(* have the same spelling at a venue.  Which error message a rejected      *)
(* document gets is left out: every one of them ends the program with 1.   *)
(***************************************************************************)
EXTENDS Subsequences, SequencesExt, Functions, FiniteSetsExt

CONSTANTS
  kMaxIdleTimeout,      \* longest idle timeout a document may ask for
  kDefaultIdleTimeout,  \* the timeout of a document that asks for none
  kMaxIoThreads         \* most threads a document may ask for

ASSUME ConfigAssumption ==
  /\ kMaxIdleTimeout \in Nat /\ kDefaultIdleTimeout \in 1 .. kMaxIdleTimeout
  /\ kMaxIoThreads \in Nat \ {0}

Exchange == {"BINANCE", "BYBIT", "OKX"}
MarketType == {"SPOT", "PERP"}
VenueId == [exchange : Exchange, type : MarketType]

\* An optional field that the document leaves out.
Absent == -1

\* JSON documents, with the fields the parsers look at.
Documents ==
  [books : Seq([complete : BOOLEAN, symbol : Seq(STRING), type : STRING,
                venues : Seq(STRING)]),
   idle : Int,
   overrides : Seq([venue_id : [exchange : STRING, type : STRING],
                    seconds : Int]),
   io_threads : Int]

-----------------------------------------------------------------------------
(* Symbols.                                                                *)

\* split_base_quote: exactly one '_', with something on both sides of it.
Splits(token) ==
  \E i \in 2 .. Len(token) - 1 :
    {j \in DOMAIN token : token[j] = "_"} = {i}

split_base_quote(token) ==
  LET i == CHOOSE j \in DOMAIN token : token[j] = "_"
  IN [base |-> SubSeq(token, 1, i - 1),
      quote |-> SubSeq(token, i + 1, Len(token))]

\* The spelling a venue subscribes with.  Only OKX keeps base and quote apart.
native_symbol(exchange, symbol, type) ==
  IF exchange = "OKX"
  THEN symbol.base \o << "-" >> \o symbol.quote
         \o (IF type = "PERP" THEN << "-SWAP" >> ELSE << >>)
  ELSE symbol.base \o symbol.quote

-----------------------------------------------------------------------------
(* The parsers.  An entry of "books" has a symbol, a type and a list of    *)
(* venues; complete says that all three are there, of the right JSON type. *)

BookId(entry) == [symbol |-> split_base_quote(entry.symbol),
                  type |-> entry.type]

EntryAccepted(entry) ==
  /\ entry.complete
  /\ entry.type \in MarketType
  /\ Splits(entry.symbol)
  /\ entry.venues # << >>
  /\ Range(entry.venues) \subseteq Exchange
  /\ IsInjective(entry.venues)

BooksAccepted(books) ==
  /\ books # << >>
  /\ \A i \in DOMAIN books : EntryAccepted(books[i])
  /\ \A i, j \in DOMAIN books :
       i # j => BookId(books[i]) # BookId(books[j])

\* The subscriptions of a document that was accepted, in the order written.
parse_book_subscriptions(books) ==
  FlattenSeq([i \in DOMAIN books |->
    [j \in DOMAIN books[i].venues |->
      [venue_id |-> [exchange |-> books[i].venues[j],
                     type |-> books[i].type],
       book_id |-> BookId(books[i]),
       native_symbol |-> native_symbol(books[i].venues[j],
                                       BookId(books[i]).symbol,
                                       books[i].type)]]])

TimeoutAccepted(seconds) == seconds \in 1 .. kMaxIdleTimeout

IdleTimeoutAccepted(config) ==
  /\ config.idle = Absent \/ TimeoutAccepted(config.idle)
  /\ \A i \in DOMAIN config.overrides :
       /\ config.overrides[i].venue_id \in VenueId
       /\ TimeoutAccepted(config.overrides[i].seconds)
       /\ \A j \in DOMAIN config.overrides :
            config.overrides[i].venue_id = config.overrides[j].venue_id
              => i = j

IoThreadsAccepted(config) ==
  config.io_threads = Absent \/ config.io_threads \in 1 .. kMaxIoThreads

ConfigAccepted(config) ==
  /\ BooksAccepted(config.books)
  /\ IdleTimeoutAccepted(config)
  /\ IoThreadsAccepted(config)

io_threads(config) ==
  IF config.io_threads = Absent THEN 1 ELSE config.io_threads

\* IdleTimeoutConfig::for_venue.
for_venue(config, v) ==
  LET named == {i \in DOMAIN config.overrides :
                  config.overrides[i].venue_id = v}
  IN IF named # {} THEN config.overrides[CHOOSE i \in named : TRUE].seconds
     ELSE IF config.idle = Absent THEN kDefaultIdleTimeout ELSE config.idle

-----------------------------------------------------------------------------
(* Grouping by venue and wiring.                                           *)

\* Seeded fault: subscriptions grouped by exchange, not by exchange and
\* market.
SubscriptionsByExchange(subscriptions, v) ==
  SelectSeq(subscriptions, LAMBDA s : s.venue_id.exchange = v.exchange)

SubscriptionsOf(subscriptions, v) ==
  AtIndices(subscriptions,
            {i \in DOMAIN subscriptions : subscriptions[i].venue_id = v})

\* SymbolRegistry::add keeps the first book that a symbol was added with.
Registry(group) ==
  [n \in {group[i].native_symbol : i \in DOMAIN group} |->
     group[Min({i \in DOMAIN group : group[i].native_symbol = n})].book_id]

\* The venues main() has a wire_venue() call for.
Wirable == VenueId

\* One session for each wirable venue that the document names.
wire_venue(config, v) ==
  LET group == SubscriptionsOf(parse_book_subscriptions(config.books), v)
  IN [native_symbols |-> [i \in DOMAIN group |-> group[i].native_symbol],
      registry |-> Registry(group),
      idle_timeout |-> for_venue(config, v)]

WiredSessions(config) ==
  LET subscriptions == parse_book_subscriptions(config.books)
  IN [v \in {w \in Wirable : SubscriptionsOf(subscriptions, w) # << >>} |->
        wire_venue(config, v)]

\* unwired_venues and unused_overrides of main(): either one ends start-up.
venues_missing_from(candidates, wired) == candidates \ wired

HasBadVenues(config, wired) ==
  \/ venues_missing_from(
       {s.venue_id : s \in Range(parse_book_subscriptions(config.books))},
       wired) # {}
  \/ venues_missing_from(
       {o.venue_id : o \in Range(config.overrides)}, wired) # {}
=============================================================================
