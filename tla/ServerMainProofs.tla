-------------------------- MODULE ServerMainProofs --------------------------
(***************************************************************************)
(* The safety of the server's life, for every set of documents and every   *)
(* number of sessions, threads and signals.  The invariant has one part    *)
(* per mechanism: the wiring, the barrier, the signal strand, the thread   *)
(* that shuts gRPC down, the io threads with the watchdog, the heartbeat.  *)
(***************************************************************************)
EXTENDS ServerMain, Induction, FiniteSetTheorems

\* Before the io threads run, nothing of the shutdown has begun.
Early == {"load", "build", "wire", "refuse", "refuse_shutdown", "arm",
          "start", "spawn"}

\* From here on the thread that shut gRPC down is joined.
Joined == {"watch", "stop", "post", "join_io", "complete", "join_watchdog",
           "join_beat", "return", "teardown"}

\* What is known of the document and of the wiring made from it.
ConfigInv ==
  /\ config \in Configs
  /\ pc \notin {"load", "returned"} => ConfigAccepted(config)
  /\ pc \in {"load", "build", "wire"} => DOMAIN sess = {}
  /\ pc \notin {"load", "build", "wire", "returned"} =>
       wired = WiredSessions(config)
  /\ pc = "arm" \/ Started => ~HasBadVenues(config, DOMAIN wired)

\* Before start_all() nothing is on the strand and no session has begun.
StartInv ==
  /\ pc \in Early =>
       /\ io = {} /\ ~ioStopped /\ watchdog = "none"
       /\ ~shutdownReq /\ stage = "idle" /\ grpc = "none"
       /\ posted = {} /\ ~stopReq
  /\ pc \in Early \ {"start", "spawn"} => ~wait /\ strand = << >>
  /\ pc \in Early \ {"spawn"} =>
       /\ drained = 0
       /\ \A v \in DOMAIN sess : sess[v] = "wired"

\* The barrier expects exactly the sessions that have not ended, and it calls
\* on_all_drained only after stop_all(), when none is left.
BarrierInv ==
  /\ pc = "spawn" \/ pc \notin Early \cup {"returned"} =>
       arrivals = {v \in DOMAIN sess : sess[v] # "done"}
  /\ drained = 1 => stopReq /\ \A v \in DOMAIN sess : sess[v] = "done"
  /\ stopReq => pc \notin Early

\* What can be queued on signal_strand.
Strands == {<< >>, << "signal" >>, << "cancel" >>, << "aborted" >>,
            << "signal", "cancel" >>, << "cancel", "signal" >>}

\* At most one of these exists at a time: an outstanding wait, its completion
\* with a signal, its completion with an error.  The cancel is queued once.
StrandInv ==
  /\ strand \in Strands
  /\ wait => strand \in {<< >>, << "cancel" >>}
  /\ stage # "idle" => strand \in {<< "signal" >>, << "signal", "cancel" >>}
  /\ drained = 0 => strand \in {<< >>, << "signal" >>}
  /\ drained = 0 /\ Started => wait \/ strand = << "signal" >>
  /\ queued <= raised

\* The thread that shuts gRPC down, and who holds the mutex of its handle.
GrpcInv ==
  /\ stage = "assigning" <=> mutex = "handler"
  /\ pc = "join" <=> mutex = "main"
  /\ ~shutdownReq => grpc = "none" /\ stage = "idle"
  /\ grpc = "none" => ~joinable /\ (~shutdownReq \/ stage = "spawning")
  /\ stage = "spawning" => grpc = "none"
  /\ server = "shut" => grpc # "none" \/ pc = "returned"
  /\ pc \in {"lock", "join"} => grpc # "none"
  /\ stage # "assigning" /\ grpc # "none" /\ pc \notin Joined \cup {"returned"}
       => joinable
  /\ pc \in Joined => grpc = "ended" /\ ~joinable /\ stage # "assigning"
  /\ pc = "returned" => grpc \in {"none", "ended"} /\ ~joinable
  /\ pc = "returned" => stage \notin {"spawning", "assigning"}

\* io.run() returns because the watchdog stopped it, or because there is
\* nothing left, and then on_all_drained was called.
IoInv ==
  /\ ioStopped => watchdog = "forced" \/ drained = 1
  /\ io = {} /\ pc \notin Early \cup {"returned"} => ioStopped
  /\ pc \in {"complete", "join_watchdog", "join_beat"} \cup Leaving => io = {}
  /\ complete => ioStopped
  /\ complete => pc \in {"join_watchdog", "join_beat"} \cup Leaving
  /\ pc \in {"wait", "lock", "join", "watch"} => watchdog = "none"
  /\ pc \in Joined \ ({"watch", "join_beat"} \cup Leaving) => watchdog # "none"
  /\ pc \in Leaving \/ pc = "join_beat" =>
       watchdog \in {"none", "ended", "forced"}

\* The heartbeat's thread.
BeatInv ==
  /\ pc \in {"load", "build"} => beat = "none"
  /\ pc = "refuse_shutdown" => beat = "ended"
  /\ pc \in Leaving => beat \in {"none", "ended"}

IInv ==
  /\ TypeOK /\ ConfigInv /\ StartInv /\ BarrierInv /\ StrandInv /\ GrpcInv
  /\ IoInv /\ BeatInv

-----------------------------------------------------------------------------
(* The configuration: what the parsers, the grouping and the wiring make   *)
(* of a document that is accepted.                                         *)

\* The subscription of the i-th book at its j-th venue.
SubscriptionAt(books, i, j) ==
  [venue_id |-> [exchange |-> books[i].venues[j], type |-> books[i].type],
   book_id |-> BookId(books[i]),
   native_symbol |-> native_symbol(books[i].venues[j],
                                   BookId(books[i]).symbol, books[i].type)]

\* parse_book_subscriptions returns one subscription for every venue of every
\* book, and nothing else.
LEMMA SubscriptionsAreTheBooks ==
  ASSUME NEW c \in Documents
  PROVE  LET books == c.books
             subs == parse_book_subscriptions(books)
         IN  \E V :
               /\ subs \in Seq(V)
               /\ \A i \in DOMAIN books : \A j \in DOMAIN books[i].venues :
                    \E k \in DOMAIN subs : subs[k] = SubscriptionAt(books, i, j)
               /\ \A k \in DOMAIN subs :
                    \E i \in DOMAIN books : \E j \in DOMAIN books[i].venues :
                      subs[k] = SubscriptionAt(books, i, j)
<1> DEFINE books == c.books
           Sub(i, j) == SubscriptionAt(books, i, j)
           V == UNION {{Sub(i, j) : j \in DOMAIN books[i].venues} :
                         i \in DOMAIN books}
           row(i) == [j \in DOMAIN books[i].venues |-> Sub(i, j)]
           ss == [i \in DOMAIN books |-> row(i)]
           subs == parse_book_subscriptions(books)
<1>1. subs = FlattenSeq(ss)
  BY DEF parse_book_subscriptions, SubscriptionAt
<1>2. DOMAIN books = 1 .. Len(books) /\ Len(books) \in Nat
  BY DEF Documents
<1>3. ASSUME NEW i \in DOMAIN books
      PROVE  /\ DOMAIN books[i].venues = 1 .. Len(books[i].venues)
             /\ Len(books[i].venues) \in Nat
  BY DEF Documents
<1> HIDE DEF books
<1>4. ASSUME NEW i \in DOMAIN books PROVE row(i) \in Seq(V)
  <2>1. ASSUME NEW j \in DOMAIN books[i].venues PROVE Sub(i, j) \in V
    OBVIOUS
  <2> HIDE DEF Sub, V
  <2>2. row(i) \in [1 .. Len(books[i].venues) -> V]
    BY <1>3, <2>1
  <2> QED BY <1>3, <2>2
<1> HIDE DEF V, row
<1>5. ss \in Seq(Seq(V))
  <2>1. ss \in [1 .. Len(books) -> Seq(V)]
    BY <1>2, <1>4
  <2> QED BY <1>2, <2>1
<1>6. DOMAIN ss = DOMAIN books /\ \A i \in DOMAIN books : ss[i] = row(i)
  OBVIOUS
<1> HIDE DEF ss, subs
<1>7. /\ subs \in Seq(V)
      /\ \A i \in DOMAIN ss : \A j \in DOMAIN ss[i] :
           \E k \in DOMAIN subs : subs[k] = ss[i][j]
      /\ \A k \in DOMAIN subs :
           \E i \in DOMAIN ss : \E j \in DOMAIN ss[i] : subs[k] = ss[i][j]
  BY <1>1, <1>5, FlattenSeqProperties
<1>8. ASSUME NEW i \in DOMAIN books
      PROVE  /\ DOMAIN ss[i] = DOMAIN books[i].venues
             /\ \A j \in DOMAIN books[i].venues : ss[i][j] = Sub(i, j)
  BY <1>6 DEF row
<1> HIDE DEF Sub
<1>9. /\ \A i \in DOMAIN books : \A j \in DOMAIN books[i].venues :
           \E k \in DOMAIN subs : subs[k] = Sub(i, j)
      /\ \A k \in DOMAIN subs :
           \E i \in DOMAIN books : \E j \in DOMAIN books[i].venues :
             subs[k] = Sub(i, j)
  BY <1>6, <1>7, <1>8
<1> QED BY <1>7, <1>9 DEF books, subs, Sub

\* A venue's group is the subscriptions of the books that name the venue.
LEMMA GroupIsTheNamed ==
  ASSUME NEW c \in Documents, NEW v
  PROVE  LET books == c.books
             subs == parse_book_subscriptions(books)
             group == SubscriptionsOf(subs, v)
         IN  /\ DOMAIN group = 1 .. Len(group) /\ Len(group) \in Nat
             /\ group = << >> <=> DOMAIN group = {}
             /\ \A i \in DOMAIN books : \A j \in DOMAIN books[i].venues :
                  SubscriptionAt(books, i, j).venue_id = v =>
                    \E k \in DOMAIN group :
                      group[k] = SubscriptionAt(books, i, j)
             /\ \A k \in DOMAIN group :
                  \E i \in DOMAIN books : \E j \in DOMAIN books[i].venues :
                    /\ group[k] = SubscriptionAt(books, i, j)
                    /\ group[k].venue_id = v
<1> DEFINE books == c.books
           Sub(i, j) == SubscriptionAt(books, i, j)
           subs == parse_book_subscriptions(books)
           I == {i \in DOMAIN subs : subs[i].venue_id = v}
           group == SubscriptionsOf(subs, v)
<1>1. PICK V :
        /\ subs \in Seq(V)
        /\ \A i \in DOMAIN books : \A j \in DOMAIN books[i].venues :
             \E k \in DOMAIN subs : subs[k] = Sub(i, j)
        /\ \A k \in DOMAIN subs :
             \E i \in DOMAIN books : \E j \in DOMAIN books[i].venues :
               subs[k] = Sub(i, j)
  BY SubscriptionsAreTheBooks
<1>2. group = AtIndices(subs, I)
  BY DEF SubscriptionsOf
<1> HIDE DEF subs, group, Sub, books
<1>3. /\ group \in Seq(V)
      /\ \A i \in DOMAIN subs : i \in I =>
           \E k \in DOMAIN group : group[k] = subs[i]
      /\ \A k \in DOMAIN group :
           \E i \in DOMAIN subs : i \in I /\ group[k] = subs[i]
  <2> HIDE DEF I
  <2> QED BY <1>1, <1>2, AtIndicesProperties
<1>4. /\ DOMAIN group = 1 .. Len(group) /\ Len(group) \in Nat
      /\ group = << >> <=> DOMAIN group = {}
  BY <1>3
<1>5. ASSUME NEW i \in DOMAIN books, NEW j \in DOMAIN books[i].venues,
             Sub(i, j).venue_id = v
      PROVE  \E k \in DOMAIN group : group[k] = Sub(i, j)
  <2>1. PICK n \in DOMAIN subs : subs[n] = Sub(i, j)
    BY <1>1
  <2>2. n \in I
    BY <1>5, <2>1
  <2> QED BY <1>3, <2>1, <2>2
<1>6. ASSUME NEW k \in DOMAIN group
      PROVE  \E i \in DOMAIN books : \E j \in DOMAIN books[i].venues :
               group[k] = Sub(i, j) /\ group[k].venue_id = v
  <2>1. PICK n \in DOMAIN subs : n \in I /\ group[k] = subs[n]
    BY <1>3
  <2>2. PICK i \in DOMAIN books : \E j \in DOMAIN books[i].venues :
          subs[n] = Sub(i, j)
    BY <1>1
  <2> QED BY <2>1, <2>2
<1> QED BY <1>4, <1>5, <1>6 DEF group, subs, Sub, books

\* The registry of a group gives each spelling the book of some subscription
\* of the group with that spelling.
LEMMA RegistryIsOfTheGroup ==
  ASSUME NEW group, DOMAIN group \subseteq Nat, NEW n \in DOMAIN Registry(group)
  PROVE  \E k \in DOMAIN group :
           group[k].native_symbol = n /\ Registry(group)[n] = group[k].book_id
<1> DEFINE T == {i \in DOMAIN group : group[i].native_symbol = n}
           k == Min(T)
<1>1. n \in {group[i].native_symbol : i \in DOMAIN group}
  BY DEF Registry
<1>2. T # {} /\ T \subseteq Nat
  BY <1>1
<1>3. \E m \in T : \A l \in T : m <= l
  <2> HIDE DEF T
  <2> QED BY <1>2, LeastNat
<1>4. k \in T
  <2> HIDE DEF T
  <2> QED BY <1>3 DEF Min
<1>5. Registry(group)[n] = group[k].book_id
  BY <1>1 DEF Registry
<1> HIDE DEF k
<1> QED BY <1>4, <1>5

\* A venue is named by a book exactly when one of the book's subscriptions is
\* for it, and then the spelling is that subscription's.
LEMMA NamedIsSubscribed ==
  ASSUME NEW c \in Documents, NEW i \in DOMAIN c.books, NEW v \in VenueId
  PROVE  /\ Named(c.books[i], v) =>
              \E j \in DOMAIN c.books[i].venues :
                SubscriptionAt(c.books, i, j).venue_id = v
         /\ \A j \in DOMAIN c.books[i].venues :
              LET sub == SubscriptionAt(c.books, i, j)
              IN  sub.venue_id = v =>
                    /\ Named(c.books[i], v)
                    /\ sub.native_symbol = Spelling(c.books[i], v)
                    /\ sub.book_id = BookId(c.books[i])
<1> DEFINE b == c.books[i]
<1>1. v = [exchange |-> v.exchange, type |-> v.type]
  BY DEF VenueId
<1>2. ASSUME Named(b, v)
      PROVE  \E j \in DOMAIN b.venues :
               SubscriptionAt(c.books, i, j).venue_id = v
  <2>1. PICK j \in DOMAIN b.venues : b.venues[j] = v.exchange
    BY <1>2 DEF Named, Range
  <2> QED BY <1>1, <1>2, <2>1 DEF Named, SubscriptionAt
<1>3. ASSUME NEW j \in DOMAIN b.venues,
             SubscriptionAt(c.books, i, j).venue_id = v
      PROVE  /\ Named(b, v)
             /\ SubscriptionAt(c.books, i, j).native_symbol = Spelling(b, v)
             /\ SubscriptionAt(c.books, i, j).book_id = BookId(b)
  <2>1. v.exchange = b.venues[j] /\ v.type = b.type
    BY <1>3 DEF SubscriptionAt
  <2> QED BY <2>1 DEF Named, Range, Spelling, SubscriptionAt
<1> QED BY <1>2, <1>3

\* What main() has wired when start-up was not refused.
LEMMA WiringReachesVenues ==
  ASSUME NEW c \in Documents, ConfigAccepted(c),
         NEW w, w = WiredSessions(c), ~HasBadVenues(c, DOMAIN w)
  PROVE  /\ DOMAIN w # {}
         /\ \A v \in VenueId, i \in DOMAIN c.books :
              LET b == c.books[i]
                  alone == \A j \in DOMAIN c.books :
                             /\ j # i /\ Named(c.books[j], v)
                             => Spelling(c.books[j], v) # Spelling(b, v)
              IN /\ Named(b, v) =>
                      /\ v \in DOMAIN w
                      /\ Contains(w[v].native_symbols, Spelling(b, v))
                      /\ alone => w[v].registry[Spelling(b, v)] = BookId(b)
                 /\ ~Named(b, v) /\ v \in DOMAIN w =>
                      BookId(b) \notin Range(w[v].registry)
         /\ \A i \in DOMAIN c.overrides :
              w[c.overrides[i].venue_id].idle_timeout
                = c.overrides[i].seconds
<1> DEFINE books == c.books
           Sub(i, j) == SubscriptionAt(books, i, j)
           subs == parse_book_subscriptions(books)
           group(v) == SubscriptionsOf(subs, v)
<1>1. /\ DOMAIN w = {v \in VenueId : group(v) # << >>}
      /\ \A v \in DOMAIN w : w[v] = wire_venue(c, v)
  BY DEF WiredSessions, Wirable
<1>2. ASSUME NEW v
      PROVE  /\ DOMAIN group(v) = 1 .. Len(group(v)) /\ Len(group(v)) \in Nat
             /\ group(v) = << >> <=> DOMAIN group(v) = {}
             /\ \A i \in DOMAIN books : \A j \in DOMAIN books[i].venues :
                  Sub(i, j).venue_id = v =>
                    \E k \in DOMAIN group(v) : group(v)[k] = Sub(i, j)
             /\ \A k \in DOMAIN group(v) :
                  \E i \in DOMAIN books : \E j \in DOMAIN books[i].venues :
                    group(v)[k] = Sub(i, j) /\ group(v)[k].venue_id = v
  BY GroupIsTheNamed
<1>3. ASSUME NEW v \in DOMAIN w
      PROVE  /\ w[v].native_symbols =
                  [k \in DOMAIN group(v) |-> group(v)[k].native_symbol]
             /\ w[v].registry = Registry(group(v))
             /\ w[v].idle_timeout = for_venue(c, v)
  BY <1>1 DEF wire_venue
<1>4. ASSUME NEW i \in DOMAIN books, NEW v \in VenueId
      PROVE  /\ Named(books[i], v) =>
                  \E j \in DOMAIN books[i].venues : Sub(i, j).venue_id = v
             /\ \A j \in DOMAIN books[i].venues : Sub(i, j).venue_id = v =>
                  /\ Named(books[i], v)
                  /\ Sub(i, j).native_symbol = Spelling(books[i], v)
                  /\ Sub(i, j).book_id = BookId(books[i])
  BY NamedIsSubscribed
<1> HIDE DEF Sub, subs, group
<1>5. ASSUME NEW i \in DOMAIN books, NEW v \in VenueId, Named(books[i], v)
      PROVE  \E k \in DOMAIN group(v) :
               /\ group(v)[k].native_symbol = Spelling(books[i], v)
               /\ group(v)[k].book_id = BookId(books[i])
  <2>1. PICK j \in DOMAIN books[i].venues : Sub(i, j).venue_id = v
    BY <1>4, <1>5
  <2>2. PICK k \in DOMAIN group(v) : group(v)[k] = Sub(i, j)
    <3>1. \A l \in DOMAIN books : \A m \in DOMAIN books[l].venues :
            Sub(l, m).venue_id = v =>
              \E k \in DOMAIN group(v) : group(v)[k] = Sub(l, m)
      BY <1>2
    <3> QED BY <2>1, <3>1
  <2> QED BY <1>4, <2>1, <2>2
<1>6. ASSUME NEW v \in VenueId, NEW k \in DOMAIN group(v)
      PROVE  \E i \in DOMAIN books :
               /\ Named(books[i], v)
               /\ group(v)[k].native_symbol = Spelling(books[i], v)
               /\ group(v)[k].book_id = BookId(books[i])
  <2>1. PICK i \in DOMAIN books : \E j \in DOMAIN books[i].venues :
          group(v)[k] = Sub(i, j) /\ group(v)[k].venue_id = v
    BY <1>2
  <2> QED BY <1>4, <2>1
<1>7. DOMAIN w # {}
  <2>1. books # << >> /\ \A i \in DOMAIN books : EntryAccepted(books[i])
    BY DEF ConfigAccepted, BooksAccepted
  <2>2. 1 \in DOMAIN books
    BY <2>1 DEF Documents
  <2> DEFINE b == books[1]
  <2>3. /\ b.venues \in Seq(STRING) /\ b.venues # << >>
        /\ Range(b.venues) \subseteq Exchange /\ b.type \in MarketType
    <3>1. b.venues \in Seq(STRING)
      <4> DEFINE E == [complete : BOOLEAN, symbol : Seq(STRING),
                       type : STRING, venues : Seq(STRING)]
      <4>1. books \in Seq(E)
        BY DEF Documents
      <4>2. ASSUME NEW e \in E PROVE e.venues \in Seq(STRING)
        OBVIOUS
      <4> HIDE DEF E, books
      <4>3. books[1] \in E
        BY <2>2, <4>1
      <4> QED BY <4>2, <4>3
    <3>2. EntryAccepted(b)
      BY <2>1, <2>2
    <3> QED BY <3>1, <3>2 DEF EntryAccepted
  <2>4. 1 \in DOMAIN b.venues
    BY <2>3
  <2> DEFINE v == [exchange |-> b.venues[1], type |-> b.type]
  <2>5. v \in VenueId /\ Named(b, v)
    BY <2>3, <2>4 DEF VenueId, Range, Named
  <2> HIDE DEF v
  <2>6. group(v) # << >>
    BY <1>2, <1>5, <2>2, <2>5
  <2> QED BY <1>1, <2>5, <2>6
<1>8. ASSUME NEW v \in VenueId, NEW i \in DOMAIN books, Named(books[i], v)
      PROVE  /\ v \in DOMAIN w
             /\ Contains(w[v].native_symbols, Spelling(books[i], v))
  <2>1. PICK k \in DOMAIN group(v) :
          group(v)[k].native_symbol = Spelling(books[i], v)
    BY <1>5, <1>8
  <2>2. v \in DOMAIN w
    BY <1>1, <1>2, <2>1
  <2> DEFINE ns == w[v].native_symbols
  <2>3. /\ ns = [l \in DOMAIN group(v) |-> group(v)[l].native_symbol]
        /\ DOMAIN group(v) = 1 .. Len(group(v)) /\ Len(group(v)) \in Nat
    BY <1>2, <1>3, <2>2
  <2>4. Len(ns) = Len(group(v))
    BY <2>3
  <2>5. k \in 1 .. Len(ns) /\ ns[k] = Spelling(books[i], v)
    BY <2>1, <2>3, <2>4
  <2> QED BY <2>2, <2>5 DEF Contains
<1>9. ASSUME NEW v \in DOMAIN w, NEW n \in DOMAIN w[v].registry
      PROVE  \E i \in DOMAIN books :
               /\ Named(books[i], v) /\ Spelling(books[i], v) = n
               /\ w[v].registry[n] = BookId(books[i])
  <2>1. v \in VenueId /\ w[v].registry = Registry(group(v))
    BY <1>1, <1>3
  <2>2. DOMAIN group(v) \subseteq Nat
    BY <1>2
  <2>3. PICK k \in DOMAIN group(v) :
          /\ group(v)[k].native_symbol = n
          /\ Registry(group(v))[n] = group(v)[k].book_id
    BY <1>9, <2>1, <2>2, RegistryIsOfTheGroup
  <2> QED BY <1>6, <2>1, <2>3
<1>10. ASSUME NEW v \in VenueId, NEW i \in DOMAIN books, Named(books[i], v),
              \A j \in DOMAIN books : j # i /\ Named(books[j], v)
                => Spelling(books[j], v) # Spelling(books[i], v)
       PROVE  w[v].registry[Spelling(books[i], v)] = BookId(books[i])
  <2>1. v \in DOMAIN w
    BY <1>8, <1>10
  <2>2. Spelling(books[i], v) \in DOMAIN w[v].registry
    <3>1. PICK k \in DOMAIN group(v) :
            group(v)[k].native_symbol = Spelling(books[i], v)
      BY <1>5, <1>10
    <3>2. DOMAIN Registry(group(v))
            = {group(v)[l].native_symbol : l \in DOMAIN group(v)}
      BY DEF Registry
    <3> QED BY <1>3, <2>1, <3>1, <3>2
  <2>3. PICK j \in DOMAIN books :
          /\ Named(books[j], v) /\ Spelling(books[j], v) = Spelling(books[i], v)
          /\ w[v].registry[Spelling(books[i], v)] = BookId(books[j])
    BY <1>9, <2>1, <2>2
  <2>4. j = i
    BY <1>10, <2>3
  <2> QED BY <2>3, <2>4
<1>11. ASSUME NEW v \in DOMAIN w, NEW i \in DOMAIN books, ~Named(books[i], v)
       PROVE  BookId(books[i]) \notin Range(w[v].registry)
  <2> SUFFICES ASSUME NEW n \in DOMAIN w[v].registry,
                      w[v].registry[n] = BookId(books[i])
               PROVE  FALSE
    BY DEF Range
  <2>1. PICK j \in DOMAIN books :
          Named(books[j], v) /\ w[v].registry[n] = BookId(books[j])
    BY <1>9
  <2>2. i = j
    BY <2>1 DEF ConfigAccepted, BooksAccepted
  <2> QED BY <1>11, <2>1, <2>2
<1>12. ASSUME NEW i \in DOMAIN c.overrides
       PROVE  w[c.overrides[i].venue_id].idle_timeout = c.overrides[i].seconds
  <2> DEFINE v == c.overrides[i].venue_id
             named == {k \in DOMAIN c.overrides : c.overrides[k].venue_id = v}
  <2>1. v \in DOMAIN w
    <3>1. c.overrides[i] \in Range(c.overrides)
      BY DEF Range
    <3> QED BY <3>1 DEF HasBadVenues, venues_missing_from
  <2>2. i \in named /\ \A k \in named : k = i
    BY DEF ConfigAccepted, IdleTimeoutAccepted
  <2>3. for_venue(c, v) = c.overrides[CHOOSE k \in named : TRUE].seconds
    BY <2>2 DEF for_venue
  <2> HIDE DEF named
  <2>4. (CHOOSE k \in named : TRUE) = i
    BY <2>2
  <2> QED BY <1>3, <2>1, <2>3, <2>4
<1>13. ASSUME NEW v \in VenueId, NEW i \in DOMAIN books,
              ~Named(books[i], v), v \in DOMAIN w
       PROVE  BookId(books[i]) \notin Range(w[v].registry)
  BY <1>11, <1>13
<1> QED BY <1>7, <1>8, <1>10, <1>12, <1>13

-----------------------------------------------------------------------------
(* Every step preserves the invariant.                                     *)

USE DEF Nobody, Early, Joined, Leaving, sessionVars, signalVars, grpcVars, ioVars,
        beatVars

\* How the queue of the strand changes.
LEMMA AppendSecond ==
  ASSUME NEW a, NEW b
  PROVE  Append(<< a >>, b) = << a, b >>
<1> DEFINE s == Append(<< a >>, b)
           t == << a, b >>
<1>1. << a >> \in Seq({a, b}) /\ Len(<< a >>) = 1
  OBVIOUS
<1>2. Len(s) = 2 /\ s[1] = a /\ s[2] = b /\ s \in Seq({a, b})
  BY <1>1, AppendProperties
<1>3. Len(t) = 2 /\ t[1] = a /\ t[2] = b /\ t \in Seq({a, b})
  OBVIOUS
<1> HIDE DEF s, t
<1>4. \A i \in 1 .. Len(s) : s[i] = t[i]
  BY <1>2, <1>3
<1>5. s = t
  BY <1>2, <1>3, <1>4, SeqEqual
<1> QED BY <1>5 DEF s, t

LEMMA StrandAppends ==
  /\ Append(<< >>, "signal") = << "signal" >>
  /\ Append(<< >>, "cancel") = << "cancel" >>
  /\ Append(<< "cancel" >>, "signal") = << "cancel", "signal" >>
  /\ Append(<< "signal" >>, "cancel") = << "signal", "cancel" >>
  /\ << >> \o << "aborted" >> = << "aborted" >>
  /\ << >> \o << >> = << >>
  /\ << "signal" >> \o << >> = << "signal" >>
<1>1. /\ Append(<< >>, "signal") = << "signal" >>
      /\ Append(<< >>, "cancel") = << "cancel" >>
  OBVIOUS
<1>2. /\ Append(<< "cancel" >>, "signal") = << "cancel", "signal" >>
      /\ Append(<< "signal" >>, "cancel") = << "signal", "cancel" >>
  BY AppendSecond
<1>3. /\ << >> \o << "aborted" >> = << "aborted" >> /\ << >> \o << >> = << >>
      /\ << "signal" >> \o << >> = << "signal" >>
  OBVIOUS
<1> QED BY <1>1, <1>2, <1>3

LEMMA StrandTails ==
  /\ Tail(<< "signal" >>) = << >> /\ Head(<< "signal" >>) = "signal"
  /\ Tail(<< "cancel" >>) = << >> /\ Head(<< "cancel" >>) = "cancel"
  /\ Tail(<< "aborted" >>) = << >> /\ Head(<< "aborted" >>) = "aborted"
  /\ Tail(<< "signal", "cancel" >>) = << "cancel" >>
  /\ Head(<< "signal", "cancel" >>) = "signal"
  /\ Tail(<< "cancel", "signal" >>) = << "signal" >>
  /\ Head(<< "cancel", "signal" >>) = "cancel"
  OBVIOUS

LEMMA StrandsDiffer ==
  /\ << "signal" >> # << >> /\ << "cancel" >> # << >>
  /\ << "aborted" >> # << >>
  /\ << "signal", "cancel" >> # << >> /\ << "cancel", "signal" >> # << >>
  /\ << "signal" >> # << "cancel" >>
  OBVIOUS

LEMMA StrandTyped ==
  ASSUME NEW s \in Strands
  PROVE  /\ Len(s) <= 2
         /\ \A i \in DOMAIN s : s[i] \in {"signal", "cancel", "aborted"}
<1>1. CASE s = << >>
  BY <1>1
<1>2. CASE s \in {<< "signal" >>, << "cancel" >>, << "aborted" >>}
  BY <1>2
<1>3. CASE s = << "signal", "cancel" >>
  BY <1>3
<1>4. CASE s = << "cancel", "signal" >>
  BY <1>4
<1> QED BY <1>1, <1>2, <1>3, <1>4 DEF Strands

\* main() starts no runner without sessions.
LEMMA StartsWithSessions ==
  ASSUME TypeOK, ConfigInv, pc = "start"
  PROVE  DOMAIN sess # {}
<1>1. config \in Documents
  BY ServerAssumption DEF ConfigInv
<1>2. /\ ConfigAccepted(config) /\ wired = WiredSessions(config)
      /\ ~HasBadVenues(config, DOMAIN wired)
  BY DEF ConfigInv, Started
<1>3. DOMAIN wired # {}
  BY <1>1, <1>2, WiringReachesVenues
<1> QED BY <1>3 DEF TypeOK

LEMMA LoadConfigStep ==
  ASSUME IInv, LoadConfig
  PROVE  IInv'
<1> USE DEF IInv, LoadConfig
<1>1. ConfigInv'
  BY DEF TypeOK, ConfigInv, Started
<1>2. StartInv'
  BY DEF TypeOK, StartInv, GrpcInv
<1>3. BarrierInv'
  BY DEF TypeOK, BarrierInv, StartInv
<1>4. StrandInv'
  BY DEF TypeOK, StrandInv, StartInv, BarrierInv, Started
<1>5. GrpcInv'
  BY DEF TypeOK, GrpcInv, StartInv, StrandInv, IoInv
<1>6. IoInv'
  BY DEF TypeOK, IoInv, StartInv, StrandInv, Started
<1>7. BeatInv'
  BY DEF TypeOK, BeatInv
<1>8. TypeOK'
  BY DEF TypeOK, StrandInv, BarrierInv
<1> QED BY <1>1, <1>2, <1>3, <1>4, <1>5, <1>6, <1>7, <1>8

LEMMA BuildServerStep ==
  ASSUME IInv, BuildServer
  PROVE  IInv'
<1> USE DEF IInv, BuildServer
<1>1. ConfigInv'
  BY DEF TypeOK, ConfigInv, Started
<1>2. StartInv'
  BY DEF TypeOK, StartInv, GrpcInv
<1>3. BarrierInv'
  BY DEF TypeOK, BarrierInv, StartInv
<1>4. StrandInv'
  BY DEF TypeOK, StrandInv, StartInv, BarrierInv, Started
<1>5. GrpcInv'
  BY DEF TypeOK, GrpcInv, StartInv, StrandInv, IoInv
<1>6. IoInv'
  BY DEF TypeOK, IoInv, StartInv, StrandInv, Started
<1>7. BeatInv'
  BY DEF TypeOK, BeatInv
<1>8. TypeOK'
  BY DEF TypeOK, StrandInv, BarrierInv
<1> QED BY <1>1, <1>2, <1>3, <1>4, <1>5, <1>6, <1>7, <1>8

LEMMA WireVenuesStep ==
  ASSUME IInv, WireVenues
  PROVE  IInv'
<1> USE DEF IInv, WireVenues
<1>1. ConfigInv'
  BY DEF TypeOK, ConfigInv, Started
<1>2. StartInv'
  BY DEF TypeOK, StartInv, GrpcInv
<1>3. BarrierInv'
  BY DEF TypeOK, BarrierInv, StartInv
<1>4. StrandInv'
  BY DEF TypeOK, StrandInv, StartInv, BarrierInv, Started
<1>5. GrpcInv'
  BY DEF TypeOK, GrpcInv, StartInv, StrandInv, IoInv
<1>6. IoInv'
  BY DEF TypeOK, IoInv, StartInv, StrandInv, Started
<1>7. BeatInv'
  BY DEF TypeOK, BeatInv
<1>8. TypeOK'
  <2>1. DOMAIN wired' \subseteq Wirable
    BY DEF WiredSessions
  <2>2. /\ DOMAIN sess' = DOMAIN wired'
        /\ sess' \in [DOMAIN sess' -> {"wired", "started", "running", "done"}]
    OBVIOUS
  <2>3. stuck = {} /\ posted = {} /\ stopping = {} /\ arrivals = {}
    BY DEF TypeOK, ConfigInv
  <2>4. beatStop' \in BOOLEAN
    BY DEF TypeOK
  <2>5. pc' \in {"refuse", "arm"}
    OBVIOUS
  <2> HIDE DEF WireVenues
  <2>6. UNCHANGED << stuck, posted, stopping, arrivals, stopReq, drained, signalVars,
                     grpcVars, ioVars, beat >>
    BY DEF WireVenues
  <2> QED BY <2>1, <2>2, <2>3, <2>4, <2>5, <2>6 DEF TypeOK
<1> QED BY <1>1, <1>2, <1>3, <1>4, <1>5, <1>6, <1>7, <1>8

LEMMA RefuseStep ==
  ASSUME IInv, Refuse
  PROVE  IInv'
<1> USE DEF IInv, Refuse
<1>1. ConfigInv'
  BY DEF TypeOK, ConfigInv, Started
<1>2. StartInv'
  BY DEF TypeOK, StartInv, GrpcInv
<1>3. BarrierInv'
  BY DEF TypeOK, BarrierInv, StartInv
<1>4. StrandInv'
  BY DEF TypeOK, StrandInv, StartInv, BarrierInv, Started
<1>5. GrpcInv'
  BY DEF TypeOK, GrpcInv, StartInv, StrandInv, IoInv
<1>6. IoInv'
  BY DEF TypeOK, IoInv, StartInv, StrandInv, Started
<1>7. BeatInv'
  BY DEF TypeOK, BeatInv
<1>8. TypeOK'
  BY DEF TypeOK, StrandInv, BarrierInv
<1> QED BY <1>1, <1>2, <1>3, <1>4, <1>5, <1>6, <1>7, <1>8

LEMMA RefuseShutdownStep ==
  ASSUME IInv, RefuseShutdown
  PROVE  IInv'
<1> USE DEF IInv, RefuseShutdown
<1>1. ConfigInv'
  BY DEF TypeOK, ConfigInv, Started
<1>2. StartInv'
  BY DEF TypeOK, StartInv, GrpcInv
<1>3. BarrierInv'
  BY DEF TypeOK, BarrierInv, StartInv
<1>4. StrandInv'
  BY DEF TypeOK, StrandInv, StartInv, BarrierInv, Started
<1>5. GrpcInv'
  BY DEF TypeOK, GrpcInv, StartInv, StrandInv, IoInv
<1>6. IoInv'
  BY DEF TypeOK, IoInv, StartInv, StrandInv, Started
<1>7. BeatInv'
  BY DEF TypeOK, BeatInv
<1>8. TypeOK'
  BY DEF TypeOK, StrandInv, BarrierInv
<1> QED BY <1>1, <1>2, <1>3, <1>4, <1>5, <1>6, <1>7, <1>8

LEMMA ArmSignalsStep ==
  ASSUME IInv, ArmSignals
  PROVE  IInv'
<1> USE DEF IInv, ArmSignals
<1>1. ConfigInv'
  BY DEF TypeOK, ConfigInv, Started
<1>2. StartInv'
  BY DEF TypeOK, StartInv, GrpcInv
<1>3. BarrierInv'
  BY DEF TypeOK, BarrierInv, StartInv
<1>4. StrandInv'
  BY DEF TypeOK, StrandInv, StartInv, BarrierInv, Started
<1>5. GrpcInv'
  BY DEF TypeOK, GrpcInv, StartInv, StrandInv, IoInv
<1>6. IoInv'
  BY DEF TypeOK, IoInv, StartInv, StrandInv, Started
<1>7. BeatInv'
  BY DEF TypeOK, BeatInv
<1>8. TypeOK'
  BY DEF TypeOK, StrandInv, BarrierInv
<1> QED BY <1>1, <1>2, <1>3, <1>4, <1>5, <1>6, <1>7, <1>8

LEMMA StartAllStep ==
  ASSUME IInv, StartAll
  PROVE  IInv'
<1> USE DEF IInv, StartAll
<1>1. ConfigInv'
  BY DEF TypeOK, ConfigInv, Started
<1>2. StartInv'
  BY DEF TypeOK, StartInv, GrpcInv
<1>3. BarrierInv'
  <2>1. DOMAIN sess # {}
    BY StartsWithSessions DEF TypeOK
  <2> QED BY <2>1 DEF TypeOK, BarrierInv, StartInv
<1>4. StrandInv'
  <2>1. DOMAIN sess # {}
    BY StartsWithSessions DEF TypeOK
  <2> QED BY <2>1 DEF TypeOK, StrandInv, StartInv, Started
<1>5. GrpcInv'
  BY DEF TypeOK, GrpcInv, StartInv, StrandInv, IoInv
<1>6. IoInv'
  BY DEF TypeOK, IoInv, StartInv, StrandInv, Started
<1>7. BeatInv'
  BY DEF TypeOK, BeatInv
<1>8. TypeOK'
  <2>1. DOMAIN sess # {}
    BY StartsWithSessions DEF TypeOK
  <2> QED BY <2>1 DEF TypeOK
<1> QED BY <1>1, <1>2, <1>3, <1>4, <1>5, <1>6, <1>7, <1>8

LEMMA SpawnIoThreadsStep ==
  ASSUME IInv, SpawnIoThreads
  PROVE  IInv'
<1> USE DEF IInv, SpawnIoThreads
<1>1. ConfigInv'
  BY DEF TypeOK, ConfigInv, Started
<1>2. StartInv'
  BY DEF TypeOK, StartInv, GrpcInv
<1>3. BarrierInv'
  BY DEF TypeOK, BarrierInv, StartInv
<1>4. StrandInv'
  BY DEF TypeOK, StrandInv, StartInv, BarrierInv, Started
<1>5. GrpcInv'
  BY DEF TypeOK, GrpcInv, StartInv, StrandInv, IoInv
<1>6. IoInv'
  <2>1. io_threads(config) \in 1 .. kMaxIoThreads
    BY ConfigAssumption
       DEF ConfigInv, ConfigAccepted, IoThreadsAccepted, io_threads
  <2>2. 1 \in io'
    BY <2>1, ConfigAssumption
  <2> QED BY <2>2 DEF TypeOK, IoInv, StartInv
<1>7. BeatInv'
  BY DEF TypeOK, BeatInv
<1>8. TypeOK'
  <2>1. io_threads(config) \in 1 .. kMaxIoThreads
    BY ConfigAssumption
       DEF ConfigInv, ConfigAccepted, IoThreadsAccepted, io_threads
  <2>2. io' \subseteq 1 .. kMaxIoThreads
    BY <2>1, ConfigAssumption
  <2> QED BY <2>2 DEF TypeOK
<1> QED BY <1>1, <1>2, <1>3, <1>4, <1>5, <1>6, <1>7, <1>8

LEMMA WaitReturnsStep ==
  ASSUME IInv, WaitReturns
  PROVE  IInv'
<1> USE DEF IInv, WaitReturns
<1>1. ConfigInv'
  BY DEF TypeOK, ConfigInv, Started
<1>2. StartInv'
  BY DEF TypeOK, StartInv, GrpcInv
<1>3. BarrierInv'
  BY DEF TypeOK, BarrierInv, StartInv
<1>4. StrandInv'
  BY DEF TypeOK, StrandInv, StartInv, BarrierInv, Started
<1>5. GrpcInv'
  BY DEF TypeOK, GrpcInv, StartInv, StrandInv, IoInv
<1>6. IoInv'
  BY DEF TypeOK, IoInv, StartInv, StrandInv, Started
<1>7. BeatInv'
  BY DEF TypeOK, BeatInv
<1>8. TypeOK'
  BY DEF TypeOK, StrandInv, BarrierInv
<1> QED BY <1>1, <1>2, <1>3, <1>4, <1>5, <1>6, <1>7, <1>8

LEMMA LockShutdownThreadStep ==
  ASSUME IInv, LockShutdownThread
  PROVE  IInv'
<1> USE DEF IInv, LockShutdownThread
<1>1. ConfigInv'
  BY DEF TypeOK, ConfigInv, Started
<1>2. StartInv'
  BY DEF TypeOK, StartInv, GrpcInv
<1>3. BarrierInv'
  BY DEF TypeOK, BarrierInv, StartInv
<1>4. StrandInv'
  BY DEF TypeOK, StrandInv, StartInv, BarrierInv, Started
<1>5. GrpcInv'
  BY DEF TypeOK, GrpcInv, StartInv, StrandInv, IoInv
<1>6. IoInv'
  BY DEF TypeOK, IoInv, StartInv, StrandInv, Started
<1>7. BeatInv'
  BY DEF TypeOK, BeatInv
<1>8. TypeOK'
  BY DEF TypeOK, StrandInv, BarrierInv
<1> QED BY <1>1, <1>2, <1>3, <1>4, <1>5, <1>6, <1>7, <1>8

LEMMA JoinShutdownThreadStep ==
  ASSUME IInv, JoinShutdownThread
  PROVE  IInv'
<1> USE DEF IInv, JoinShutdownThread
<1>1. ConfigInv'
  BY DEF TypeOK, ConfigInv, Started
<1>2. StartInv'
  BY DEF TypeOK, StartInv, GrpcInv
<1>3. BarrierInv'
  BY DEF TypeOK, BarrierInv, StartInv
<1>4. StrandInv'
  BY DEF TypeOK, StrandInv, StartInv, BarrierInv, Started
<1>5. GrpcInv'
  BY DEF TypeOK, GrpcInv, StartInv, StrandInv, IoInv
<1>6. IoInv'
  BY DEF TypeOK, IoInv, StartInv, StrandInv, Started
<1>7. BeatInv'
  BY DEF TypeOK, BeatInv
<1>8. TypeOK'
  BY DEF TypeOK, StrandInv, BarrierInv
<1> QED BY <1>1, <1>2, <1>3, <1>4, <1>5, <1>6, <1>7, <1>8

LEMMA StartWatchdogStep ==
  ASSUME IInv, StartWatchdog
  PROVE  IInv'
<1> USE DEF IInv, StartWatchdog
<1>1. ConfigInv'
  BY DEF TypeOK, ConfigInv, Started
<1>2. StartInv'
  BY DEF TypeOK, StartInv, GrpcInv
<1>3. BarrierInv'
  BY DEF TypeOK, BarrierInv, StartInv
<1>4. StrandInv'
  BY DEF TypeOK, StrandInv, StartInv, BarrierInv, Started
<1>5. GrpcInv'
  BY DEF TypeOK, GrpcInv, StartInv, StrandInv, IoInv
<1>6. IoInv'
  BY DEF TypeOK, IoInv, StartInv, StrandInv, Started
<1>7. BeatInv'
  BY DEF TypeOK, BeatInv
<1>8. TypeOK'
  BY DEF TypeOK, StrandInv, BarrierInv
<1> QED BY <1>1, <1>2, <1>3, <1>4, <1>5, <1>6, <1>7, <1>8

LEMMA StopAllFlagStep ==
  ASSUME IInv, StopAllFlag
  PROVE  IInv'
<1> USE DEF IInv, StopAllFlag
<1>1. ConfigInv'
  BY DEF TypeOK, ConfigInv, Started
<1>2. StartInv'
  BY DEF TypeOK, StartInv, GrpcInv
<1>3. BarrierInv'
  BY DEF TypeOK, BarrierInv, StartInv
<1>4. StrandInv'
  BY DEF TypeOK, StrandInv, StartInv, BarrierInv, Started
<1>5. GrpcInv'
  BY DEF TypeOK, GrpcInv, StartInv, StrandInv, IoInv
<1>6. IoInv'
  BY DEF TypeOK, IoInv, StartInv, StrandInv, Started
<1>7. BeatInv'
  BY DEF TypeOK, BeatInv
<1>8. TypeOK'
  BY DEF TypeOK, StrandInv, BarrierInv
<1> QED BY <1>1, <1>2, <1>3, <1>4, <1>5, <1>6, <1>7, <1>8

LEMMA StopAllPostStep ==
  ASSUME IInv, StopAllPost
  PROVE  IInv'
<1> USE DEF IInv, StopAllPost
<1>1. ConfigInv'
  BY DEF TypeOK, ConfigInv, Started
<1>2. StartInv'
  BY DEF TypeOK, StartInv, GrpcInv
<1>3. BarrierInv'
  BY DEF TypeOK, BarrierInv, StartInv
<1>4. StrandInv'
  BY DEF TypeOK, StrandInv, StartInv, BarrierInv, Started
<1>5. GrpcInv'
  BY DEF TypeOK, GrpcInv, StartInv, StrandInv, IoInv
<1>6. IoInv'
  BY DEF TypeOK, IoInv, StartInv, StrandInv, Started
<1>7. BeatInv'
  BY DEF TypeOK, BeatInv
<1>8. TypeOK'
  BY DEF TypeOK, StrandInv, BarrierInv
<1> QED BY <1>1, <1>2, <1>3, <1>4, <1>5, <1>6, <1>7, <1>8

LEMMA JoinIoThreadsStep ==
  ASSUME IInv, JoinIoThreads
  PROVE  IInv'
<1> USE DEF IInv, JoinIoThreads
<1>1. ConfigInv'
  BY DEF TypeOK, ConfigInv, Started
<1>2. StartInv'
  BY DEF TypeOK, StartInv, GrpcInv
<1>3. BarrierInv'
  BY DEF TypeOK, BarrierInv, StartInv
<1>4. StrandInv'
  BY DEF TypeOK, StrandInv, StartInv, BarrierInv, Started
<1>5. GrpcInv'
  BY DEF TypeOK, GrpcInv, StartInv, StrandInv, IoInv
<1>6. IoInv'
  BY DEF TypeOK, IoInv, StartInv, StrandInv, Started
<1>7. BeatInv'
  BY DEF TypeOK, BeatInv
<1>8. TypeOK'
  BY DEF TypeOK, StrandInv, BarrierInv
<1> QED BY <1>1, <1>2, <1>3, <1>4, <1>5, <1>6, <1>7, <1>8

LEMMA SetCompleteStep ==
  ASSUME IInv, SetComplete
  PROVE  IInv'
<1> USE DEF IInv, SetComplete
<1>1. ConfigInv'
  BY DEF TypeOK, ConfigInv, Started
<1>2. StartInv'
  BY DEF TypeOK, StartInv, GrpcInv
<1>3. BarrierInv'
  BY DEF TypeOK, BarrierInv, StartInv
<1>4. StrandInv'
  BY DEF TypeOK, StrandInv, StartInv, BarrierInv, Started
<1>5. GrpcInv'
  BY DEF TypeOK, GrpcInv, StartInv, StrandInv, IoInv
<1>6. IoInv'
  BY DEF TypeOK, IoInv, StartInv, StrandInv, Started
<1>7. BeatInv'
  BY DEF TypeOK, BeatInv
<1>8. TypeOK'
  BY DEF TypeOK, StrandInv, BarrierInv
<1> QED BY <1>1, <1>2, <1>3, <1>4, <1>5, <1>6, <1>7, <1>8

LEMMA JoinWatchdogStep ==
  ASSUME IInv, JoinWatchdog
  PROVE  IInv'
<1> USE DEF IInv, JoinWatchdog
<1>1. ConfigInv'
  BY DEF TypeOK, ConfigInv, Started
<1>2. StartInv'
  BY DEF TypeOK, StartInv, GrpcInv
<1>3. BarrierInv'
  BY DEF TypeOK, BarrierInv, StartInv
<1>4. StrandInv'
  BY DEF TypeOK, StrandInv, StartInv, BarrierInv, Started
<1>5. GrpcInv'
  BY DEF TypeOK, GrpcInv, StartInv, StrandInv, IoInv
<1>6. IoInv'
  BY DEF TypeOK, IoInv, StartInv, StrandInv, Started
<1>7. BeatInv'
  BY DEF TypeOK, BeatInv
<1>8. TypeOK'
  BY DEF TypeOK, StrandInv, BarrierInv
<1> QED BY <1>1, <1>2, <1>3, <1>4, <1>5, <1>6, <1>7, <1>8

LEMMA JoinHeartbeatStep ==
  ASSUME IInv, JoinHeartbeat
  PROVE  IInv'
<1> USE DEF IInv, JoinHeartbeat
<1>1. ConfigInv'
  BY DEF TypeOK, ConfigInv, Started
<1>2. StartInv'
  BY DEF TypeOK, StartInv, GrpcInv
<1>3. BarrierInv'
  BY DEF TypeOK, BarrierInv, StartInv
<1>4. StrandInv'
  BY DEF TypeOK, StrandInv, StartInv, BarrierInv, Started
<1>5. GrpcInv'
  BY DEF TypeOK, GrpcInv, StartInv, StrandInv, IoInv
<1>6. IoInv'
  BY DEF TypeOK, IoInv, StartInv, StrandInv, Started
<1>7. BeatInv'
  BY DEF TypeOK, BeatInv
<1>8. TypeOK'
  BY DEF TypeOK, StrandInv, BarrierInv
<1> QED BY <1>1, <1>2, <1>3, <1>4, <1>5, <1>6, <1>7, <1>8

LEMMA DestroySignalsStep ==
  ASSUME IInv, DestroySignals
  PROVE  IInv'
<1> USE DEF IInv, DestroySignals
<1>1. ConfigInv'
  BY DEF TypeOK, ConfigInv, Started
<1>2. StartInv'
  BY DEF TypeOK, StartInv, GrpcInv
<1>3. BarrierInv'
  BY DEF TypeOK, BarrierInv, StartInv
<1>4. StrandInv'
  BY DEF TypeOK, StrandInv, StartInv, BarrierInv, Started
<1>5. GrpcInv'
  BY DEF TypeOK, GrpcInv, StartInv, StrandInv, IoInv
<1>6. IoInv'
  BY DEF TypeOK, IoInv, StartInv, StrandInv, Started
<1>7. BeatInv'
  BY DEF TypeOK, BeatInv
<1>8. TypeOK'
  <2>1. wait' \in BOOLEAN /\ pc' = "teardown"
    OBVIOUS
  <2> HIDE DEF DestroySignals
  <2>2. UNCHANGED << stuck, sessionVars, queued, strand, stage, shutdownReq,
                     raised, exited, grpcVars, ioVars, beatVars >>
    BY DEF DestroySignals
  <2> QED BY <2>1, <2>2 DEF TypeOK
<1> QED BY <1>1, <1>2, <1>3, <1>4, <1>5, <1>6, <1>7, <1>8

LEMMA DestroyIoStep ==
  ASSUME IInv, DestroyIo
  PROVE  IInv'
<1> USE DEF IInv, DestroyIo
<1>1. ConfigInv'
  BY DEF TypeOK, ConfigInv, Started
<1>2. StartInv'
  BY DEF TypeOK, StartInv, GrpcInv
<1>3. BarrierInv'
  BY DEF TypeOK, BarrierInv, StartInv
<1>4. StrandInv'
  BY DEF TypeOK, StrandInv, StartInv, BarrierInv, Started
<1>5. GrpcInv'
  BY DEF TypeOK, GrpcInv, StartInv, StrandInv, IoInv
<1>6. IoInv'
  BY DEF TypeOK, IoInv, StartInv, StrandInv, Started
<1>7. BeatInv'
  BY DEF TypeOK, BeatInv
<1>8. TypeOK'
  BY DEF TypeOK, StrandInv, BarrierInv
<1> QED BY <1>1, <1>2, <1>3, <1>4, <1>5, <1>6, <1>7, <1>8

LEMMA IoThreadReturnsStep ==
  ASSUME NEW t \in io, IInv, IoThreadReturns(t)
  PROVE  IInv'
<1> USE DEF IInv, IoThreadReturns, HasWork
<1>1. ConfigInv'
  BY DEF TypeOK, ConfigInv, Started
<1>2. StartInv'
  BY DEF TypeOK, StartInv, GrpcInv
<1>3. BarrierInv'
  BY DEF TypeOK, BarrierInv, StartInv
<1>4. StrandInv'
  BY DEF TypeOK, StrandInv, StartInv, BarrierInv, Started
<1>5. GrpcInv'
  BY DEF TypeOK, GrpcInv, StartInv, StrandInv, IoInv
<1>6. IoInv'
  <2>1. Started
    BY DEF TypeOK, StartInv, IoInv, Started
  <2>2. ~HasWork => drained = 1
    BY <2>1, StrandsDiffer DEF TypeOK, StrandInv, HasWork
  <2> QED BY <2>1, <2>2 DEF TypeOK, IoInv, Started
<1>7. BeatInv'
  BY DEF TypeOK, BeatInv
<1>8. TypeOK'
  BY DEF TypeOK, StrandInv, BarrierInv
<1> QED BY <1>1, <1>2, <1>3, <1>4, <1>5, <1>6, <1>7, <1>8

LEMMA SessionBeginsStep ==
  ASSUME NEW v \in DOMAIN sess, IInv, SessionBegins(v)
  PROVE  IInv'
<1> USE DEF IInv, SessionBegins, CanDispatch
<1>1. ConfigInv'
  BY DEF TypeOK, ConfigInv, Started
<1>2. StartInv'
  BY DEF TypeOK, StartInv, GrpcInv
<1>3. BarrierInv'
  BY DEF TypeOK, BarrierInv, StartInv
<1>4. StrandInv'
  BY DEF TypeOK, StrandInv, StartInv, BarrierInv, Started
<1>5. GrpcInv'
  BY DEF TypeOK, GrpcInv, StartInv, StrandInv, IoInv
<1>6. IoInv'
  BY DEF TypeOK, IoInv, StartInv, StrandInv, Started
<1>7. BeatInv'
  BY DEF TypeOK, BeatInv
<1>8. TypeOK'
  BY DEF TypeOK, StrandInv, BarrierInv
<1> QED BY <1>1, <1>2, <1>3, <1>4, <1>5, <1>6, <1>7, <1>8

LEMMA StopRunsStep ==
  ASSUME NEW v \in DOMAIN sess, IInv, StopRuns(v)
  PROVE  IInv'
<1> USE DEF IInv, StopRuns, CanDispatch
<1>1. ConfigInv'
  BY DEF TypeOK, ConfigInv, Started
<1>2. StartInv'
  BY DEF TypeOK, StartInv, GrpcInv
<1>3. BarrierInv'
  BY DEF TypeOK, BarrierInv, StartInv
<1>4. StrandInv'
  BY DEF TypeOK, StrandInv, StartInv, BarrierInv, Started
<1>5. GrpcInv'
  BY DEF TypeOK, GrpcInv, StartInv, StrandInv, IoInv
<1>6. IoInv'
  BY DEF TypeOK, IoInv, StartInv, StrandInv, Started
<1>7. BeatInv'
  BY DEF TypeOK, BeatInv
<1>8. TypeOK'
  BY DEF TypeOK, StrandInv, BarrierInv
<1> QED BY <1>1, <1>2, <1>3, <1>4, <1>5, <1>6, <1>7, <1>8

LEMMA SessionEndsStep ==
  ASSUME NEW v \in DOMAIN sess, IInv, SessionEnds(v)
  PROVE  IInv'
<1> USE DEF IInv, SessionEnds, CanDispatch, Arrive
<1>1. ConfigInv'
  BY DEF TypeOK, ConfigInv, Started
<1>2. StartInv'
  BY DEF TypeOK, StartInv, GrpcInv
<1>3. BarrierInv'
  <2>1. sess[v] # "done" /\ drained = 0
    BY DEF TypeOK, BarrierInv
  <2>2. pc = "spawn" \/ pc \notin Early \cup {"returned"}
    <3>1. io # {}
      <4>1. Cardinality({}) = 0
        BY FS_EmptySet
      <4>2. Cardinality(io) > 0 \/ Cardinality(io) > 1
        OBVIOUS
      <4>3. io = {} => Cardinality(io) = 0
        BY <4>1, Zenon
      <4> QED BY <4>2, <4>3
    <3> QED BY <3>1 DEF TypeOK, StartInv, IoInv
  <2>3. arrivals = {u \in DOMAIN sess : sess[u] # "done"}
    BY <2>2 DEF BarrierInv
  <2>4. DOMAIN sess' = DOMAIN sess /\ sess'[v] = "done"
        /\ \A u \in DOMAIN sess : u # v => sess'[u] = sess[u]
    BY DEF TypeOK
  <2>5. arrivals' = {u \in DOMAIN sess' : sess'[u] # "done"}
    BY <2>3, <2>4
  <2>6. drained' = 1 => stopReq' /\ \A u \in DOMAIN sess' : sess'[u] = "done"
    BY <2>1, <2>5
  <2> QED BY <2>5, <2>6 DEF BarrierInv
<1>4. StrandInv'
  <2>1. sess[v] # "done" /\ drained = 0
    BY DEF TypeOK, BarrierInv
  <2>2. strand \in {<< >>, << "signal" >>}
    BY <2>1 DEF StrandInv
  <2>3. CASE strand' = strand
    <3>1. drained' = drained
      BY <2>2, <2>3, StrandAppends, StrandsDiffer
    <3> QED BY <2>3, <3>1 DEF StrandInv, Started
  <2>4. CASE strand' = Append(strand, "cancel") /\ drained' = drained + 1
    <3>1. strand' \in {<< "cancel" >>, << "signal", "cancel" >>}
      BY <2>2, <2>4, StrandAppends
    <3>2. wait => strand' = << "cancel" >>
      BY <2>2, <2>4, StrandAppends, StrandsDiffer DEF StrandInv
    <3>3. stage # "idle" => strand' = << "signal", "cancel" >>
      BY <2>2, <2>4, StrandAppends, StrandsDiffer DEF StrandInv
    <3> QED BY <2>1, <2>4, <3>1, <3>2, <3>3 DEF StrandInv, Strands
  <2> QED BY <2>3, <2>4
<1>5. GrpcInv'
  BY DEF TypeOK, GrpcInv, StartInv, StrandInv, IoInv
<1>6. IoInv'
  BY DEF TypeOK, IoInv, StartInv, StrandInv, Started
<1>7. BeatInv'
  BY DEF TypeOK, BeatInv
<1>8. TypeOK'
  <2>1. /\ Len(strand') <= 2
        /\ \A i \in DOMAIN strand' :
             strand'[i] \in {"signal", "cancel", "aborted"}
    BY <1>4, StrandTyped DEF StrandInv
  <2> QED BY <2>1 DEF TypeOK, BarrierInv
<1> QED BY <1>1, <1>2, <1>3, <1>4, <1>5, <1>6, <1>7, <1>8

LEMMA LookupReturnsStep ==
  ASSUME NEW v, IInv, LookupReturns(v)
  PROVE  IInv'
<1> USE DEF IInv, LookupReturns
<1>1. ConfigInv'
  BY DEF TypeOK, ConfigInv, Started
<1>2. StartInv'
  BY DEF TypeOK, StartInv, GrpcInv
<1>3. BarrierInv'
  BY DEF TypeOK, BarrierInv, StartInv
<1>4. StrandInv'
  BY DEF TypeOK, StrandInv, StartInv, BarrierInv, Started
<1>5. GrpcInv'
  BY DEF TypeOK, GrpcInv, StartInv, StrandInv, IoInv
<1>6. IoInv'
  BY DEF TypeOK, IoInv, StartInv, StrandInv, Started
<1>7. BeatInv'
  BY DEF TypeOK, BeatInv
<1>8. TypeOK'
  BY DEF TypeOK, StrandInv, BarrierInv
<1> QED BY <1>1, <1>2, <1>3, <1>4, <1>5, <1>6, <1>7, <1>8

LEMMA RaiseStep ==
  ASSUME IInv, Raise
  PROVE  IInv'
<1> USE DEF IInv, Raise
<1>1. ConfigInv'
  BY DEF TypeOK, ConfigInv, Started
<1>2. StartInv'
  BY DEF TypeOK, StartInv, GrpcInv
<1>3. BarrierInv'
  BY DEF TypeOK, BarrierInv, StartInv
<1>4. StrandInv'
  <2>1. CASE wait
    <3>1. strand' \in {<< "signal" >>, << "cancel", "signal" >>}
      BY <2>1, StrandAppends DEF StrandInv
    <3>2. drained = 0 => strand' = << "signal" >>
      BY <2>1, StrandAppends, StrandsDiffer DEF StrandInv
    <3>3. stage = "idle"
      BY <2>1, StrandsDiffer DEF StrandInv, TypeOK
    <3> QED BY <2>1, <3>1, <3>2, <3>3 DEF TypeOK, StrandInv, Strands
  <2>2. CASE ~wait
    BY <2>2 DEF TypeOK, StrandInv, Started
  <2> QED BY <2>1, <2>2
<1>5. GrpcInv'
  BY DEF TypeOK, GrpcInv, StartInv, StrandInv, IoInv
<1>6. IoInv'
  BY DEF TypeOK, IoInv, StartInv, StrandInv, Started
<1>7. BeatInv'
  BY DEF TypeOK, BeatInv
<1>8. TypeOK'
  <2>1. /\ Len(strand') <= 2
        /\ \A i \in DOMAIN strand' :
             strand'[i] \in {"signal", "cancel", "aborted"}
    BY <1>4, StrandTyped DEF StrandInv
  <2>2. queued' \in 0 .. MaxSignals /\ raised' \in 0 .. MaxSignals
    BY <1>4, ServerAssumption DEF TypeOK, StrandInv
  <2>3. wait' \in BOOLEAN
    BY DEF TypeOK
  <2> QED BY <2>1, <2>2, <2>3 DEF TypeOK
<1> QED BY <1>1, <1>2, <1>3, <1>4, <1>5, <1>6, <1>7, <1>8

LEMMA RaiseDefaultStep ==
  ASSUME IInv, RaiseDefault
  PROVE  IInv'
<1> USE DEF IInv, RaiseDefault
<1>1. ConfigInv'
  BY DEF TypeOK, ConfigInv, Started
<1>2. StartInv'
  BY DEF TypeOK, StartInv, GrpcInv
<1>3. BarrierInv'
  BY DEF TypeOK, BarrierInv, StartInv
<1>4. StrandInv'
  BY DEF TypeOK, StrandInv, StartInv, BarrierInv, Started
<1>5. GrpcInv'
  BY DEF TypeOK, GrpcInv, StartInv, StrandInv, IoInv
<1>6. IoInv'
  BY DEF TypeOK, IoInv, StartInv, StrandInv, Started
<1>7. BeatInv'
  BY DEF TypeOK, BeatInv
<1>8. TypeOK'
  <2>1. exited' \in BOOLEAN
    OBVIOUS
  <2>2. raised' \in 0 .. MaxSignals
    BY ServerAssumption DEF TypeOK
  <2> HIDE DEF RaiseDefault
  <2>3. UNCHANGED << pc, stuck, sessionVars, wait, queued, strand, stage,
                     shutdownReq, grpcVars, ioVars, beatVars >>
    BY DEF RaiseDefault
  <2> QED BY <2>1, <2>2, <2>3 DEF TypeOK
<1> QED BY <1>1, <1>2, <1>3, <1>4, <1>5, <1>6, <1>7, <1>8

LEMMA OnSignalStep ==
  ASSUME IInv, OnSignal
  PROVE  IInv'
<1> USE DEF IInv, OnSignal, NextOnStrand
<1>1. ConfigInv'
  BY DEF TypeOK, ConfigInv, Started
<1>2. StartInv'
  BY DEF TypeOK, StartInv, GrpcInv
<1>3. BarrierInv'
  BY DEF TypeOK, BarrierInv, StartInv
<1>4. StrandInv'
  <2>1. strand \in {<< "signal" >>, << "signal", "cancel" >>}
    BY StrandTails, StrandsDiffer DEF StrandInv, Strands
  <2> QED BY <2>1 DEF TypeOK, StrandInv, Started
<1>5. GrpcInv'
  BY DEF TypeOK, GrpcInv, StartInv, StrandInv, IoInv
<1>6. IoInv'
  BY DEF TypeOK, IoInv, StartInv, StrandInv, Started
<1>7. BeatInv'
  BY DEF TypeOK, BeatInv
<1>8. TypeOK'
  <2>1. CASE shutdownReq
    BY <2>1 DEF TypeOK
  <2>2. CASE ~shutdownReq
    BY <2>2 DEF TypeOK
  <2> QED BY <2>1, <2>2
<1> QED BY <1>1, <1>2, <1>3, <1>4, <1>5, <1>6, <1>7, <1>8

LEMMA SpawnShutdownThreadStep ==
  ASSUME IInv, SpawnShutdownThread
  PROVE  IInv'
<1> USE DEF IInv, SpawnShutdownThread
<1>1. ConfigInv'
  BY DEF TypeOK, ConfigInv, Started
<1>2. StartInv'
  BY DEF TypeOK, StartInv, GrpcInv
<1>3. BarrierInv'
  BY DEF TypeOK, BarrierInv, StartInv
<1>4. StrandInv'
  BY DEF TypeOK, StrandInv, StartInv, BarrierInv, Started
<1>5. GrpcInv'
  BY DEF TypeOK, GrpcInv, StartInv, StrandInv, IoInv
<1>6. IoInv'
  BY DEF TypeOK, IoInv, StartInv, StrandInv, Started
<1>7. BeatInv'
  BY DEF TypeOK, BeatInv
<1>8. TypeOK'
  BY DEF TypeOK, StrandInv, BarrierInv
<1> QED BY <1>1, <1>2, <1>3, <1>4, <1>5, <1>6, <1>7, <1>8

LEMMA AssignShutdownThreadStep ==
  ASSUME IInv, AssignShutdownThread
  PROVE  IInv'
<1> USE DEF IInv, AssignShutdownThread
<1>1. ConfigInv'
  BY DEF TypeOK, ConfigInv, Started
<1>2. StartInv'
  BY DEF TypeOK, StartInv, GrpcInv
<1>3. BarrierInv'
  BY DEF TypeOK, BarrierInv, StartInv
<1>4. StrandInv'
  BY DEF TypeOK, StrandInv, StartInv, BarrierInv, Started
<1>5. GrpcInv'
  BY DEF TypeOK, GrpcInv, StartInv, StrandInv, IoInv
<1>6. IoInv'
  BY DEF TypeOK, IoInv, StartInv, StrandInv, Started
<1>7. BeatInv'
  BY DEF TypeOK, BeatInv
<1>8. TypeOK'
  BY DEF TypeOK, StrandInv, BarrierInv
<1> QED BY <1>1, <1>2, <1>3, <1>4, <1>5, <1>6, <1>7, <1>8

LEMMA RearmStep ==
  ASSUME IInv, Rearm
  PROVE  IInv'
<1> USE DEF IInv, Rearm
<1>1. ConfigInv'
  BY DEF TypeOK, ConfigInv, Started
<1>2. StartInv'
  BY DEF TypeOK, StartInv, GrpcInv
<1>3. BarrierInv'
  BY DEF TypeOK, BarrierInv, StartInv
<1>4. StrandInv'
  BY StrandAppends, StrandTails, StrandsDiffer
     DEF TypeOK, StrandInv, StartInv, BarrierInv, Started, Strands
<1>5. GrpcInv'
  BY DEF TypeOK, GrpcInv, StartInv, StrandInv, IoInv
<1>6. IoInv'
  BY DEF TypeOK, IoInv, StartInv, StrandInv, Started
<1>7. BeatInv'
  BY DEF TypeOK, BeatInv
<1>8. TypeOK'
  <2>1. /\ Len(strand') <= 2
        /\ \A i \in DOMAIN strand' :
             strand'[i] \in {"signal", "cancel", "aborted"}
    BY <1>4, StrandTyped DEF StrandInv
  <2>2. queued' \in 0 .. MaxSignals /\ raised' \in 0 .. MaxSignals
    BY <1>4, ServerAssumption DEF TypeOK, StrandInv
  <2>3. wait' \in BOOLEAN
    BY DEF TypeOK
  <2> QED BY <2>1, <2>2, <2>3 DEF TypeOK
<1> QED BY <1>1, <1>2, <1>3, <1>4, <1>5, <1>6, <1>7, <1>8

LEMMA CancelWaitStep ==
  ASSUME IInv, CancelWait
  PROVE  IInv'
<1> USE DEF IInv, CancelWait, NextOnStrand
<1>1. ConfigInv'
  BY DEF TypeOK, ConfigInv, Started
<1>2. StartInv'
  BY DEF TypeOK, StartInv, GrpcInv
<1>3. BarrierInv'
  BY DEF TypeOK, BarrierInv, StartInv
<1>4. StrandInv'
  BY StrandAppends, StrandTails, StrandsDiffer
     DEF TypeOK, StrandInv, StartInv, BarrierInv, Started, Strands
<1>5. GrpcInv'
  BY DEF TypeOK, GrpcInv, StartInv, StrandInv, IoInv
<1>6. IoInv'
  BY DEF TypeOK, IoInv, StartInv, StrandInv, Started
<1>7. BeatInv'
  BY DEF TypeOK, BeatInv
<1>8. TypeOK'
  <2>1. /\ Len(strand') <= 2
        /\ \A i \in DOMAIN strand' :
             strand'[i] \in {"signal", "cancel", "aborted"}
    BY <1>4, StrandTyped DEF StrandInv
  <2>2. queued' \in 0 .. MaxSignals /\ raised' \in 0 .. MaxSignals
    BY <1>4, ServerAssumption DEF TypeOK, StrandInv
  <2>3. wait' \in BOOLEAN
    BY DEF TypeOK
  <2> QED BY <2>1, <2>2, <2>3 DEF TypeOK
<1> QED BY <1>1, <1>2, <1>3, <1>4, <1>5, <1>6, <1>7, <1>8

LEMMA OnAbortedStep ==
  ASSUME IInv, OnAborted
  PROVE  IInv'
<1> USE DEF IInv, OnAborted, NextOnStrand
<1>1. ConfigInv'
  BY DEF TypeOK, ConfigInv, Started
<1>2. StartInv'
  BY DEF TypeOK, StartInv, GrpcInv
<1>3. BarrierInv'
  BY DEF TypeOK, BarrierInv, StartInv
<1>4. StrandInv'
  BY StrandAppends, StrandTails, StrandsDiffer
     DEF TypeOK, StrandInv, StartInv, BarrierInv, Started, Strands
<1>5. GrpcInv'
  BY DEF TypeOK, GrpcInv, StartInv, StrandInv, IoInv
<1>6. IoInv'
  BY DEF TypeOK, IoInv, StartInv, StrandInv, Started
<1>7. BeatInv'
  BY DEF TypeOK, BeatInv
<1>8. TypeOK'
  <2>1. /\ Len(strand') <= 2
        /\ \A i \in DOMAIN strand' :
             strand'[i] \in {"signal", "cancel", "aborted"}
    BY <1>4, StrandTyped DEF StrandInv
  <2> QED BY <2>1 DEF TypeOK, BarrierInv
<1> QED BY <1>1, <1>2, <1>3, <1>4, <1>5, <1>6, <1>7, <1>8

LEMMA ShutdownDrainsStep ==
  ASSUME IInv, ShutdownDrains
  PROVE  IInv'
<1> USE DEF IInv, ShutdownDrains
<1>1. ConfigInv'
  BY DEF TypeOK, ConfigInv, Started
<1>2. StartInv'
  BY DEF TypeOK, StartInv, GrpcInv
<1>3. BarrierInv'
  BY DEF TypeOK, BarrierInv, StartInv
<1>4. StrandInv'
  BY DEF TypeOK, StrandInv, StartInv, BarrierInv, Started
<1>5. GrpcInv'
  BY DEF TypeOK, GrpcInv, StartInv, StrandInv, IoInv
<1>6. IoInv'
  BY DEF TypeOK, IoInv, StartInv, StrandInv, Started
<1>7. BeatInv'
  BY DEF TypeOK, BeatInv
<1>8. TypeOK'
  BY DEF TypeOK, StrandInv, BarrierInv
<1> QED BY <1>1, <1>2, <1>3, <1>4, <1>5, <1>6, <1>7, <1>8

LEMMA ShutdownThreadEndsStep ==
  ASSUME IInv, ShutdownThreadEnds
  PROVE  IInv'
<1> USE DEF IInv, ShutdownThreadEnds
<1>1. ConfigInv'
  BY DEF TypeOK, ConfigInv, Started
<1>2. StartInv'
  BY DEF TypeOK, StartInv, GrpcInv
<1>3. BarrierInv'
  BY DEF TypeOK, BarrierInv, StartInv
<1>4. StrandInv'
  BY DEF TypeOK, StrandInv, StartInv, BarrierInv, Started
<1>5. GrpcInv'
  BY DEF TypeOK, GrpcInv, StartInv, StrandInv, IoInv
<1>6. IoInv'
  BY DEF TypeOK, IoInv, StartInv, StrandInv, Started
<1>7. BeatInv'
  BY DEF TypeOK, BeatInv
<1>8. TypeOK'
  BY DEF TypeOK, StrandInv, BarrierInv
<1> QED BY <1>1, <1>2, <1>3, <1>4, <1>5, <1>6, <1>7, <1>8

LEMMA SubscribersStep ==
  ASSUME IInv, Subscribers
  PROVE  IInv'
<1> USE DEF IInv, Subscribers
<1>1. ConfigInv'
  BY DEF TypeOK, ConfigInv, Started
<1>2. StartInv'
  BY DEF TypeOK, StartInv, GrpcInv
<1>3. BarrierInv'
  BY DEF TypeOK, BarrierInv, StartInv
<1>4. StrandInv'
  BY DEF TypeOK, StrandInv, StartInv, BarrierInv, Started
<1>5. GrpcInv'
  BY DEF TypeOK, GrpcInv, StartInv, StrandInv, IoInv
<1>6. IoInv'
  BY DEF TypeOK, IoInv, StartInv, StrandInv, Started
<1>7. BeatInv'
  BY DEF TypeOK, BeatInv
<1>8. TypeOK'
  BY DEF TypeOK, StrandInv, BarrierInv
<1> QED BY <1>1, <1>2, <1>3, <1>4, <1>5, <1>6, <1>7, <1>8

LEMMA WatchdogExpiresStep ==
  ASSUME IInv, WatchdogExpires
  PROVE  IInv'
<1> USE DEF IInv, WatchdogExpires
<1>1. ConfigInv'
  BY DEF TypeOK, ConfigInv, Started
<1>2. StartInv'
  BY DEF TypeOK, StartInv, GrpcInv
<1>3. BarrierInv'
  BY DEF TypeOK, BarrierInv, StartInv
<1>4. StrandInv'
  BY DEF TypeOK, StrandInv, StartInv, BarrierInv, Started
<1>5. GrpcInv'
  BY DEF TypeOK, GrpcInv, StartInv, StrandInv, IoInv
<1>6. IoInv'
  BY DEF TypeOK, IoInv, StartInv, StrandInv, Started
<1>7. BeatInv'
  BY DEF TypeOK, BeatInv
<1>8. TypeOK'
  BY DEF TypeOK, StrandInv, BarrierInv
<1> QED BY <1>1, <1>2, <1>3, <1>4, <1>5, <1>6, <1>7, <1>8

LEMMA WatchdogForcesStep ==
  ASSUME IInv, WatchdogForces
  PROVE  IInv'
<1> USE DEF IInv, WatchdogForces
<1>1. ConfigInv'
  BY DEF TypeOK, ConfigInv, Started
<1>2. StartInv'
  BY DEF TypeOK, StartInv, GrpcInv
<1>3. BarrierInv'
  BY DEF TypeOK, BarrierInv, StartInv
<1>4. StrandInv'
  BY DEF TypeOK, StrandInv, StartInv, BarrierInv, Started
<1>5. GrpcInv'
  BY DEF TypeOK, GrpcInv, StartInv, StrandInv, IoInv
<1>6. IoInv'
  BY DEF TypeOK, IoInv, StartInv, StrandInv, Started
<1>7. BeatInv'
  BY DEF TypeOK, BeatInv
<1>8. TypeOK'
  BY DEF TypeOK, StrandInv, BarrierInv
<1> QED BY <1>1, <1>2, <1>3, <1>4, <1>5, <1>6, <1>7, <1>8

LEMMA WatchdogEndsStep ==
  ASSUME IInv, WatchdogEnds
  PROVE  IInv'
<1> USE DEF IInv, WatchdogEnds
<1>1. ConfigInv'
  BY DEF TypeOK, ConfigInv, Started
<1>2. StartInv'
  BY DEF TypeOK, StartInv, GrpcInv
<1>3. BarrierInv'
  BY DEF TypeOK, BarrierInv, StartInv
<1>4. StrandInv'
  BY DEF TypeOK, StrandInv, StartInv, BarrierInv, Started
<1>5. GrpcInv'
  BY DEF TypeOK, GrpcInv, StartInv, StrandInv, IoInv
<1>6. IoInv'
  BY DEF TypeOK, IoInv, StartInv, StrandInv, Started
<1>7. BeatInv'
  BY DEF TypeOK, BeatInv
<1>8. TypeOK'
  BY DEF TypeOK, StrandInv, BarrierInv
<1> QED BY <1>1, <1>2, <1>3, <1>4, <1>5, <1>6, <1>7, <1>8

LEMMA HeartbeatLoopStep ==
  ASSUME IInv, HeartbeatStep
  PROVE  IInv'
<1> USE DEF IInv, HeartbeatStep
<1>1. ConfigInv'
  BY DEF TypeOK, ConfigInv, Started
<1>2. StartInv'
  BY DEF TypeOK, StartInv, GrpcInv
<1>3. BarrierInv'
  BY DEF TypeOK, BarrierInv, StartInv
<1>4. StrandInv'
  BY DEF TypeOK, StrandInv, StartInv, BarrierInv, Started
<1>5. GrpcInv'
  BY DEF TypeOK, GrpcInv, StartInv, StrandInv, IoInv
<1>6. IoInv'
  BY DEF TypeOK, IoInv, StartInv, StrandInv, Started
<1>7. BeatInv'
  BY DEF TypeOK, BeatInv
<1>8. TypeOK'
  BY DEF TypeOK, StrandInv, BarrierInv
<1> QED BY <1>1, <1>2, <1>3, <1>4, <1>5, <1>6, <1>7, <1>8

LEMMA NextStep ==
  ASSUME IInv, [Next]_vars
  PROVE  IInv'
<1>1. CASE MainStep
  BY <1>1, LoadConfigStep, BuildServerStep, WireVenuesStep, RefuseStep,
     RefuseShutdownStep, ArmSignalsStep, StartAllStep,
     SpawnIoThreadsStep, WaitReturnsStep, LockShutdownThreadStep,
     JoinShutdownThreadStep, StartWatchdogStep, StopAllFlagStep,
     StopAllPostStep, JoinIoThreadsStep, SetCompleteStep,
     JoinWatchdogStep, JoinHeartbeatStep, DestroySignalsStep, DestroyIoStep
     DEF MainStep
<1>2. CASE SignalHandlerStep
  BY <1>2, OnSignalStep, SpawnShutdownThreadStep, AssignShutdownThreadStep,
     RearmStep, CancelWaitStep, OnAbortedStep
     DEF SignalHandlerStep
<1>3. ASSUME NEW v \in DOMAIN sess, SessionStep(v) \/ LookupReturns(v)
      PROVE  IInv'
  BY <1>3, SessionBeginsStep, StopRunsStep, SessionEndsStep, LookupReturnsStep
     DEF SessionStep
<1>4. ASSUME NEW t \in io, IoThreadReturns(t) PROVE IInv'
  BY <1>4, IoThreadReturnsStep
<1>5. CASE ShutdownThreadStep \/ WatchdogStep \/ WatchdogExpires
           \/ HeartbeatStep \/ Subscribers \/ Raise \/ RaiseDefault
  BY <1>5, ShutdownDrainsStep, ShutdownThreadEndsStep, WatchdogForcesStep,
     WatchdogEndsStep, WatchdogExpiresStep, HeartbeatLoopStep,
     SubscribersStep, RaiseStep, RaiseDefaultStep
     DEF ShutdownThreadStep, WatchdogStep
<1>6. CASE UNCHANGED vars
  <2> USE DEF IInv, vars
  <2>1. TypeOK'
    BY <1>6 DEF TypeOK
  <2>2. ConfigInv' /\ StartInv' /\ BarrierInv' /\ StrandInv'
    BY <1>6 DEF ConfigInv, StartInv, BarrierInv, StrandInv, Started
  <2>3. GrpcInv' /\ IoInv' /\ BeatInv'
    BY <1>6 DEF GrpcInv, IoInv, BeatInv
  <2> QED BY <2>1, <2>2, <2>3
<1> HIDE DEF IInv
<1> QED BY <1>1, <1>2, <1>3, <1>4, <1>5, <1>6 DEF Next

LEMMA InitInv ==
  ASSUME Init
  PROVE  IInv
<1> USE DEF Init
<1>1. {stopReq, wait, shutdownReq, joinable, ioStopped, complete, beatStop,
       exited} \subseteq BOOLEAN
  BY Zenon
<1>2. /\ drained \in 0 .. 1
      /\ raised \in 0 .. MaxSignals /\ queued \in 0 .. MaxSignals
  BY ServerAssumption
<1>3. /\ Len(strand) <= 2
      /\ \A i \in DOMAIN strand : strand[i] \in {"signal", "cancel", "aborted"}
  OBVIOUS
<1>4. /\ DOMAIN sess = {} /\ DOMAIN wired = {}
      /\ sess \in [DOMAIN sess -> {"wired", "started", "running", "done"}]
  OBVIOUS
<1>5. TypeOK
  BY <1>1, <1>2, <1>3, <1>4 DEF TypeOK
<1>6. ConfigInv /\ StartInv /\ BarrierInv /\ StrandInv
  BY <1>4 DEF ConfigInv, StartInv, BarrierInv, StrandInv, Started, Strands
<1>7. GrpcInv /\ IoInv /\ BeatInv
  BY DEF GrpcInv, IoInv, BeatInv
<1> QED BY <1>5, <1>6, <1>7 DEF IInv

LEMMA Invariant == Spec => []IInv
<1>1. Init => IInv
  BY InitInv
<1>2. IInv /\ [Next]_vars => IInv'
  BY NextStep
<1> QED BY <1>1, <1>2, PTL DEF Spec

-----------------------------------------------------------------------------
(* The results, for every set of documents and every number of threads,    *)
(* sessions and signals.                                                   *)

\* The types, with their bounds: the strand never holds more than two
\* handlers, and on_all_drained is called at most once.
THEOREM ServerTypeCorrect == Spec => []TypeOK
<1>1. IInv => TypeOK
  BY DEF IInv
<1> QED BY <1>1, Invariant, PTL

\* Until stop_all() was called and every session has drained, a signal is
\* waited for or on its way to on_signal.
THEOREM HatchIsAlwaysArmed == Spec => []HatchStaysArmed
<1>1. ASSUME IInv PROVE HatchStaysArmed
  <2> SUFFICES ASSUME Started, ~stopReq \/ \E v \in DOMAIN sess : sess[v] # "done"
               PROVE  wait \/ \E i \in DOMAIN strand : strand[i] = "signal"
    BY DEF HatchStaysArmed
  <2>1. drained = 0
    BY <1>1 DEF IInv, BarrierInv, TypeOK
  <2>2. wait \/ strand = << "signal" >>
    BY <1>1, <2>1 DEF IInv, StrandInv
  <2>3. 1 \in DOMAIN << "signal" >> /\ << "signal" >>[1] = "signal"
    OBVIOUS
  <2> QED BY <2>2, <2>3, Zenon
<1> QED BY <1>1, Invariant, PTL

\* When main() returns, every thread has ended and was joined, and after a
\* shutdown that was not forced every session has drained.
THEOREM ReturnsAreClean == Spec => []ReturnIsClean
<1>1. ASSUME IInv PROVE ReturnIsClean
  BY <1>1 DEF IInv, ReturnIsClean, TypeOK, BarrierInv, GrpcInv, IoInv, BeatInv
<1> QED BY <1>1, Invariant, PTL

\* Every document that is accepted is wired as it says: each book reaches
\* each venue it names, and no other.
THEOREM BooksReachVenues == Spec => []BooksReachTheirVenues
<1>1. ASSUME IInv PROVE BooksReachTheirVenues
  <2> SUFFICES ASSUME Started PROVE BooksReachTheirVenues
    BY DEF BooksReachTheirVenues
  <2>1. config \in Documents
    BY <1>1, ServerAssumption DEF IInv, ConfigInv
  <2>2. /\ ConfigAccepted(config) /\ wired = WiredSessions(config)
        /\ ~HasBadVenues(config, DOMAIN wired)
    BY <1>1 DEF IInv, ConfigInv, Started
  <2> QED BY <2>1, <2>2, WiringReachesVenues DEF BooksReachTheirVenues
<1> QED BY <1>1, Invariant, PTL
=============================================================================
