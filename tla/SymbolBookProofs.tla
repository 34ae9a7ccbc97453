-------------------------- MODULE SymbolBookProofs --------------------------
(***************************************************************************)
(* Theorems about SymbolBook, for every set of venues and clients, every   *)
(* range of prices and sizes, every queue capacity and every number of     *)
(* revisions.                                                              *)
(***************************************************************************)
EXTENDS SymbolBook, Induction, FiniteSetTheorems

-----------------------------------------------------------------------------
(* The aggregated book.                                                    *)

\* What an operation of AggregateOrderBook returns: a book, and changes that
\* lead from the old aggregate to the new one.
IsResult(b, r) ==
  /\ r.book \in Books
  /\ r.changes \in Changes
  /\ r.book.aggregate = Overlay(b.aggregate, r.changes)

\* A book with changes put in place is a book.
LEMMA OverlayType ==
  ASSUME NEW levels \in Levels, NEW d \in Changes
  PROVE  Overlay(levels, d) \in Levels
BY DEF Overlay, Levels, Changes, Same

\* Nothing is put in place by no changes.
LEMMA OverlayNothing ==
  ASSUME NEW levels \in Levels
  PROVE  Overlay(levels, NoChanges) = levels
BY DEF Overlay, Levels, NoChanges, Same

\* The changes a venue's new levels are reported as (the Sinks of
\* aggregate_order_book.hpp) describe exactly what happened to the aggregate.
LEMMA SetVenueResult ==
  ASSUME NEW b \in Books, NEW v \in Venue, NEW new \in Levels
  PROVE  IsResult(b, SetVenue(b, v, new))
<1> DEFINE changed == {l \in Level : new[l] # b.venues[v][l]}
           aggregate ==
             [l \in Level |->
                IF l \in changed
                  THEN AdjustAggregate(b.aggregate[l], new[l] - b.venues[v][l])
                  ELSE b.aggregate[l]]
           changes ==
             [l \in Level |-> IF l \in changed THEN aggregate[l] ELSE Same]
           next == [b EXCEPT !.venues[v] = new, !.aggregate = aggregate]
<1>1. aggregate \in Levels
  <2>1. SUFFICES ASSUME NEW l \in Level
                 PROVE  aggregate[l] \in Nat
    BY Zenon DEF Levels
  <2>2. b.aggregate[l] \in Nat /\ new[l] \in Nat /\ b.venues[v][l] \in Nat
    BY DEF Books, Levels
  <2>3. AdjustAggregate(b.aggregate[l], new[l] - b.venues[v][l]) \in Nat
    BY <2>2 DEF AdjustAggregate
  <2>4. QED
    BY <2>2, <2>3
<1>2. changes \in Changes
  <2>1. \A l \in Level : aggregate[l] \in Nat
    BY <1>1 DEF Levels
  <2>2. QED
    BY <2>1, Zenon DEF Changes
<1>3. next \in Books /\ next.aggregate = aggregate
  BY <1>1 DEF Books
<1>4. aggregate = Overlay(b.aggregate, changes)
  <2>1. \A l \in Level : aggregate[l] # Same
    BY <1>1 DEF Levels, Same
  <2>2. \A l \in Level : aggregate[l] = Overlay(b.aggregate, changes)[l]
    BY <2>1 DEF Overlay
  <2>3. QED
    BY <2>2, Zenon DEF Overlay
<1>5. SetVenue(b, v, new) = [book |-> next, changes |-> changes]
  BY Zenon DEF SetVenue
<1> HIDE DEF changed, aggregate, changes, next
<1>6. QED
  BY <1>2, <1>3, <1>4, <1>5 DEF IsResult

\* Marking a venue live or not does not touch the aggregate.
LEMMA SetLiveResult ==
  ASSUME NEW b \in Books, NEW r, IsResult(b, r),
         r = [book |-> r.book, changes |-> r.changes], NEW live \in SUBSET Venue
  PROVE  IsResult(b, [r EXCEPT !.book.live = live])
<1> DEFINE nb == [r.book EXCEPT !.live = live]
<1>1. r.book \in Books
  BY DEF IsResult
<1>2. nb \in Books /\ nb.aggregate = r.book.aggregate
  BY <1>1 DEF Books
<1>3. [r EXCEPT !.book.live = live] = [book |-> nb, changes |-> r.changes]
  OBVIOUS
<1> HIDE DEF nb
<1>4. QED
  BY <1>2, <1>3 DEF IsResult

\* The levels of a message that is_valid_level() accepts are changes.
LEMMA ValidIsChanges ==
  ASSUME NEW levels \in VenueLevels, IsValid(levels)
  PROVE  levels \in Changes
BY BoundsAssumption DEF VenueLevels, IsValid, Changes, Same

LEMMA EmptyType == NoLevels \in Levels /\ NoChanges \in Changes
BY DEF NoLevels, Levels, NoChanges, Changes, Same

LEMMA SnapshotResult ==
  ASSUME NEW b \in Books, NEW v \in Venue, NEW levels \in Changes
  PROVE  IsResult(b, BookApplySnapshot(b, v, levels))
<1> DEFINE r == SetVenue(b, v, Overlay(NoLevels, levels))
<1>1. IsResult(b, r)
  BY EmptyType, OverlayType, SetVenueResult
<1>2. r = [book |-> r.book, changes |-> r.changes]
  BY DEF SetVenue
<1>3. r.book.live \cup {v} \in SUBSET Venue
  BY <1>1 DEF IsResult, Books
<1>4. BookApplySnapshot(b, v, levels)
        = [r EXCEPT !.book.live = r.book.live \cup {v}]
  BY DEF BookApplySnapshot, MakeLive
<1> HIDE DEF r
<1>5. QED
  BY <1>1, <1>2, <1>3, <1>4, SetLiveResult

LEMMA BatchResult ==
  ASSUME NEW b \in Books, NEW v \in Venue, NEW levels \in Changes
  PROVE  IsResult(b, BookApplyBatch(b, v, levels))
<1> DEFINE r == SetVenue(b, v, Overlay(b.venues[v], levels))
<1>1. b.venues[v] \in Levels
  BY DEF Books
<1>2. IsResult(b, r)
  BY <1>1, OverlayType, SetVenueResult
<1>3. r = [book |-> r.book, changes |-> r.changes]
  BY DEF SetVenue
<1>4. r.book.live \cup {v} \in SUBSET Venue
  BY <1>2 DEF IsResult, Books
<1>5. BookApplyBatch(b, v, levels)
        = [r EXCEPT !.book.live = r.book.live \cup {v}]
  BY DEF BookApplyBatch, MakeLive
<1> HIDE DEF r
<1>6. QED
  BY <1>2, <1>3, <1>4, <1>5, SetLiveResult

LEMMA InvalidateResult ==
  ASSUME NEW b \in Books, NEW v \in Venue
  PROVE  IsResult(b, BookInvalidateVenue(b, v))
<1>1. CASE v \notin b.live
  <2>1. b.aggregate = Overlay(b.aggregate, NoChanges)
    BY OverlayNothing DEF Books
  <2>2. QED
    BY <1>1, <2>1, EmptyType DEF BookInvalidateVenue, IsResult
<1>2. CASE v \in b.live
  <2> DEFINE r == SetVenue(b, v, NoLevels)
  <2>1. IsResult(b, r)
    BY EmptyType, SetVenueResult
  <2>2. r = [book |-> r.book, changes |-> r.changes]
    BY DEF SetVenue
  <2>3. r.book.live \ {v} \in SUBSET Venue
    BY <2>1 DEF IsResult, Books
  <2>4. BookInvalidateVenue(b, v)
          = [r EXCEPT !.book.live = r.book.live \ {v}]
    BY <1>2 DEF BookInvalidateVenue
  <2> HIDE DEF r
  <2>5. QED
    BY <2>1, <2>2, <2>3, <2>4, SetLiveResult
<1>3. QED
  BY <1>1, <1>2

-----------------------------------------------------------------------------
(* The top of the book.                                                    *)

\* A nonempty set of prices has a greatest element, for prices are bounded.
LEMMA GreatestExists ==
  ASSUME NEW T \in SUBSET Price, T # {}
  PROVE  \E x \in T : \A y \in T : y <= x
<1> DEFINE U == {MaxPrice - p : p \in T}
<1>1. U \in SUBSET Nat /\ U # {}
  <2>1. \A p \in T : MaxPrice - p \in Nat
    BY PriceAssumption DEF Price
  <2>2. QED
    BY <2>1, Zenon
<1>2. PICK u \in U : \A w \in U : u <= w
  BY <1>1, LeastNat
<1>3. PICK x \in T : u = MaxPrice - x
  BY <1>2
<1>4. \A y \in T : MaxPrice - x <= MaxPrice - y
  BY <1>2, <1>3
<1>5. QED
  BY <1>4, PriceAssumption DEF Price

\* best_bid() and best_ask() return a level of the book or nothing.
LEMMA BestType ==
  ASSUME NEW levels \in Levels
  PROVE  Best(levels) \in Tops
<1>1. ASSUME NEW side \in {"bid", "ask"}, NEW p \in Price
      PROVE  << p, levels[<< side, p >>] >> \in Quote
  BY DEF Levels, Level, Quote
<1>2. NoBest \in Quote
  BY DEF NoBest, Quote
<1>3. BestBid(levels) \in Quote
  <2> DEFINE S == Quoted(levels, "bid")
             best == CHOOSE p \in S : \A q \in S : q <= p
  <2>1. S \in SUBSET Price
    BY DEF Quoted
  <2>2. ASSUME S # {} PROVE best \in Price
    <3>1. \E p \in S : \A q \in S : q <= p
      BY <2>1, <2>2, GreatestExists
    <3>2. QED
      BY <2>1, <3>1
  <2>3. BestBid(levels) = IF S = {} THEN NoBest
                          ELSE << best, levels[<< "bid", best >>] >>
    BY DEF BestBid
  <2> HIDE DEF S, best
  <2>4. QED
    BY <1>1, <1>2, <2>2, <2>3
<1>4. BestAsk(levels) \in Quote
  <2> DEFINE S == Quoted(levels, "ask")
             best == CHOOSE p \in S : \A q \in S : q >= p
  <2>1. S \in SUBSET Price /\ S \in SUBSET Nat
    BY PriceAssumption DEF Quoted, Price
  <2>2. ASSUME S # {} PROVE best \in Price
    <3>1. PICK p \in S : \A q \in S : p <= q
      BY <2>1, <2>2, LeastNat
    <3>2. \E q \in S : \A w \in S : w >= q
      BY <2>1, <3>1
    <3>3. QED
      BY <2>1, <3>2
  <2>3. BestAsk(levels) = IF S = {} THEN NoBest
                          ELSE << best, levels[<< "ask", best >>] >>
    BY DEF BestAsk
  <2> HIDE DEF S, best
  <2>4. QED
    BY <1>1, <1>2, <2>2, <2>3
<1>5. QED
  BY <1>3, <1>4 DEF Best, Tops

-----------------------------------------------------------------------------
(* Queues and messages.                                                    *)

LEMMA CapacityPositive ==
  ASSUME NEW Msg, NEW q \in Queue(Msg)
  PROVE  EffectiveCapacity(q) \in Nat \ {0}
<1>1. Capacity * BootstrapMultiplier \in Nat \ {0}
  BY CapacityAssumption
<1>2. QED
  BY <1>1, CapacityAssumption DEF EffectiveCapacity

LEMMA NewQueueType ==
  ASSUME NEW Msg
  PROVE  NewQueue \in Queue(Msg)
BY DEF NewQueue, Queue

LEMMA PushOrCloseType ==
  ASSUME NEW Msg, NEW q \in Queue(Msg), NEW m \in Msg
  PROVE  PushOrClose(q, m) \in Queue(Msg)
<1>1. q.items \in Seq(Msg) /\ Append(q.items, m) \in Seq(Msg)
  BY DEF Queue
<1>2. << >> \in Seq(Msg)
  OBVIOUS
<1>3. QED
  BY <1>1, <1>2 DEF PushOrClose, Queue

LEMMA PushDropOldestType ==
  ASSUME NEW Msg, NEW q \in Queue(Msg), NEW m \in Msg
  PROVE  PushDropOldest(q, m) \in Queue(Msg)
<1>1. q.items \in Seq(Msg)
  BY DEF Queue
<1>2. Append(q.items, m) \in Seq(Msg)
  BY <1>1
<1>3. ASSUME Len(q.items) >= EffectiveCapacity(q)
      PROVE  Append(Tail(q.items), m) \in Seq(Msg)
  <2>1. q.items # << >>
    BY <1>1, <1>3, CapacityPositive
  <2>2. Tail(q.items) \in Seq(Msg)
    BY <1>1, <2>1
  <2>3. QED
    BY <2>2
<1>4. QED
  BY <1>2, <1>3 DEF PushDropOldest, Queue

LEMMA EndBootstrapType ==
  ASSUME NEW Msg, NEW q \in Queue(Msg)
  PROVE  EndBootstrap(q) \in Queue(Msg) /\ Drained(q) \in Queue(Msg)
<1>1. << >> \in Seq(Msg)
  OBVIOUS
<1>2. QED
  BY <1>1 DEF EndBootstrap, Drained, Queue

LEMMA HeartbeatType ==
  ASSUME BookTypeOK
  PROVE  Heartbeat(seq, book.live) \in L2Msg \cap BboMsg
BY DEF BookTypeOK, Books, Heartbeat, L2Msg, BboMsg, HeartbeatMsg

LEMMA BroadcastL2Type ==
  ASSUME L2TypeOK, NEW m \in L2Msg, BroadcastL2(m)
  PROVE  l2Queue' \in [L2Sub -> Queue(L2Msg)]
<1>1. \A s \in L2Sub : PushOrClose(l2Queue[s], m) \in Queue(L2Msg)
  BY PushOrCloseType DEF L2TypeOK
<1>2. QED
  BY <1>1 DEF BroadcastL2, L2TypeOK

LEMMA BroadcastBboType ==
  ASSUME BboTypeOK, NEW m \in BboMsg, BroadcastBbo(m)
  PROVE  bboQueue' \in [BboSub -> Queue(BboMsg)]
<1>1. \A s \in BboSub : PushDropOldest(bboQueue[s], m) \in Queue(BboMsg)
  BY PushDropOldestType DEF BboTypeOK
<1>2. QED
  BY <1>1 DEF BroadcastBbo, BboTypeOK

-----------------------------------------------------------------------------
(* Type correctness.                                                       *)

LEMMA InitType == Init => TypeOK
<1> SUFFICES ASSUME Init PROVE TypeOK
  OBVIOUS
<1>1. BookTypeOK
  <2>1. EmptyBook \in Books
    BY EmptyType DEF EmptyBook, Books
  <2>2. [n \in 0 .. 0 |-> NoLevels] \in [0 .. 0 -> Levels]
    BY EmptyType
  <2>3. QED
    BY <2>1, <2>2, EmptyType, BestType DEF Init, BookTypeOK
<1>2. L2TypeOK
  <2>1. \A s \in L2Sub : Snapshot(0, NoLevels) \in SnapshotMsg
    BY EmptyType DEF Snapshot, SnapshotMsg
  <2>2. NoReplica \in Replicas
    BY EmptyType DEF NoReplica, Replicas
  <2>3. QED
    BY <2>1, <2>2, NewQueueType DEF Init, L2TypeOK, HandlerPc
<1>3. BboTypeOK
  <2>1. Best(NoLevels) \in Tops
    BY EmptyType, BestType
  <2>2. Bbo(0, Best(NoLevels)) \in InitialBbo
    BY <2>1 DEF Bbo, InitialBbo
  <2>3. NoTop \in TopViews
    BY <2>1 DEF NoTop, TopViews
  <2>4. QED
    BY <2>2, <2>3, NewQueueType DEF Init, BboTypeOK, HandlerPc
<1>4. QED
  BY <1>1, <1>2, <1>3 DEF TypeOK

LEMMA PublishType ==
  ASSUME TypeOK, NEW r, IsResult(book, r), Publish(r)
  PROVE  TypeOK'
<1>1. CASE r.changes = NoChanges
  <2>1. UNCHANGED << seq, log, lastBbo, beats, l2Vars, bboVars >> /\ book' = r.book
    BY <1>1 DEF Publish, l2Vars, bboVars
  <2>2. QED
    BY <2>1 DEF TypeOK, BookTypeOK, L2TypeOK, BboTypeOK, IsResult, l2Vars, bboVars
<1>2. CASE r.changes # NoChanges
  <2>1. /\ book' = r.book
        /\ seq' = seq + 1
        /\ log' = [n \in 0 .. seq + 1 |->
                     IF n <= seq THEN log[n] ELSE r.book.aggregate]
        /\ BroadcastL2(Diff(seq + 1, r.changes))
        /\ lastBbo' = Best(r.book.aggregate)
        /\ \/ BroadcastBbo(Bbo(seq + 1, Best(r.book.aggregate)))
           \/ UNCHANGED bboQueue
        /\ UNCHANGED << beats, l2Subs, l2Pc, l2Initial, l2Batch, replica,
                        bboSubs, bboPc, bboInitial, bboBatch, top >>
    BY <1>2 DEF Publish
  <2>2. r.book \in Books /\ r.changes \in Changes /\ r.book.aggregate \in Levels
    BY DEF IsResult, Books
  <2>3. Best(r.book.aggregate) \in Tops
    BY <2>2, BestType
  <2>4. seq \in Nat /\ log \in [0 .. seq -> Levels]
    BY DEF TypeOK, BookTypeOK
  <2>5. BookTypeOK'
    <3>1. log' \in [0 .. seq + 1 -> Levels]
      BY <2>1, <2>2, <2>4
    <3>2. QED
      BY <2>1, <2>2, <2>3, <2>4, <3>1 DEF TypeOK, BookTypeOK
  <2>6. L2TypeOK'
    <3>1. Diff(seq + 1, r.changes) \in L2Msg
      BY <2>2, <2>4 DEF Diff, L2Msg
    <3>2. l2Queue' \in [L2Sub -> Queue(L2Msg)]
      BY <2>1, <3>1, BroadcastL2Type DEF TypeOK
    <3>3. QED
      BY <2>1, <3>2 DEF TypeOK, L2TypeOK
  <2>7. BboTypeOK'
    <3>1. Bbo(seq + 1, Best(r.book.aggregate)) \in BboMsg
      BY <2>3, <2>4 DEF Bbo, BboMsg, InitialBbo
    <3>2. bboQueue' \in [BboSub -> Queue(BboMsg)]
      BY <2>1, <3>1, BroadcastBboType DEF TypeOK, BboTypeOK
    <3>3. QED
      BY <2>1, <3>2 DEF TypeOK, BboTypeOK
  <2>8. QED
    BY <2>5, <2>6, <2>7 DEF TypeOK
<1>3. QED
  BY <1>1, <1>2

\* Every way in which ingestion changes the book is a Publish of a result.
LEMMA IngestPublishes ==
  ASSUME TypeOK, Ingest
  PROVE  \E r : IsResult(book, r) /\ Publish(r)
<1>0. book \in Books
  BY DEF TypeOK, BookTypeOK
<1>1. ASSUME NEW v \in Venue, NEW levels \in VenueLevels,
             ApplySnapshot(v, levels)
      PROVE  \E r : IsResult(book, r) /\ Publish(r)
  BY <1>0, <1>1, ValidIsChanges, SnapshotResult DEF ApplySnapshot
<1>2. ASSUME NEW v \in Venue, NEW levels \in VenueLevels, ApplyBatch(v, levels)
      PROVE  \E r : IsResult(book, r) /\ Publish(r)
  BY <1>0, <1>2, ValidIsChanges, BatchResult DEF ApplyBatch
<1>3. ASSUME NEW v \in Venue, InvalidateVenue(v)
      PROVE  \E r : IsResult(book, r) /\ Publish(r)
  BY <1>0, <1>3, InvalidateResult DEF InvalidateVenue
<1>4. QED
  BY <1>1, <1>2, <1>3 DEF Ingest

\* A client's read loop keeps its local book well-typed.
LEMMA ApplyToReplicaType ==
  ASSUME NEW c \in Replicas, NEW m \in SnapshotMsg \cup L2Msg
  PROVE  ApplyToReplica(c, m) \in Replicas
<1>1. CASE c.gap
  BY <1>1 DEF ApplyToReplica
<1>2. CASE ~c.gap /\ m \in SnapshotMsg
  BY <1>2 DEF ApplyToReplica, Replicas, SnapshotMsg
<1>3. CASE ~c.gap /\ m \in HeartbeatMsg
  BY <1>3 DEF ApplyToReplica, Replicas, HeartbeatMsg
<1>4. CASE ~c.gap /\ m \in [kind : {"diff"}, seq : Nat, levels : Changes]
  <2>1. c.levels \in Levels /\ m.levels \in Changes
    BY <1>4 DEF Replicas
  <2>2. Overlay(c.levels, m.levels) \in Levels
    BY <2>1, OverlayType
  <2>3. ApplyToReplica(c, m) =
          IF IsBookSeqGap(c, m.seq)
            THEN [c EXCEPT !.gap = TRUE]
            ELSE [c EXCEPT !.seq = m.seq,
                           !.levels = Overlay(c.levels, m.levels),
                           !.unbacked = FALSE]
    BY <1>4 DEF ApplyToReplica
  <2>4. QED
    BY <1>4, <2>2, <2>3 DEF Replicas
<1>5. QED
  BY <1>1, <1>2, <1>3, <1>4 DEF L2Msg

LEMMA ApplyToTopType ==
  ASSUME NEW c \in TopViews, NEW m \in BboMsg
  PROVE  ApplyToTop(c, m) \in TopViews
BY DEF ApplyToTop, TopViews, BboMsg, InitialBbo, HeartbeatMsg

LEMMA HeadTailType ==
  ASSUME NEW Msg, NEW items \in Seq(Msg), items # << >>
  PROVE  Head(items) \in Msg /\ Tail(items) \in Seq(Msg)
BY HeadTailProperties

LEMMA HeartbeatStepType ==
  ASSUME TypeOK, SendHeartbeat
  PROVE  TypeOK'
<1>1. BookTypeOK'
  BY DEF TypeOK, BookTypeOK, SendHeartbeat
<1>2. L2TypeOK'
  <2>1. l2Queue' \in [L2Sub -> Queue(L2Msg)]
    BY HeartbeatType, BroadcastL2Type DEF TypeOK, SendHeartbeat
  <2>2. QED
    BY <2>1 DEF TypeOK, L2TypeOK, SendHeartbeat
<1>3. BboTypeOK'
  <2>1. bboQueue' \in [BboSub -> Queue(BboMsg)]
    BY HeartbeatType, BroadcastBboType DEF TypeOK, SendHeartbeat
  <2>2. QED
    BY <2>1 DEF TypeOK, BboTypeOK, SendHeartbeat
<1>4. QED
  BY <1>1, <1>2, <1>3 DEF TypeOK

LEMMA L2StepType ==
  ASSUME TypeOK, BatchWhileWriting, NEW s \in L2Sub, L2Step(s)
  PROVE  L2TypeOK'
<1> USE DEF TypeOK, L2TypeOK
<1>1. CASE L2Subscribe(s)
  <2>1. Snapshot(seq, book.aggregate) \in SnapshotMsg
    BY DEF BookTypeOK, Books, Snapshot, SnapshotMsg
  <2>2. NoReplica \in Replicas
    BY EmptyType DEF NoReplica, Replicas
  <2>3. QED
    BY <1>1, <2>1, <2>2, NewQueueType DEF L2Subscribe, HandlerPc
<1>2. CASE L2WriteInitial(s)
  <2>1. ApplyToReplica(replica[s], l2Initial[s]) \in Replicas
    BY ApplyToReplicaType
  <2>2. EndBootstrap(l2Queue[s]) \in Queue(L2Msg)
    BY EndBootstrapType
  <2>3. QED
    BY <1>2, <2>1, <2>2 DEF L2WriteInitial, HandlerPc
<1>3. CASE L2Drain(s)
  <2>1. l2Queue[s].items \in Seq(L2Msg)
    BY DEF Queue
  <2>2. Drained(l2Queue[s]) \in Queue(L2Msg)
    BY EndBootstrapType
  <2>3. QED
    BY <1>3, <2>1, <2>2 DEF L2Drain, HandlerPc
<1>4. CASE L2Write(s)
  <2>1. l2Batch[s] # << >>
    BY <1>4 DEF L2Write, BatchWhileWriting
  <2>2. Head(l2Batch[s]) \in L2Msg /\ Tail(l2Batch[s]) \in Seq(L2Msg)
    BY <2>1, HeadTailType
  <2>3. ApplyToReplica(replica[s], Head(l2Batch[s])) \in Replicas
    BY <2>2, ApplyToReplicaType
  <2>4. QED
    BY <1>4, <2>2, <2>3 DEF L2Write, HandlerPc
<1>5. ASSUME NEW p \in HandlerPc, L2End(s, p)
      PROVE  L2TypeOK'
  <2>1. << >> \in Seq(L2Msg)
    OBVIOUS
  <2>2. QED
    BY <1>5, <2>1, NewQueueType DEF L2End
<1>6. QED
  BY <1>1, <1>2, <1>3, <1>4, <1>5
     DEF L2Step, L2Exhausted, L2Leave, HandlerPc

LEMMA BboStepType ==
  ASSUME TypeOK, BatchWhileWriting, NEW s \in BboSub, BboStep(s)
  PROVE  BboTypeOK'
<1> USE DEF TypeOK, BboTypeOK
<1>1. CASE BboSubscribe(s)
  <2>1. Best(book.aggregate) \in Tops
    BY BestType DEF BookTypeOK, Books
  <2>2. Bbo(seq, Best(book.aggregate)) \in InitialBbo
    BY <2>1 DEF BookTypeOK, Bbo, InitialBbo
  <2>3. NoTop \in TopViews
    BY EmptyType, BestType DEF NoTop, TopViews
  <2>4. QED
    BY <1>1, <2>2, <2>3, NewQueueType DEF BboSubscribe, HandlerPc
<1>2. CASE BboWriteInitial(s)
  <2>1. ApplyToTop(top[s], bboInitial[s]) \in TopViews
    BY ApplyToTopType DEF BboMsg
  <2>2. EndBootstrap(bboQueue[s]) \in Queue(BboMsg)
    BY EndBootstrapType
  <2>3. QED
    BY <1>2, <2>1, <2>2 DEF BboWriteInitial, HandlerPc
<1>3. CASE BboDrain(s)
  <2>1. bboQueue[s].items \in Seq(BboMsg)
    BY DEF Queue
  <2>2. Drained(bboQueue[s]) \in Queue(BboMsg)
    BY EndBootstrapType
  <2>3. QED
    BY <1>3, <2>1, <2>2 DEF BboDrain, HandlerPc
<1>4. CASE BboWrite(s)
  <2>1. bboBatch[s] # << >>
    BY <1>4 DEF BboWrite, BatchWhileWriting
  <2>2. Head(bboBatch[s]) \in BboMsg /\ Tail(bboBatch[s]) \in Seq(BboMsg)
    BY <2>1, HeadTailType
  <2>3. ApplyToTop(top[s], Head(bboBatch[s])) \in TopViews
    BY <2>2, ApplyToTopType
  <2>4. QED
    BY <1>4, <2>2, <2>3 DEF BboWrite, HandlerPc
<1>5. CASE BboLeave(s)
  <2>1. << >> \in Seq(BboMsg)
    OBVIOUS
  <2>2. QED
    BY <1>5, <2>1, NewQueueType DEF BboLeave, HandlerPc
<1>6. QED
  BY <1>1, <1>2, <1>3, <1>4, <1>5 DEF BboStep

\* A handler has a batch exactly while it writes one.
LEMMA BatchStep ==
  ASSUME TypeOK, BatchWhileWriting, [Next]_vars
  PROVE  BatchWhileWriting'
<1> USE DEF TypeOK, BatchWhileWriting
<1>1. ASSUME NEW s \in L2Sub, L2Step(s)
      PROVE  BatchWhileWriting'
  <2>1. UNCHANGED << bboPc, bboBatch >>
    BY <1>1 DEF L2Step, L2Subscribe, L2WriteInitial, L2Drain, L2Exhausted,
                L2Write, L2Leave, L2End, bboVars
  <2>2. /\ DOMAIN l2Pc' = L2Sub /\ DOMAIN l2Batch' = L2Sub
        /\ \A x \in L2Sub \ {s} :
             l2Pc'[x] = l2Pc[x] /\ l2Batch'[x] = l2Batch[x]
    BY <1>1 DEF L2Step, L2Subscribe, L2WriteInitial, L2Drain, L2Exhausted,
                L2Write, L2Leave, L2End, L2TypeOK
  <2>3. l2Batch'[s] # << >> <=> l2Pc'[s] = "writing"
    BY <1>1 DEF L2Step, L2Subscribe, L2WriteInitial, L2Drain, L2Exhausted,
                L2Write, L2Leave, L2End, L2TypeOK
  <2>4. QED
    BY <2>1, <2>2, <2>3
<1>2. ASSUME NEW s \in BboSub, BboStep(s)
      PROVE  BatchWhileWriting'
  <2>1. UNCHANGED << l2Pc, l2Batch >>
    BY <1>2 DEF BboStep, BboSubscribe, BboWriteInitial, BboDrain, BboWrite,
                BboLeave, l2Vars
  <2>2. /\ DOMAIN bboPc' = BboSub /\ DOMAIN bboBatch' = BboSub
        /\ \A x \in BboSub \ {s} :
             bboPc'[x] = bboPc[x] /\ bboBatch'[x] = bboBatch[x]
    BY <1>2 DEF BboStep, BboSubscribe, BboWriteInitial, BboDrain, BboWrite,
                BboLeave, BboTypeOK
  <2>3. bboBatch'[s] # << >> <=> bboPc'[s] = "writing"
    BY <1>2 DEF BboStep, BboSubscribe, BboWriteInitial, BboDrain, BboWrite,
                BboLeave, BboTypeOK
  <2>4. QED
    BY <2>1, <2>2, <2>3
<1>3. CASE Ingest
  <2>1. PICK r : Publish(r)
    BY <1>3, IngestPublishes
  <2>2. QED
    BY <2>1 DEF Publish
<1>4. CASE SendHeartbeat
  BY <1>4 DEF SendHeartbeat
<1>5. CASE UNCHANGED vars
  BY <1>5 DEF vars, l2Vars, bboVars
<1>6. QED
  BY <1>1, <1>2, <1>3, <1>4, <1>5 DEF Next

LEMMA TypeStep ==
  ASSUME TypeOK, BatchWhileWriting, [Next]_vars
  PROVE  TypeOK'
<1>1. CASE Ingest
  BY <1>1, IngestPublishes, PublishType
<1>2. CASE SendHeartbeat
  BY <1>2, HeartbeatStepType
<1>3. ASSUME NEW s \in L2Sub, L2Step(s)
      PROVE  TypeOK'
  <2>1. UNCHANGED << bookVars, bboVars >>
    BY <1>3 DEF L2Step, L2Subscribe, L2WriteInitial, L2Drain, L2Exhausted,
                L2Write, L2Leave, L2End
  <2>2. L2TypeOK'
    BY <1>3, L2StepType
  <2>3. QED
    BY <2>1, <2>2 DEF TypeOK, BookTypeOK, BboTypeOK, bookVars, bboVars
<1>4. ASSUME NEW s \in BboSub, BboStep(s)
      PROVE  TypeOK'
  <2>1. UNCHANGED << bookVars, l2Vars >>
    BY <1>4 DEF BboStep, BboSubscribe, BboWriteInitial, BboDrain, BboWrite,
                BboLeave
  <2>2. BboTypeOK'
    BY <1>4, BboStepType
  <2>3. QED
    BY <2>1, <2>2 DEF TypeOK, BookTypeOK, L2TypeOK, bookVars, l2Vars
<1>5. CASE UNCHANGED vars
  BY <1>5 DEF TypeOK, BookTypeOK, L2TypeOK, BboTypeOK, vars, bookVars, l2Vars,
              bboVars
<1>6. QED
  BY <1>1, <1>2, <1>3, <1>4, <1>5 DEF Next

\* Every state SymbolBook, its handlers and its clients can be in is
\* well-typed: in particular no aggregate size is ever negative, on either
\* side of the wire.
THEOREM TypeCorrect == Spec => []TypeOK
<1>1. Init => TypeOK /\ BatchWhileWriting
  BY InitType DEF Init, BatchWhileWriting
<1>2. TypeOK /\ BatchWhileWriting /\ [Next]_vars
        => TypeOK' /\ BatchWhileWriting'
  BY TypeStep, BatchStep
<1>3. QED
  BY <1>1, <1>2, PTL DEF Spec

-----------------------------------------------------------------------------
(* Chains of messages.                                                     *)

LEMMA MsgSeq ==
  ASSUME NEW m \in L2Msg
  PROVE  m.seq \in Nat /\ m.kind \in {"diff", "heartbeat"}
BY DEF L2Msg, HeartbeatMsg

LEMMA AfterType ==
  ASSUME NEW n \in Nat, NEW items \in Seq(L2Msg)
  PROVE  After(n, items) \in Nat
<1>1. CASE items = << >>
  BY <1>1 DEF After
<1>2. CASE items # << >>
  <2>1. Len(items) \in 1 .. Len(items)
    BY <1>2
  <2>2. items[Len(items)] \in L2Msg
    BY <2>1, ElementOfSeq
  <2>3. QED
    BY <1>2, <2>2, MsgSeq DEF After
<1>3. QED
  BY <1>1, <1>2

\* A chain is extended by a message that follows its end.
LEMMA ChainAppend ==
  ASSUME NEW n \in Nat, NEW items \in Seq(L2Msg), NEW m \in L2Msg,
         IsChain(n, items), Follows(After(n, items), m)
  PROVE  /\ IsChain(n, Append(items, m))
         /\ After(n, Append(items, m)) = m.seq
<1> DEFINE more == Append(items, m)
<1>1. /\ Len(items) \in Nat
      /\ Len(more) = Len(items) + 1
      /\ \A i \in 1 .. Len(items) : more[i] = items[i]
      /\ more[Len(items) + 1] = m
      /\ more # << >>
  BY AppendProperties
<1>2. items = << >> <=> Len(items) = 0
  OBVIOUS
<1> HIDE DEF more
<1>3. ASSUME NEW i \in 1 .. Len(more)
      PROVE  Follows(IF i = 1 THEN n ELSE more[i - 1].seq, more[i])
  <2>1. CASE i \in 1 .. Len(items)
    <3>1. more[i] = items[i] /\ (i # 1 => more[i - 1] = items[i - 1])
      BY <1>1, <2>1
    <3>2. Follows(IF i = 1 THEN n ELSE items[i - 1].seq, items[i])
      BY <2>1 DEF IsChain
    <3>3. QED
      BY <3>1, <3>2
  <2>2. CASE i = Len(items) + 1
    <3>1. After(n, items) = IF i = 1 THEN n ELSE more[i - 1].seq
      BY <1>1, <1>2, <2>2 DEF After
    <3>2. QED
      BY <1>1, <2>2, <3>1
  <2>3. QED
    BY <1>1, <2>1, <2>2
<1>4. QED
  BY <1>1, <1>3 DEF IsChain, After, more

\* A chain without its first message is a chain from there on.
LEMMA ChainTail ==
  ASSUME NEW n \in Nat, NEW items \in Seq(L2Msg), items # << >>,
         IsChain(n, items)
  PROVE  /\ Follows(n, Head(items))
         /\ IsChain(Head(items).seq, Tail(items))
         /\ After(Head(items).seq, Tail(items)) = After(n, items)
<1>1. /\ Len(items) \in Nat \ {0}
      /\ Len(Tail(items)) = Len(items) - 1
      /\ \A i \in 1 .. Len(Tail(items)) : Tail(items)[i] = items[i + 1]
      /\ Head(items) = items[1]
  BY HeadTailProperties
<1>2. Tail(items) = << >> <=> Len(items) = 1
  <2>1. Tail(items) \in Seq(L2Msg)
    BY HeadTailProperties
  <2>2. Tail(items) = << >> <=> Len(Tail(items)) = 0
    BY <2>1, EmptySeq
  <2>3. QED
    BY <1>1, <2>2
<1>3. Follows(n, Head(items))
  BY <1>1 DEF IsChain
<1>4. IsChain(Head(items).seq, Tail(items))
  <2>1. SUFFICES ASSUME NEW i \in 1 .. Len(Tail(items))
                 PROVE  Follows(IF i = 1 THEN Head(items).seq
                                         ELSE Tail(items)[i - 1].seq,
                                Tail(items)[i])
    BY DEF IsChain
  <2>2. i + 1 \in 1 .. Len(items) /\ i + 1 # 1 /\ (i + 1) - 1 = i
    BY <1>1
  <2>3. Follows(items[i].seq, items[i + 1])
    BY <2>2 DEF IsChain
  <2>4. items[i].seq = IF i = 1 THEN Head(items).seq ELSE Tail(items)[i - 1].seq
    BY <1>1
  <2>5. QED
    BY <1>1, <2>3, <2>4
<1>5. After(Head(items).seq, Tail(items)) = After(n, items)
  <2>1. CASE Len(items) = 1
    BY <1>1, <1>2, <2>1 DEF After
  <2>2. CASE Len(items) # 1
    <3>1. Len(Tail(items)) \in 1 .. Len(Tail(items))
      BY <1>1, <2>2
    <3>2. Tail(items)[Len(Tail(items))] = items[Len(items)]
      BY <1>1, <3>1
    <3>3. QED
      BY <1>2, <2>2, <3>2 DEF After
  <2>3. QED
    BY <2>1, <2>2
<1>6. QED
  BY <1>3, <1>4, <1>5

\* push_or_close() with the Close policy: the queue still holds a chain, and
\* an open one reaches the message pushed.
LEMMA PushChain ==
  ASSUME NEW n \in Nat, NEW q \in Queue(L2Msg), NEW m \in L2Msg,
         IsChain(n, q.items),
         ~q.closed => Follows(After(n, q.items), m)
  PROVE  LET p == PushOrClose(q, m)
         IN  /\ IsChain(n, p.items)
             /\ ~p.closed => After(n, p.items) = m.seq
             /\ \A i \in 1 .. Len(p.items) :
                  \/ p.items[i] = m
                  \/ \E j \in 1 .. Len(q.items) : p.items[i] = q.items[j]
<1> DEFINE p == PushOrClose(q, m)
<1>0. q.items \in Seq(L2Msg)
  BY DEF Queue
<1>1. CASE q.closed
  <2>1. p = q
    BY <1>1 DEF PushOrClose
  <2>2. QED
    BY <1>0, <1>1, <2>1
<1>2. CASE ~q.closed /\ Len(q.items) >= EffectiveCapacity(q)
  <2>1. p.items = << >> /\ p.closed
    BY <1>2 DEF PushOrClose, Queue
  <2>2. IsChain(n, p.items) /\ Len(p.items) = 0
    BY <2>1 DEF IsChain
  <2>3. QED
    BY <2>1, <2>2
<1>3. CASE ~q.closed /\ ~(Len(q.items) >= EffectiveCapacity(q))
  <2>1. p.items = Append(q.items, m)
    BY <1>3 DEF PushOrClose, Queue
  <2>2. IsChain(n, p.items) /\ After(n, p.items) = m.seq
    BY <1>0, <1>3, <2>1, ChainAppend
  <2>3. ASSUME NEW i \in 1 .. Len(p.items)
        PROVE  \/ p.items[i] = m
               \/ \E j \in 1 .. Len(q.items) : p.items[i] = q.items[j]
    <3>1. /\ Len(q.items) \in Nat
          /\ Len(p.items) = Len(q.items) + 1
          /\ \A j \in 1 .. Len(q.items) : p.items[j] = q.items[j]
          /\ p.items[Len(q.items) + 1] = m
      BY <1>0, <2>1, AppendProperties
    <3>2. CASE i = Len(q.items) + 1
      BY <3>1, <3>2
    <3>3. CASE i \in 1 .. Len(q.items)
      BY <3>1, <3>3
    <3>4. QED
      BY <3>1, <3>2, <3>3
  <2>4. QED
    BY <2>2, <2>3
<1>4. QED
  BY <1>1, <1>2, <1>3

-----------------------------------------------------------------------------
(* The inductive invariant of the L2 stream.                               *)

L2Inv(s) == StreamOK(s) /\ HandlerOK(s) /\ ~replica[s].gap /\ ReplicaOK(s)

StreamInv ==
  TypeOK /\ BatchWhileWriting /\ LogEndsAtBook /\ \A s \in L2Sub : L2Inv(s)

\* Revisions are never rewritten, so what was exact stays exact.
LEMMA ExactStable ==
  ASSUME NEW items \in Seq(L2Msg), NEW n \in Nat, NEW k \in Nat, n <= k,
         NEW h, NEW g, \A j \in 0 .. n : g[j] = h[j],
         AreExact(items, n, h)
  PROVE  AreExact(items, k, g)
<1>1. SUFFICES ASSUME NEW i \in 1 .. Len(items)
               PROVE  IsExactDiff(items[i], k, g)
  BY DEF AreExact
<1> DEFINE m == items[i]
<1>2. m \in L2Msg /\ IsExactDiff(m, n, h)
  BY <1>1, ElementOfSeq DEF AreExact
<1>3. m.seq \in 0 .. n
  BY <1>2 DEF IsExactDiff
<1> HIDE DEF m
<1>4. CASE m.kind = "diff"
  <2>1. m.seq > 0 /\ h[m.seq] = Overlay(h[m.seq - 1], m.levels)
    BY <1>2, <1>4 DEF IsExactDiff
  <2>2. g[m.seq] = h[m.seq] /\ g[m.seq - 1] = h[m.seq - 1]
    BY <1>3, <2>1
  <2>3. QED
    BY <1>3, <2>1, <2>2 DEF IsExactDiff, m
<1>5. CASE m.kind # "diff"
  BY <1>3, <1>5 DEF IsExactDiff, m
<1>6. QED
  BY <1>4, <1>5

\* A step that broadcasts one message, which follows the latest revision and
\* reaches the next one, keeps every subscriber's stream contiguous.
LEMMA BroadcastStep ==
  ASSUME StreamInv, NEW m \in L2Msg, BroadcastL2(m),
         UNCHANGED << l2Subs, l2Pc, l2Initial, l2Batch, replica >>,
         seq' \in Nat, seq <= seq', \A k \in 0 .. seq : log'[k] = log[k],
         Follows(seq, m), m.seq = seq', IsExactDiff(m, seq', log'),
         NEW s \in L2Sub
  PROVE  L2Inv(s)'
<1>1. /\ seq \in Nat
      /\ l2Queue[s] \in Queue(L2Msg) /\ l2Queue[s].items \in Seq(L2Msg)
      /\ l2Batch[s] \in Seq(L2Msg)
      /\ replica[s].seq \in Nat /\ l2Initial[s].seq \in Nat
  BY DEF StreamInv, TypeOK, BookTypeOK, L2TypeOK, Queue, Replicas, SnapshotMsg
<1>2. StreamOK(s) /\ HandlerOK(s) /\ ~replica[s].gap /\ ReplicaOK(s)
  BY DEF StreamInv, L2Inv
<1>3. HandlerOK(s)'
  BY <1>1, <1>2 DEF HandlerOK, Serving
<1>4. ReplicaOK(s)' /\ ~replica'[s].gap
  BY <1>1, <1>2 DEF ReplicaOK
<1>5. Base(s)' = Base(s) /\ Base(s) \in Nat /\ (Serving(s)' <=> Serving(s))
  BY <1>1 DEF Base, Serving
<1> DEFINE n == After(Base(s), l2Batch[s])
           q == l2Queue[s]
           p == PushOrClose(q, m)
<1>6. n \in Nat
  BY <1>1, <1>5, AfterType
<1>7. AreExact(l2Batch[s], seq', log') /\ AreExact(q.items, seq', log')
  BY <1>1, <1>2, ExactStable DEF StreamOK
<1>8. CASE s \in l2Subs
  <2>1. Serving(s)
    BY <1>2, <1>8 DEF HandlerOK
  <2>2. /\ IsChain(Base(s), l2Batch[s])
        /\ IsChain(n, q.items)
        /\ ~q.closed => After(n, q.items) = seq
    BY <1>2, <2>1 DEF StreamOK
  <2>3. l2Queue'[s] = p
    BY <1>8 DEF BroadcastL2
  <2> HIDE DEF n, q
  <2>4. /\ IsChain(n, p.items)
        /\ ~p.closed => After(n, p.items) = m.seq
        /\ \A i \in 1 .. Len(p.items) :
             \/ p.items[i] = m
             \/ \E j \in 1 .. Len(q.items) : p.items[i] = q.items[j]
    <3>1. q \in Queue(L2Msg)
      BY <1>1 DEF q
    <3>2. QED
      BY <1>6, <2>2, <3>1, PushChain
  <2>5. AreExact(p.items, seq', log')
    BY <1>7, <2>4 DEF AreExact
  <2>6. IsChain(Base(s), l2Batch[s])'
    BY <1>5, <2>2
  <2>7. IsChain(n, p.items) /\ n = After(Base(s)', l2Batch'[s])
    BY <1>5, <2>4 DEF n
  <2>8. StreamOK(s)'
    BY <1>7, <2>3, <2>4, <2>5, <2>6, <2>7 DEF StreamOK
  <2>9. QED
    BY <1>3, <1>4, <2>8 DEF L2Inv
<1>9. CASE s \notin l2Subs
  <2>1. ~Serving(s)'
    BY <1>2, <1>5, <1>9 DEF HandlerOK
  <2>2. l2Queue'[s] = q
    BY <1>9 DEF BroadcastL2
  <2>3. StreamOK(s)'
    BY <1>7, <2>1, <2>2 DEF StreamOK
  <2>4. QED
    BY <1>3, <1>4, <2>3 DEF L2Inv
<1>10. QED
  BY <1>8, <1>9

LEMMA PublishStep ==
  ASSUME StreamInv, NEW r, IsResult(book, r), Publish(r)
  PROVE  LogEndsAtBook' /\ \A s \in L2Sub : L2Inv(s)'
<1>0. /\ seq \in Nat /\ log \in [0 .. seq -> Levels] /\ book.aggregate \in Levels
      /\ log[seq] = book.aggregate
  BY DEF StreamInv, TypeOK, BookTypeOK, Books, LogEndsAtBook
<1>1. CASE r.changes = NoChanges
  <2>1. UNCHANGED << seq, log, l2Vars >> /\ book' = r.book
    BY <1>1 DEF Publish, l2Vars
  <2>2. r.book.aggregate = book.aggregate
    BY <1>0, <1>1, OverlayNothing DEF IsResult
  <2>3. LogEndsAtBook'
    BY <1>0, <2>1, <2>2 DEF LogEndsAtBook
  <2>4. \A s \in L2Sub : L2Inv(s)'
    BY <2>1 DEF StreamInv, L2Inv, StreamOK, HandlerOK, ReplicaOK, Serving,
                Base, l2Vars
  <2>5. QED
    BY <2>3, <2>4
<1>2. CASE r.changes # NoChanges
  <2> DEFINE m == Diff(seq + 1, r.changes)
  <2>1. /\ book' = r.book
        /\ seq' = seq + 1
        /\ log' = [n \in 0 .. seq + 1 |->
                     IF n <= seq THEN log[n] ELSE r.book.aggregate]
        /\ BroadcastL2(m)
        /\ UNCHANGED << l2Subs, l2Pc, l2Initial, l2Batch, replica >>
    BY <1>2 DEF Publish
  <2>2. log'[seq + 1] = r.book.aggregate /\ \A k \in 0 .. seq : log'[k] = log[k]
    BY <1>0, <2>1
  <2>3. LogEndsAtBook'
    BY <2>1, <2>2 DEF LogEndsAtBook
  <2>4. /\ m.kind = "diff" /\ m.seq = seq + 1 /\ m.levels = r.changes
        /\ m \in L2Msg
    BY <1>0 DEF Diff, L2Msg, IsResult
  <2> HIDE DEF m
  <2>5. Follows(seq, m)
    BY <2>4 DEF Follows
  <2>6. log'[m.seq] = Overlay(log'[m.seq - 1], m.levels)
    BY <1>0, <2>2, <2>4 DEF IsResult
  <2>7. IsExactDiff(m, seq', log')
    BY <1>0, <2>1, <2>4, <2>6 DEF IsExactDiff
  <2>8. seq' \in Nat /\ seq <= seq' /\ m.seq = seq'
    BY <1>0, <2>1, <2>4
  <2>9. \A s \in L2Sub : L2Inv(s)'
    BY <2>1, <2>2, <2>4, <2>5, <2>7, <2>8, BroadcastStep
  <2>10. QED
    BY <2>3, <2>9
<1>3. QED
  BY <1>1, <1>2

LEMMA HeartbeatStep ==
  ASSUME StreamInv, SendHeartbeat
  PROVE  LogEndsAtBook' /\ \A s \in L2Sub : L2Inv(s)'
<1> DEFINE m == Heartbeat(seq, book.live)
<1>1. /\ BroadcastL2(m)
      /\ UNCHANGED << book, seq, log, l2Subs, l2Pc, l2Initial, l2Batch,
                      replica >>
  BY DEF SendHeartbeat
<1>2. seq \in Nat /\ m \in L2Msg /\ m.kind = "heartbeat" /\ m.seq = seq
  BY HeartbeatType DEF StreamInv, TypeOK, BookTypeOK, Heartbeat
<1> HIDE DEF m
<1>3. Follows(seq, m) /\ IsExactDiff(m, seq', log')
  BY <1>1, <1>2 DEF Follows, IsExactDiff
<1>4. seq' \in Nat /\ seq <= seq' /\ m.seq = seq'
  BY <1>1, <1>2
<1>5. \A s \in L2Sub : L2Inv(s)'
  BY <1>1, <1>2, <1>3, <1>4, BroadcastStep
<1>6. QED
  BY <1>1, <1>5 DEF StreamInv, LogEndsAtBook

\* What a handler does is nobody else's business.
LEMMA OthersUnchanged ==
  ASSUME TypeOK, NEW s \in L2Sub, L2Step(s), NEW x \in L2Sub, x # s, L2Inv(x)
  PROVE  L2Inv(x)'
<1>1. /\ UNCHANGED << seq, log >>
      /\ x \in l2Subs' <=> x \in l2Subs
      /\ l2Queue'[x] = l2Queue[x] /\ l2Pc'[x] = l2Pc[x]
      /\ l2Initial'[x] = l2Initial[x] /\ l2Batch'[x] = l2Batch[x]
      /\ replica'[x] = replica[x]
  BY DEF L2Step, L2Subscribe, L2WriteInitial, L2Drain, L2Exhausted, L2Write,
         L2Leave, L2End, TypeOK, L2TypeOK, bookVars
<1>2. QED
  BY <1>1 DEF L2Inv, StreamOK, HandlerOK, ReplicaOK, Serving, Base

LEMMA EmptyChain ==
  ASSUME NEW n, NEW k, NEW h
  PROVE  IsChain(n, << >>) /\ After(n, << >>) = n /\ AreExact(<< >>, k, h)
BY DEF IsChain, After, AreExact

\* subscribe_impl captures the book and registers in one critical section.
LEMMA SubscribeStep ==
  ASSUME StreamInv, NEW s \in L2Sub, L2Subscribe(s)
  PROVE  L2Inv(s)'
<1>1. /\ seq \in Nat /\ log[seq] = book.aggregate
      /\ l2Batch[s] = << >>
  BY DEF StreamInv, TypeOK, BookTypeOK, LogEndsAtBook, BatchWhileWriting,
         L2Subscribe
<1>2. /\ UNCHANGED << seq, log >> /\ l2Batch'[s] = << >>
      /\ l2Initial'[s].seq = seq /\ l2Initial'[s].levels = book.aggregate
      /\ s \in l2Subs' /\ l2Pc'[s] = "initial"
      /\ l2Queue'[s].items = << >> /\ ~l2Queue'[s].closed
      /\ ~replica'[s].attached /\ ~replica'[s].gap
  BY <1>1 DEF StreamInv, TypeOK, L2TypeOK, L2Subscribe, bookVars, Snapshot,
              NewQueue, NoReplica
<1>3. HandlerOK(s)'
  BY <1>1, <1>2 DEF HandlerOK, Serving
<1>4. StreamOK(s)'
  BY <1>2, EmptyChain DEF StreamOK, Serving, Base
<1>5. QED
  BY <1>2, <1>3, <1>4 DEF L2Inv, ReplicaOK

LEMMA WriteInitialStep ==
  ASSUME StreamInv, NEW s \in L2Sub, L2WriteInitial(s)
  PROVE  L2Inv(s)'
<1>1. /\ l2Pc[s] = "initial" /\ ~replica[s].gap
      /\ StreamOK(s) /\ HandlerOK(s)
  BY DEF StreamInv, L2Inv, L2WriteInitial
<1>2. /\ l2Initial[s] \in SnapshotMsg /\ replica[s] \in Replicas
      /\ l2Queue[s] \in Queue(L2Msg)
  BY DEF StreamInv, TypeOK, L2TypeOK
<1>3. ApplyToReplica(replica[s], l2Initial[s])
        = [replica[s] EXCEPT !.attached = TRUE, !.seq = l2Initial[s].seq,
                             !.levels = l2Initial[s].levels, !.unbacked = FALSE]
  BY <1>1, <1>2 DEF ApplyToReplica, SnapshotMsg
<1>4. /\ UNCHANGED << seq, log, l2Subs, l2Initial, l2Batch >>
      /\ l2Pc'[s] = "subscribed"
      /\ l2Queue'[s] = EndBootstrap(l2Queue[s])
      /\ replica'[s] = ApplyToReplica(replica[s], l2Initial[s])
  BY DEF StreamInv, TypeOK, L2TypeOK, L2WriteInitial, bookVars
<1>5. /\ replica'[s].attached /\ ~replica'[s].gap
      /\ replica'[s].seq = l2Initial[s].seq
      /\ replica'[s].levels = l2Initial[s].levels
  BY <1>1, <1>2, <1>3, <1>4 DEF Replicas
<1>6. /\ l2Queue'[s].items = l2Queue[s].items
      /\ l2Queue'[s].closed = l2Queue[s].closed
  BY <1>2, <1>4 DEF EndBootstrap, Queue
<1>7. HandlerOK(s)'
  BY <1>1, <1>4, <1>5 DEF HandlerOK, Serving
<1>8. ReplicaOK(s)'
  BY <1>1, <1>4, <1>5 DEF HandlerOK, ReplicaOK
<1>9. StreamOK(s)'
  <2>1. Base(s)' = Base(s) /\ Serving(s)
    BY <1>1, <1>4, <1>5 DEF Base, Serving
  <2>2. QED
    BY <1>1, <1>4, <1>6, <2>1 DEF StreamOK
<1>10. QED
  BY <1>5, <1>7, <1>8, <1>9 DEF L2Inv

LEMMA DrainStep ==
  ASSUME StreamInv, NEW s \in L2Sub, L2Drain(s)
  PROVE  L2Inv(s)'
<1>1. /\ l2Pc[s] \in {"subscribed", "waiting"} /\ l2Batch[s] = << >>
      /\ StreamOK(s) /\ HandlerOK(s) /\ ReplicaOK(s) /\ ~replica[s].gap
  BY DEF StreamInv, L2Inv, L2Drain, BatchWhileWriting
<1>2. /\ UNCHANGED << seq, log, l2Subs, l2Initial, replica >>
      /\ l2Pc'[s] = "writing"
      /\ l2Batch'[s] = l2Queue[s].items
      /\ l2Queue'[s].items = << >> /\ l2Queue'[s].closed = l2Queue[s].closed
  BY DEF StreamInv, TypeOK, L2TypeOK, L2Drain, bookVars, Drained, Queue
<1>3. Base(s)' = Base(s) /\ Serving(s)
  BY <1>1, <1>2 DEF Base, Serving
<1>4. /\ IsChain(Base(s), l2Queue[s].items)
      /\ ~l2Queue[s].closed => After(Base(s), l2Queue[s].items) = seq
      /\ AreExact(l2Queue[s].items, seq, log)
  BY <1>1, <1>3, EmptyChain DEF StreamOK
<1>5. StreamOK(s)'
  BY <1>2, <1>3, <1>4, EmptyChain DEF StreamOK
<1>6. HandlerOK(s)' /\ ReplicaOK(s)'
  BY <1>1, <1>2 DEF HandlerOK, ReplicaOK, Serving
<1>7. QED
  BY <1>1, <1>2, <1>5, <1>6 DEF L2Inv

\* One Write(): the client takes a message that continues its stream.
LEMMA WriteStep ==
  ASSUME StreamInv, NEW s \in L2Sub, L2Write(s)
  PROVE  L2Inv(s)'
<1> DEFINE m == Head(l2Batch[s])
           c == replica[s]
<1>1. /\ l2Pc[s] = "writing" /\ l2Batch[s] # << >>
      /\ StreamOK(s) /\ HandlerOK(s) /\ ReplicaOK(s) /\ ~c.gap
  BY DEF StreamInv, L2Inv, L2Write, BatchWhileWriting
<1>2. Serving(s) /\ c.attached /\ Base(s) = c.seq
  BY <1>1 DEF HandlerOK, Serving, Base
<1>3. /\ seq \in Nat /\ log \in [0 .. seq -> Levels]
      /\ l2Batch[s] \in Seq(L2Msg) /\ c \in Replicas
      /\ c.seq \in Nat /\ c.levels \in Levels
  BY DEF StreamInv, TypeOK, BookTypeOK, L2TypeOK, Replicas
<1>4. m \in L2Msg /\ m = l2Batch[s][1] /\ 1 \in 1 .. Len(l2Batch[s])
      /\ Tail(l2Batch[s]) \in Seq(L2Msg)
  BY <1>1, <1>3, HeadTailType
<1>5. /\ Follows(c.seq, m)
      /\ IsChain(m.seq, Tail(l2Batch[s]))
      /\ After(m.seq, Tail(l2Batch[s])) = After(c.seq, l2Batch[s])
  BY <1>1, <1>2, <1>3, ChainTail DEF StreamOK
<1>6. /\ UNCHANGED << seq, log, l2Subs, l2Queue, l2Initial >>
      /\ l2Pc'[s] \in {"waiting", "writing"}
      /\ l2Batch'[s] = Tail(l2Batch[s])
      /\ replica'[s] = ApplyToReplica(c, m)
  BY DEF StreamInv, TypeOK, L2TypeOK, L2Write, bookVars
<1>7. IsExactDiff(m, seq, log)
  BY <1>1, <1>4 DEF StreamOK, AreExact
<1>8. AreExact(Tail(l2Batch[s]), seq, log)
  <2>1. /\ Len(Tail(l2Batch[s])) = Len(l2Batch[s]) - 1
        /\ Len(l2Batch[s]) \in Nat
        /\ \A i \in 1 .. Len(Tail(l2Batch[s])) :
             Tail(l2Batch[s])[i] = l2Batch[s][i + 1]
    BY <1>1, <1>3, HeadTailProperties
  <2>2. QED
    BY <1>1, <2>1 DEF StreamOK, AreExact
<1>9. /\ replica'[s].attached /\ ~replica'[s].gap
      /\ replica'[s].seq = m.seq
      /\ replica'[s].levels = log[m.seq]
  <2> HIDE DEF m, c
  <2>1. c.seq <= seq /\ c.levels = log[c.seq]
    BY <1>1, <1>2 DEF ReplicaOK, c
  <2>2. CASE m.kind = "diff"
    <3>1. m.seq = c.seq + 1 /\ ~IsBookSeqGap(c, m.seq)
      BY <1>5, <2>2 DEF Follows, IsBookSeqGap
    <3>2. ApplyToReplica(c, m) =
            [c EXCEPT !.seq = m.seq, !.levels = Overlay(c.levels, m.levels),
                      !.unbacked = FALSE]
      BY <1>1, <2>2, <3>1 DEF ApplyToReplica
    <3>3. log[m.seq] = Overlay(log[m.seq - 1], m.levels) /\ m.seq - 1 = c.seq
      BY <1>3, <1>7, <2>2, <3>1 DEF IsExactDiff
    <3>4. QED
      BY <1>1, <1>2, <1>3, <1>6, <2>1, <3>2, <3>3 DEF Replicas
  <2>3. CASE m.kind = "heartbeat"
    <3>1. m.seq = c.seq
      BY <1>5, <2>3 DEF Follows
    <3>2. ApplyToReplica(c, m) = [c EXCEPT !.unbacked = (m.live = {})]
      BY <1>1, <2>3 DEF ApplyToReplica
    <3>3. QED
      BY <1>1, <1>2, <1>3, <1>6, <2>1, <3>1, <3>2 DEF Replicas
  <2>4. QED
    BY <1>4, <2>2, <2>3, MsgSeq
<1>10. ReplicaOK(s)'
  BY <1>3, <1>6, <1>7, <1>9 DEF ReplicaOK, IsExactDiff
<1>11. HandlerOK(s)'
  BY <1>1, <1>6, <1>9 DEF HandlerOK, Serving
<1>12. StreamOK(s)'
  <2>1. Base(s)' = m.seq
    BY <1>6, <1>9 DEF Base
  <2>2. QED
    BY <1>1, <1>2, <1>5, <1>6, <1>8, <2>1 DEF StreamOK
<1>13. QED
  BY <1>9, <1>10, <1>11, <1>12 DEF L2Inv

LEMMA EndStep ==
  ASSUME StreamInv, NEW s \in L2Sub, NEW p \in {"ended", "exhausted"},
         L2End(s, p)
  PROVE  L2Inv(s)'
<1>1. /\ UNCHANGED << seq, log, replica >> /\ s \notin l2Subs'
      /\ l2Queue'[s].items = << >> /\ l2Batch'[s] = << >> /\ l2Pc'[s] = p
  BY DEF StreamInv, TypeOK, L2TypeOK, L2End, bookVars, NewQueue
<1>2. ~Serving(s)'
  BY <1>1 DEF Serving
<1>3. StreamOK(s)' /\ HandlerOK(s)'
  BY <1>1, <1>2, EmptyChain DEF StreamOK, HandlerOK
<1>4. QED
  BY <1>1, <1>3 DEF StreamInv, L2Inv, ReplicaOK

LEMMA StreamStep == StreamInv /\ [Next]_vars => StreamInv'
<1> SUFFICES ASSUME StreamInv, [Next]_vars PROVE StreamInv'
  OBVIOUS
<1>1. TypeOK' /\ BatchWhileWriting'
  BY TypeStep, BatchStep DEF StreamInv
<1>2. CASE Ingest
  <2>1. PICK r : IsResult(book, r) /\ Publish(r)
    BY <1>2, IngestPublishes DEF StreamInv
  <2>2. QED
    BY <1>1, <2>1, PublishStep DEF StreamInv
<1>3. CASE SendHeartbeat
  BY <1>1, <1>3, HeartbeatStep DEF StreamInv
<1>4. ASSUME NEW s \in L2Sub, L2Step(s)
      PROVE  StreamInv'
  <2>1. LogEndsAtBook'
    BY <1>4 DEF L2Step, L2Subscribe, L2WriteInitial, L2Drain, L2Exhausted,
                L2Write, L2Leave, L2End, StreamInv, LogEndsAtBook, bookVars
  <2>2. L2Inv(s)'
    BY <1>4, SubscribeStep, WriteInitialStep, DrainStep, WriteStep, EndStep
       DEF L2Step, L2Exhausted, L2Leave
  <2>3. \A x \in L2Sub : L2Inv(x)'
    BY <1>4, <2>2, OthersUnchanged DEF StreamInv
  <2>4. QED
    BY <1>1, <2>1, <2>3 DEF StreamInv
<1>5. ASSUME NEW s \in BboSub, BboStep(s)
      PROVE  StreamInv'
  <2>1. UNCHANGED << bookVars, l2Vars >>
    BY <1>5 DEF BboStep, BboSubscribe, BboWriteInitial, BboDrain, BboWrite,
                BboLeave
  <2>2. QED
    BY <1>1, <2>1 DEF StreamInv, L2Inv, LogEndsAtBook, StreamOK, HandlerOK,
                      ReplicaOK, Serving, Base, bookVars, l2Vars
<1>6. CASE UNCHANGED vars
  BY <1>1, <1>6 DEF StreamInv, L2Inv, LogEndsAtBook, StreamOK, HandlerOK,
                    ReplicaOK, Serving, Base, vars, bookVars, l2Vars
<1>7. QED
  BY <1>2, <1>3, <1>4, <1>5, <1>6 DEF Next

LEMMA StreamInit == Init => StreamInv
<1> SUFFICES ASSUME Init PROVE StreamInv
  OBVIOUS
<1>1. TypeOK /\ BatchWhileWriting
  BY InitType DEF Init, BatchWhileWriting
<1>2. LogEndsAtBook
  BY DEF Init, LogEndsAtBook, EmptyBook
<1>3. ASSUME NEW s \in L2Sub PROVE L2Inv(s)
  <2>1. /\ l2Pc[s] = "idle" /\ l2Subs = {} /\ l2Batch[s] = << >>
        /\ l2Queue[s].items = << >> /\ ~replica[s].attached /\ ~replica[s].gap
    BY DEF Init, NewQueue, NoReplica
  <2>2. QED
    BY <2>1, EmptyChain DEF L2Inv, StreamOK, HandlerOK, ReplicaOK, Serving
<1>4. QED
  BY <1>1, <1>2, <1>3 DEF StreamInv

\* What is pending for a subscriber always continues what its client has,
\* without a hole, up to the latest revision or to an overflow: the promise
\* of subscribe_impl, Fanout::broadcast and the handler's write loop.
THEOREM StreamsAreContiguous == Spec => []StreamIsContiguous
<1>1. StreamInv => StreamIsContiguous
  BY DEF StreamInv, L2Inv, StreamIsContiguous
<1>2. QED
  BY <1>1, StreamInit, StreamStep, PTL DEF Spec

\* The client's check for a gap in book_seq never fires.
THEOREM ClientsSeeNoGap == Spec => []NoClientGap
<1>1. StreamInv => NoClientGap
  BY DEF StreamInv, L2Inv, NoClientGap
<1>2. QED
  BY <1>1, StreamInit, StreamStep, PTL DEF Spec

\* A client's local book is the aggregate of the revision it has reached.
THEOREM ReplicasAreExact == Spec => []ReplicaIsExact
<1>1. StreamInv => ReplicaIsExact
  BY DEF StreamInv, L2Inv, ReplicaIsExact
<1>2. QED
  BY <1>1, StreamInit, StreamStep, PTL DEF Spec

-----------------------------------------------------------------------------
(* The size of the queues.                                                 *)

Ceiling == Capacity * BootstrapMultiplier

LEMMA CapacityBelowCeiling ==
  ASSUME NEW Msg, NEW q \in Queue(Msg)
  PROVE  Ceiling \in Nat \ {0} /\ EffectiveCapacity(q) <= Ceiling
<1>1. \A c, k \in Nat \ {0} : c * k \in Nat \ {0} /\ c <= c * k
  OBVIOUS
<1>2. QED
  BY <1>1, CapacityAssumption DEF EffectiveCapacity, Ceiling

\* Neither policy of push_or_close() lets a queue outgrow the ceiling, even
\* one that is above its capacity because its bootstrap window just ended.
LEMMA PushIsBounded ==
  ASSUME NEW Msg, NEW q \in Queue(Msg), NEW m \in Msg,
         Len(q.items) <= Ceiling
  PROVE  /\ Len(PushOrClose(q, m).items) <= Ceiling
         /\ Len(PushDropOldest(q, m).items) <= Ceiling
<1>1. /\ q.items \in Seq(Msg) /\ Len(q.items) \in Nat
      /\ Ceiling \in Nat \ {0}
      /\ EffectiveCapacity(q) \in Nat \ {0}
      /\ EffectiveCapacity(q) <= Ceiling
  BY CapacityPositive, CapacityBelowCeiling DEF Queue
<1>2. Len(Append(q.items, m)) = Len(q.items) + 1
  BY <1>1, AppendProperties
<1>3. CASE Len(q.items) >= EffectiveCapacity(q)
  <2>1. q.items # << >>
    BY <1>1, <1>3
  <2>2. Tail(q.items) \in Seq(Msg) /\ Len(Tail(q.items)) = Len(q.items) - 1
    BY <1>1, <2>1, HeadTailProperties
  <2>3. Len(Append(Tail(q.items), m)) = Len(q.items)
    BY <1>1, <2>2, AppendProperties
  <2>4. PushDropOldest(q, m).items = Append(Tail(q.items), m)
    BY <1>3 DEF PushDropOldest, Queue
  <2>5. PushOrClose(q, m).items = q.items \/ PushOrClose(q, m).items = << >>
    BY <1>3 DEF PushOrClose, Queue
  <2>6. Len(PushOrClose(q, m).items) <= Ceiling
    BY <1>1, <2>5
  <2>7. QED
    BY <1>1, <2>3, <2>4, <2>6
<1>4. CASE ~(Len(q.items) >= EffectiveCapacity(q))
  <2>1. PushDropOldest(q, m).items = Append(q.items, m)
    BY <1>4 DEF PushDropOldest, Queue
  <2>2. PushOrClose(q, m).items \in {q.items, Append(q.items, m)}
    BY <1>4 DEF PushOrClose, Queue
  <2>3. Len(q.items) + 1 <= Ceiling
    BY <1>1, <1>4
  <2>4. QED
    BY <1>1, <1>2, <2>1, <2>2, <2>3
<1>5. QED
  BY <1>3, <1>4

LEMMA BroadcastIsBounded ==
  ASSUME TypeOK, QueuesAreBounded
  PROVE  /\ \A m \in L2Msg : BroadcastL2(m) =>
              \A s \in L2Sub : Len(l2Queue'[s].items) <= Ceiling
         /\ \A m \in BboMsg : BroadcastBbo(m) =>
              \A s \in BboSub : Len(bboQueue'[s].items) <= Ceiling
<1>1. /\ \A s \in L2Sub : l2Queue[s] \in Queue(L2Msg)
                            /\ Len(l2Queue[s].items) <= Ceiling
      /\ \A s \in BboSub : bboQueue[s] \in Queue(BboMsg)
                             /\ Len(bboQueue[s].items) <= Ceiling
  BY DEF TypeOK, L2TypeOK, BboTypeOK, QueuesAreBounded, Ceiling
<1>2. ASSUME NEW m \in L2Msg, BroadcastL2(m), NEW s \in L2Sub
      PROVE  Len(l2Queue'[s].items) <= Ceiling
  <2>1. l2Queue'[s] \in {PushOrClose(l2Queue[s], m), l2Queue[s]}
    BY <1>2 DEF BroadcastL2
  <2>2. QED
    BY <1>1, <2>1, PushIsBounded
<1>3. ASSUME NEW m \in BboMsg, BroadcastBbo(m), NEW s \in BboSub
      PROVE  Len(bboQueue'[s].items) <= Ceiling
  <2>1. bboQueue'[s] \in {PushDropOldest(bboQueue[s], m), bboQueue[s]}
    BY <1>3 DEF BroadcastBbo
  <2>2. QED
    BY <1>1, <2>1, PushIsBounded
<1>4. QED
  BY <1>2, <1>3

LEMMA BoundedStep == TypeOK /\ QueuesAreBounded /\ [Next]_vars => QueuesAreBounded'
<1> SUFFICES ASSUME TypeOK, QueuesAreBounded, [Next]_vars
             PROVE  QueuesAreBounded'
  OBVIOUS
<1>0. /\ Ceiling \in Nat \ {0} /\ Len(NewQueue.items) = 0
      /\ \A c, k \in Nat \ {0} : c * k \in Nat \ {0}
  BY CapacityAssumption DEF Ceiling, NewQueue
<1>1. ASSUME NEW r, IsResult(book, r), Publish(r)
      PROVE  QueuesAreBounded'
  <2>1. CASE r.changes = NoChanges
    BY <1>1, <2>1 DEF Publish, QueuesAreBounded
  <2>2. CASE r.changes # NoChanges
    <3>1. r.changes \in Changes /\ Best(r.book.aggregate) \in Tops /\ seq \in Nat
      BY <1>1, BestType DEF IsResult, Books, TypeOK, BookTypeOK
    <3>2. /\ Diff(seq + 1, r.changes) \in L2Msg
          /\ Bbo(seq + 1, Best(r.book.aggregate)) \in BboMsg
      BY <3>1 DEF Diff, Bbo, L2Msg, BboMsg, InitialBbo
    <3>3. /\ BroadcastL2(Diff(seq + 1, r.changes))
          /\ \/ BroadcastBbo(Bbo(seq + 1, Best(r.book.aggregate)))
             \/ UNCHANGED bboQueue
      BY <1>1, <2>2 DEF Publish
    <3>4. QED
      BY <3>2, <3>3, BroadcastIsBounded DEF QueuesAreBounded, Ceiling
  <2>3. QED
    BY <2>1, <2>2
<1>2. CASE Ingest
  BY <1>1, <1>2, IngestPublishes
<1>3. CASE SendHeartbeat
  <2>1. /\ BroadcastL2(Heartbeat(seq, book.live))
        /\ BroadcastBbo(Heartbeat(seq, book.live))
    BY <1>3 DEF SendHeartbeat
  <2>2. QED
    BY <2>1, HeartbeatType, BroadcastIsBounded
       DEF TypeOK, QueuesAreBounded, Ceiling
<1>4. ASSUME NEW s \in L2Sub, L2Step(s)
      PROVE  QueuesAreBounded'
  <2>1. /\ UNCHANGED bboQueue
        /\ \/ UNCHANGED l2Queue
           \/ l2Queue' = [l2Queue EXCEPT ![s] = NewQueue]
           \/ l2Queue' = [l2Queue EXCEPT ![s] = EndBootstrap(@)]
           \/ l2Queue' = [l2Queue EXCEPT ![s] = Drained(@)]
    BY <1>4 DEF L2Step, L2Subscribe, L2WriteInitial, L2Drain, L2Exhausted,
                L2Write, L2Leave, L2End, bboVars
  <2>2. /\ EndBootstrap(l2Queue[s]).items = l2Queue[s].items
        /\ Len(Drained(l2Queue[s]).items) = 0
    BY DEF EndBootstrap, Drained, TypeOK, L2TypeOK, Queue
  <2>3. \A x \in L2Sub : \/ l2Queue'[x].items = l2Queue[x].items
                         \/ Len(l2Queue'[x].items) = 0
    BY <1>0, <2>1, <2>2 DEF TypeOK, L2TypeOK
  <2>4. QED
    BY <1>0, <2>1, <2>3 DEF QueuesAreBounded, Ceiling
<1>5. ASSUME NEW s \in BboSub, BboStep(s)
      PROVE  QueuesAreBounded'
  <2>1. /\ UNCHANGED l2Queue
        /\ \/ UNCHANGED bboQueue
           \/ bboQueue' = [bboQueue EXCEPT ![s] = NewQueue]
           \/ bboQueue' = [bboQueue EXCEPT ![s] = EndBootstrap(@)]
           \/ bboQueue' = [bboQueue EXCEPT ![s] = Drained(@)]
    BY <1>5 DEF BboStep, BboSubscribe, BboWriteInitial, BboDrain, BboWrite,
                BboLeave, l2Vars
  <2>2. /\ EndBootstrap(bboQueue[s]).items = bboQueue[s].items
        /\ Len(Drained(bboQueue[s]).items) = 0
    BY DEF EndBootstrap, Drained, TypeOK, BboTypeOK, Queue
  <2>3. \A x \in BboSub : \/ bboQueue'[x].items = bboQueue[x].items
                          \/ Len(bboQueue'[x].items) = 0
    BY <1>0, <2>1, <2>2 DEF TypeOK, BboTypeOK
  <2>4. QED
    BY <1>0, <2>1, <2>3 DEF QueuesAreBounded, Ceiling
<1>6. CASE UNCHANGED vars
  BY <1>6 DEF vars, l2Vars, bboVars, QueuesAreBounded
<1>7. QED
  BY <1>2, <1>3, <1>4, <1>5, <1>6 DEF Next

\* A stalled subscriber holds at most the bootstrap capacity, whatever the
\* capacities and on both streams (SubscriberQueue::push_or_close).
THEOREM QueuesStayBounded == Spec => []QueuesAreBounded
<1>1. Init => QueuesAreBounded
  <2>1. Ceiling \in Nat /\ Len(NewQueue.items) = 0
    BY CapacityAssumption DEF Ceiling, NewQueue
  <2>2. QED
    BY <2>1 DEF Init, QueuesAreBounded, Ceiling
<1>2. QED
  BY <1>1, BoundedStep, TypeCorrect, PTL DEF Spec

-----------------------------------------------------------------------------
(* The aggregate is the sum of the venues.                                 *)

LEMMA VenueOrderIs ==
  /\ Cardinality(Venue) \in Nat
  /\ VenueOrder \in [1 .. Cardinality(Venue) -> Venue]
  /\ \A v \in Venue : \E j \in 1 .. Cardinality(Venue) :
       /\ VenueOrder[j] = v
       /\ \A i \in 1 .. Cardinality(Venue) : i # j => VenueOrder[i] # v
<1>1. /\ Cardinality(Venue) \in Nat
      /\ Bijection(1 .. Cardinality(Venue), Venue) # {}
  BY VenueAssumption, FS_CardinalityType DEF ExistsBijection
<1>2. VenueOrder \in Bijection(1 .. Cardinality(Venue), Venue)
  BY <1>1 DEF VenueOrder
<1> QED
  BY <1>1, <1>2 DEF Bijection, Injection, Surjection, IsInjective

IsSum(b) == \A l \in Level : b.aggregate[l] = Contributed(b, l)
SumsUp(b) == IsSum(b) /\ \A v \in Venue \ b.live : b.venues[v] = NoLevels

\* What an operation of AggregateOrderBook does to a book that sums up.
KeepsSum(b, r) ==
  SumsUp(r.book) /\ (r.changes # NoChanges => r.book.aggregate # b.aggregate)

\* adjust_aggregate() never meets a sum below zero: the level it would then
\* drop is one that no venue holds.
LEMMA SetVenueSums ==
  ASSUME NEW b \in Books, IsSum(b), NEW v \in Venue, NEW new \in Levels
  PROVE  LET r == SetVenue(b, v, new)
         IN  /\ IsSum(r.book)
             /\ r.changes # NoChanges => r.book.aggregate # b.aggregate
             /\ r.book.live = b.live
             /\ r.book.venues = [b.venues EXCEPT ![v] = new]
<1> DEFINE N == Cardinality(Venue)
           changed == {l \in Level : new[l] # b.venues[v][l]}
           aggregate ==
             [l \in Level |->
                IF l \in changed
                  THEN AdjustAggregate(b.aggregate[l], new[l] - b.venues[v][l])
                  ELSE b.aggregate[l]]
           changes ==
             [l \in Level |-> IF l \in changed THEN aggregate[l] ELSE Same]
           next == [b EXCEPT !.venues[v] = new, !.aggregate = aggregate]
           Held(x, l) == [i \in 1 .. N |-> x.venues[VenueOrder[i]][l]]
<1>1. SetVenue(b, v, new) = [book |-> next, changes |-> changes]
  BY Zenon DEF SetVenue
<1>2. /\ next.venues = [b.venues EXCEPT ![v] = new]
      /\ next.aggregate = aggregate /\ next.live = b.live
  BY DEF Books
<1>3. PICK j \in 1 .. N :
         VenueOrder[j] = v /\ \A i \in 1 .. N : i # j => VenueOrder[i] # v
  BY VenueOrderIs
<1>4. ASSUME NEW l \in Level
      PROVE  /\ aggregate[l] = Contributed(next, l)
             /\ aggregate[l] = b.aggregate[l] + (new[l] - b.venues[v][l])
             /\ b.aggregate[l] \in Nat /\ new[l] \in Nat /\ b.venues[v][l] \in Nat
  <2>1. N \in Nat /\ VenueOrder \in [1 .. N -> Venue]
    BY VenueOrderIs
  <2>2. /\ b.aggregate[l] \in Nat /\ new[l] \in Nat
        /\ \A w \in Venue : b.venues[w] \in Levels /\ b.venues[w][l] \in Nat
    BY DEF Books, Levels
  <2>3. \A w \in Venue : next.venues[w] = IF w = v THEN new ELSE b.venues[w]
    BY <1>2 DEF Books
  <2> HIDE DEF next, N
  <2>4. Held(b, l) \in [1 .. N -> Nat] /\ Held(next, l) \in [1 .. N -> Nat]
    BY <2>1, <2>2, <2>3
  <2>5. \A i \in 1 .. N : i # j => Held(next, l)[i] = Held(b, l)[i]
    BY <1>3, <2>1, <2>3
  <2>6. Held(next, l)[j] = new[l] /\ Held(b, l)[j] = b.venues[v][l]
    BY <1>3, <2>1, <2>3
  <2>7. /\ Contributed(next, l) = SumOf(Held(next, l), N)
        /\ Contributed(b, l) = SumOf(Held(b, l), N)
    BY DEF Contributed, N
  <2>8. Held(b, l) \in [1 .. N -> Int] /\ Held(next, l) \in [1 .. N -> Int]
    BY <2>4
  <2> HIDE DEF Held
  <2>9. SumOf(Held(next, l), N)
          = SumOf(Held(b, l), N) + (Held(next, l)[j] - Held(b, l)[j])
    BY <2>1, <2>5, <2>8, SumOfChange
  <2>10. SumOf(Held(next, l), N) \in Nat
    BY <2>1, <2>4, SumOfNats
  <2>11. b.aggregate[l] = SumOf(Held(b, l), N)
    BY <2>7 DEF IsSum
  <2>12. b.aggregate[l] + (new[l] - b.venues[v][l]) = SumOf(Held(next, l), N)
    BY <2>6, <2>9, <2>11
  <2>13. aggregate[l] = b.aggregate[l] + (new[l] - b.venues[v][l])
    BY <2>2, <2>10, <2>12 DEF AdjustAggregate
  <2> QED BY <2>2, <2>7, <2>12, <2>13
<1>5. changes # NoChanges => aggregate # b.aggregate
  <2> SUFFICES ASSUME changes # NoChanges PROVE aggregate # b.aggregate
    OBVIOUS
  <2>1. PICK l \in Level : l \in changed
    <3> SUFFICES ASSUME \A l \in Level : l \notin changed PROVE FALSE
      OBVIOUS
    <3> HIDE DEF changed, aggregate
    <3> QED BY Zenon DEF NoChanges
  <2>2. new[l] # b.venues[v][l]
    BY <2>1
  <2> HIDE DEF aggregate
  <2> QED BY <1>4, <2>2
<1> HIDE DEF next, aggregate, changes
<1>6. IsSum(next)
  BY <1>2, <1>4 DEF IsSum
<1> QED BY <1>1, <1>2, <1>5, <1>6

\* Marking a venue live, or dropping one that holds nothing, moves no level.
LEMMA SetLiveSums ==
  ASSUME NEW b \in Books, NEW r, IsResult(b, r), IsSum(r.book),
         r = [book |-> r.book, changes |-> r.changes],
         r.changes # NoChanges => r.book.aggregate # b.aggregate,
         NEW live, \A v \in Venue \ live : r.book.venues[v] = NoLevels
  PROVE  KeepsSum(b, [r EXCEPT !.book.live = live])
<1> DEFINE nb == [r.book EXCEPT !.live = live]
<1>1. /\ nb.aggregate = r.book.aggregate /\ nb.venues = r.book.venues
      /\ nb.live = live
  BY DEF IsResult, Books
<1>2. [r EXCEPT !.book.live = live] = [book |-> nb, changes |-> r.changes]
  OBVIOUS
<1> HIDE DEF nb
<1>3. IsSum(nb)
  BY <1>1 DEF IsSum, Contributed
<1> QED BY <1>1, <1>2, <1>3 DEF KeepsSum, SumsUp

LEMMA ApplySums ==
  ASSUME NEW b \in Books, SumsUp(b), NEW v \in Venue, NEW new \in Levels
  PROVE  KeepsSum(b, MakeLive(SetVenue(b, v, new), v))
<1> DEFINE r == SetVenue(b, v, new)
<1>1. IsResult(b, r) /\ r = [book |-> r.book, changes |-> r.changes]
  BY SetVenueResult DEF SetVenue
<1>2. /\ IsSum(r.book) /\ r.book.live = b.live
      /\ r.changes # NoChanges => r.book.aggregate # b.aggregate
      /\ r.book.venues = [b.venues EXCEPT ![v] = new]
  BY SetVenueSums DEF SumsUp
<1>3. MakeLive(r, v) = [r EXCEPT !.book.live = r.book.live \cup {v}]
  BY DEF MakeLive
<1> HIDE DEF r
<1>4. \A w \in Venue \ (r.book.live \cup {v}) : r.book.venues[w] = NoLevels
  BY <1>2 DEF SumsUp, Books
<1> DEFINE live == r.book.live \cup {v}
<1>5. KeepsSum(b, [r EXCEPT !.book.live = live])
  <2> HIDE DEF live
  <2>1. \A w \in Venue \ live : r.book.venues[w] = NoLevels
    BY <1>4 DEF live
  <2> QED BY <1>1, <1>2, <2>1, SetLiveSums
<1> QED BY <1>3, <1>5 DEF r

LEMMA InvalidateSums ==
  ASSUME NEW b \in Books, SumsUp(b), NEW v \in Venue
  PROVE  KeepsSum(b, BookInvalidateVenue(b, v))
<1>1. CASE v \notin b.live
  BY <1>1 DEF BookInvalidateVenue, KeepsSum
<1>2. CASE v \in b.live
  <2> DEFINE r == SetVenue(b, v, NoLevels)
  <2>1. IsResult(b, r) /\ r = [book |-> r.book, changes |-> r.changes]
    BY EmptyType, SetVenueResult DEF SetVenue
  <2>2. /\ IsSum(r.book) /\ r.book.live = b.live
        /\ r.changes # NoChanges => r.book.aggregate # b.aggregate
        /\ r.book.venues = [b.venues EXCEPT ![v] = NoLevels]
    BY EmptyType, SetVenueSums DEF SumsUp
  <2>3. BookInvalidateVenue(b, v) = [r EXCEPT !.book.live = r.book.live \ {v}]
    BY <1>2 DEF BookInvalidateVenue
  <2> HIDE DEF r
  <2>4. \A w \in Venue \ (r.book.live \ {v}) : r.book.venues[w] = NoLevels
    BY <2>2 DEF SumsUp, Books
  <2> DEFINE live == r.book.live \ {v}
  <2>5. KeepsSum(b, [r EXCEPT !.book.live = live])
    <3> HIDE DEF live
    <3>1. \A w \in Venue \ live : r.book.venues[w] = NoLevels
      BY <2>4 DEF live
    <3> QED BY <2>1, <2>2, <3>1, SetLiveSums
  <2> QED BY <2>3, <2>5
<1> QED BY <1>1, <1>2

LEMMA IngestSums ==
  ASSUME TypeOK, SumsUp(book), Ingest
  PROVE  \E r : IsResult(book, r) /\ KeepsSum(book, r) /\ Publish(r)
<1>0. book \in Books /\ \A v \in Venue : book.venues[v] \in Levels
  BY DEF TypeOK, BookTypeOK, Books
<1>1. ASSUME NEW v \in Venue, NEW levels \in VenueLevels,
             ApplySnapshot(v, levels)
      PROVE  \E r : IsResult(book, r) /\ KeepsSum(book, r) /\ Publish(r)
  <2> DEFINE r == BookApplySnapshot(book, v, levels)
  <2>1. levels \in Changes /\ Publish(r)
    BY <1>1, ValidIsChanges DEF ApplySnapshot
  <2>2. IsResult(book, r)
    BY <1>0, <2>1, SnapshotResult
  <2>3. KeepsSum(book, r)
    BY <1>0, <2>1, EmptyType, OverlayType, ApplySums DEF BookApplySnapshot
  <2> QED BY <2>1, <2>2, <2>3
<1>2. ASSUME NEW v \in Venue, NEW levels \in VenueLevels, ApplyBatch(v, levels)
      PROVE  \E r : IsResult(book, r) /\ KeepsSum(book, r) /\ Publish(r)
  <2> DEFINE r == BookApplyBatch(book, v, levels)
  <2>1. levels \in Changes /\ Publish(r)
    BY <1>2, ValidIsChanges DEF ApplyBatch
  <2>2. IsResult(book, r)
    BY <1>0, <2>1, BatchResult
  <2>3. KeepsSum(book, r)
    BY <1>0, <2>1, OverlayType, ApplySums DEF BookApplyBatch
  <2> QED BY <2>1, <2>2, <2>3
<1>3. ASSUME NEW v \in Venue, InvalidateVenue(v)
      PROVE  \E r : IsResult(book, r) /\ KeepsSum(book, r) /\ Publish(r)
  BY <1>0, <1>3, InvalidateResult, InvalidateSums DEF InvalidateVenue
<1> QED BY <1>1, <1>2, <1>3 DEF Ingest

\* A revision once published, and its difference from the one before, stays.
LEMMA SumStep ==
  ASSUME TypeOK, AggregateIsSum, [Next]_vars
  PROVE  AggregateIsSum'
<1>0. /\ seq \in Nat /\ log \in [0 .. seq -> Levels] /\ SumsUp(book)
      /\ book.aggregate \in Levels
  BY DEF TypeOK, BookTypeOK, Books, AggregateIsSum, SumsUp, IsSum
<1>1. ASSUME UNCHANGED << book, seq, log >> PROVE AggregateIsSum'
  BY <1>1 DEF AggregateIsSum, Contributed
<1>2. CASE Ingest
  <2>1. PICK r : IsResult(book, r) /\ KeepsSum(book, r) /\ Publish(r)
    BY <1>0, <1>2, IngestSums
  <2>2. book' = r.book /\ SumsUp(book')
    BY <2>1 DEF Publish, KeepsSum
  <2>3. /\ \A l \in Level : book'.aggregate[l] = Contributed(book', l)
        /\ \A v \in Venue \ book'.live : book'.venues[v] = NoLevels
    BY <2>2 DEF SumsUp, IsSum
  <2>4. CASE r.changes = NoChanges
    <3>1. UNCHANGED << seq, log >> /\ book'.aggregate = book.aggregate
      BY <1>0, <2>1, <2>4, OverlayNothing DEF Publish, IsResult
    <3> QED BY <2>3, <3>1 DEF AggregateIsSum
  <2>5. CASE r.changes # NoChanges
    <3>1. /\ seq' = seq + 1
          /\ log' = [n \in 0 .. seq + 1 |->
                       IF n <= seq THEN log[n] ELSE r.book.aggregate]
          /\ r.book.aggregate # book.aggregate
      BY <2>1, <2>5 DEF Publish, KeepsSum
    <3>2. /\ log'[seq + 1] = book'.aggregate
          /\ \A n \in 0 .. seq : log'[n] = log[n]
      BY <1>0, <2>2, <3>1
    <3>3. ASSUME NEW n \in 1 .. seq' PROVE log'[n] # log'[n - 1]
      <4>1. CASE n = seq + 1
        BY <1>0, <2>2, <3>1, <3>2, <4>1 DEF AggregateIsSum
      <4>2. CASE n # seq + 1
        <5>1. n \in 1 .. seq /\ n \in 0 .. seq /\ n - 1 \in 0 .. seq
          BY <1>0, <3>1, <4>2
        <5> QED BY <3>2, <5>1 DEF AggregateIsSum
      <4> QED BY <4>1, <4>2
    <3> QED BY <2>3, <3>1, <3>2, <3>3 DEF AggregateIsSum
  <2> QED BY <2>4, <2>5
<1>3. CASE SendHeartbeat
  BY <1>1, <1>3 DEF SendHeartbeat
<1>4. ASSUME NEW s \in L2Sub, L2Step(s) PROVE AggregateIsSum'
  BY <1>1, <1>4 DEF L2Step, L2Subscribe, L2WriteInitial, L2Drain, L2Exhausted,
                    L2Write, L2Leave, L2End, bookVars
<1>5. ASSUME NEW s \in BboSub, BboStep(s) PROVE AggregateIsSum'
  BY <1>1, <1>5 DEF BboStep, BboSubscribe, BboWriteInitial, BboDrain, BboWrite,
                    BboLeave, bookVars
<1>6. CASE UNCHANGED vars
  BY <1>1, <1>6 DEF vars, bookVars
<1> QED BY <1>2, <1>3, <1>4, <1>5, <1>6 DEF Next

LEMMA SumInit == Init => AggregateIsSum
<1> SUFFICES ASSUME Init PROVE AggregateIsSum
  OBVIOUS
<1>1. ASSUME NEW l \in Level PROVE Contributed(EmptyBook, l) = 0
  <2> DEFINE N == Cardinality(Venue)
             held == [i \in 1 .. N |-> EmptyBook.venues[VenueOrder[i]][l]]
  <2>1. N \in Nat /\ VenueOrder \in [1 .. N -> Venue]
    BY VenueOrderIs
  <2> HIDE DEF N
  <2>2. held \in [1 .. N -> {0}]
    BY <2>1 DEF EmptyBook, NoLevels
  <2>3. Contributed(EmptyBook, l) = SumOf(held, N)
    BY DEF Contributed, N
  <2> HIDE DEF held
  <2> QED BY <2>1, <2>2, <2>3, SumOfZeros
<1>2. /\ book = EmptyBook /\ book.aggregate = NoLevels /\ seq = 0
      /\ \A v \in Venue : book.venues[v] = NoLevels
      /\ log[0] = NoLevels /\ 1 .. seq = {}
      /\ \A l \in Level : book.aggregate[l] = 0
  BY DEF Init, EmptyBook, NoLevels
<1>3. \A l \in Level : book.aggregate[l] = Contributed(book, l)
  BY <1>1, <1>2
<1> QED BY <1>2, <1>3 DEF AggregateIsSum

\* Whatever snapshots, batches and invalidations the venues interleave, the
\* running aggregate is exactly their sum, a venue that is not live holds
\* nothing, and every revision differs from the one before it
\* (AggregateOrderBook, SymbolBook::publish).
THEOREM AggregatesAreSums == Spec => []AggregateIsSum
<1>1. StreamInv /\ AggregateIsSum /\ [Next]_vars => AggregateIsSum'
  BY SumStep DEF StreamInv
<1> QED BY <1>1, SumInit, StreamInit, StreamStep, PTL DEF Spec

-----------------------------------------------------------------------------
(* A client is told that no venue backs its book only when it is empty.    *)

\* A heartbeat without live venues was sent at a revision that is empty.
AreHonest(items, h) ==
  \A i \in 1 .. Len(items) :
    items[i].kind = "heartbeat" /\ items[i].live = {} =>
      h[items[i].seq] = NoLevels

UnbackedInv ==
  \A s \in L2Sub :
    /\ AreHonest(l2Batch[s], log) /\ AreHonest(l2Queue[s].items, log)
    /\ replica[s].unbacked => replica[s].levels = NoLevels

\* Without a live venue there is nothing in the aggregate.
LEMMA UnbackedIsEmpty ==
  ASSUME TypeOK, AggregateIsSum, book.live = {}
  PROVE  log[seq] = NoLevels
<1>1. ASSUME NEW l \in Level PROVE book.aggregate[l] = 0
  <2> DEFINE N == Cardinality(Venue)
             held == [i \in 1 .. N |-> book.venues[VenueOrder[i]][l]]
  <2>1. N \in Nat /\ VenueOrder \in [1 .. N -> Venue]
    BY VenueOrderIs
  <2> HIDE DEF N
  <2>2. \A v \in Venue : book.venues[v][l] = 0
    BY DEF AggregateIsSum, NoLevels
  <2>3. held \in [1 .. N -> {0}]
    BY <2>1, <2>2
  <2>4. Contributed(book, l) = SumOf(held, N)
    BY DEF Contributed, N
  <2> HIDE DEF held
  <2>5. Contributed(book, l) = 0
    BY <2>1, <2>3, <2>4, SumOfZeros
  <2> QED BY <2>5 DEF AggregateIsSum
<1>2. book.aggregate \in [Level -> Nat]
  BY DEF TypeOK, BookTypeOK, Books, Levels
<1> QED BY <1>1, <1>2 DEF AggregateIsSum, NoLevels

\* What a push leaves in the queue is the new message or was there before.
LEMMA PushItems ==
  ASSUME NEW q \in Queue(L2Msg), NEW m \in L2Msg,
         NEW i \in 1 .. Len(PushOrClose(q, m).items)
  PROVE  \/ PushOrClose(q, m).items[i] = m
         \/ \E j \in 1 .. Len(q.items) : PushOrClose(q, m).items[i] = q.items[j]
<1> DEFINE p == PushOrClose(q, m)
<1>1. q.items \in Seq(L2Msg)
  BY DEF Queue
<1>2. p.items \in {q.items, << >>, Append(q.items, m)}
  BY DEF PushOrClose, Queue
<1>3. CASE p.items = q.items
  BY <1>3
<1>4. CASE p.items = << >>
  BY <1>4
<1>5. CASE p.items = Append(q.items, m)
  <2>1. /\ Len(p.items) = Len(q.items) + 1 /\ Len(q.items) \in Nat
        /\ p.items[Len(q.items) + 1] = m
        /\ \A j \in 1 .. Len(q.items) : p.items[j] = q.items[j]
    BY <1>1, <1>5, AppendProperties
  <2> QED BY <2>1
<1> QED BY <1>2, <1>3, <1>4, <1>5

\* A broadcast of an honest message, with the revisions that were there kept.
LEMMA HonestBroadcast ==
  ASSUME StreamInv, UnbackedInv, NEW m \in L2Msg, BroadcastL2(m),
         UNCHANGED << l2Batch, replica >>,
         \A k \in 0 .. seq : log'[k] = log[k],
         m.kind = "heartbeat" /\ m.live = {} => log'[m.seq] = NoLevels
  PROVE  UnbackedInv'
<1> SUFFICES ASSUME NEW s \in L2Sub
             PROVE  /\ AreHonest(l2Batch[s], log)'
                    /\ AreHonest(l2Queue[s].items, log)'
  BY DEF UnbackedInv
<1>1. /\ AreExact(l2Batch[s], seq, log) /\ AreExact(l2Queue[s].items, seq, log)
      /\ AreHonest(l2Batch[s], log) /\ AreHonest(l2Queue[s].items, log)
      /\ l2Queue[s] \in Queue(L2Msg)
  BY DEF StreamInv, L2Inv, StreamOK, UnbackedInv, TypeOK, L2TypeOK
<1>2. AreHonest(l2Batch[s], log') /\ AreHonest(l2Queue[s].items, log')
  BY <1>1 DEF AreHonest, AreExact, IsExactDiff
<1>3. l2Queue'[s] = PushOrClose(l2Queue[s], m) \/ l2Queue'[s] = l2Queue[s]
  BY DEF BroadcastL2
<1>4. AreHonest(PushOrClose(l2Queue[s], m).items, log')
  BY <1>1, <1>2, PushItems DEF AreHonest
<1>5. AreHonest(l2Queue'[s].items, log')
  BY <1>2, <1>3, <1>4
<1> QED BY <1>2, <1>5

LEMMA UnbackedStep ==
  ASSUME StreamInv, AggregateIsSum, UnbackedInv, [Next]_vars
  PROVE  UnbackedInv'
<1>0. TypeOK /\ seq \in Nat /\ log \in [0 .. seq -> Levels]
  BY DEF StreamInv, TypeOK, BookTypeOK
<1>1. ASSUME UNCHANGED << l2Batch, l2Queue, replica, log >> PROVE UnbackedInv'
  BY <1>1 DEF UnbackedInv
<1>2. CASE Ingest
  <2>1. PICK r : IsResult(book, r) /\ Publish(r)
    BY <1>0, <1>2, IngestPublishes
  <2>2. CASE r.changes = NoChanges
    BY <1>1, <2>1, <2>2 DEF Publish
  <2>3. CASE r.changes # NoChanges
    <3> DEFINE m == Diff(seq + 1, r.changes)
    <3>1. /\ BroadcastL2(m) /\ UNCHANGED << l2Batch, replica >>
          /\ log' = [n \in 0 .. seq + 1 |->
                       IF n <= seq THEN log[n] ELSE r.book.aggregate]
      BY <2>1, <2>3 DEF Publish
    <3>2. \A k \in 0 .. seq : log'[k] = log[k]
      BY <1>0, <3>1
    <3>3. m \in L2Msg /\ m.kind # "heartbeat"
      BY <1>0, <2>1 DEF Diff, L2Msg, IsResult
    <3> HIDE DEF m
    <3> QED BY <3>1, <3>2, <3>3, HonestBroadcast
  <2> QED BY <2>2, <2>3
<1>3. CASE SendHeartbeat
  <2> DEFINE m == Heartbeat(seq, book.live)
  <2>1. BroadcastL2(m) /\ UNCHANGED << l2Batch, replica, log >>
    BY <1>3 DEF SendHeartbeat
  <2>2. m \in L2Msg /\ m.seq = seq /\ m.live = book.live
    BY <1>0, HeartbeatType DEF TypeOK, Heartbeat
  <2>3. book.live = {} => log[seq] = NoLevels
    BY <1>0, UnbackedIsEmpty
  <2> HIDE DEF m
  <2> QED BY <2>1, <2>2, <2>3, HonestBroadcast
<1>4. ASSUME NEW s \in L2Sub, L2Step(s) PROVE UnbackedInv'
  <2>1. /\ log' = log
        /\ \A x \in L2Sub \ {s} :
             /\ l2Queue'[x] = l2Queue[x] /\ l2Batch'[x] = l2Batch[x]
             /\ replica'[x] = replica[x]
    BY <1>0, <1>4 DEF L2Step, L2Subscribe, L2WriteInitial, L2Drain,
         L2Exhausted, L2Write, L2Leave, L2End, TypeOK, L2TypeOK, bookVars
  <2> SUFFICES /\ AreHonest(l2Batch'[s], log) /\ AreHonest(l2Queue'[s].items, log)
               /\ replica'[s].unbacked => replica'[s].levels = NoLevels
    BY <2>1 DEF UnbackedInv
  <2>2. /\ AreHonest(l2Batch[s], log) /\ AreHonest(l2Queue[s].items, log)
        /\ replica[s].unbacked => replica[s].levels = NoLevels
        /\ AreHonest(<< >>, log)
    BY DEF UnbackedInv, AreHonest
  <2>3. CASE L2Subscribe(s)
    BY <1>0, <2>2, <2>3
       DEF L2Subscribe, NewQueue, NoReplica, TypeOK, L2TypeOK
  <2>4. CASE L2WriteInitial(s)
    <3>1. /\ l2Batch'[s] = l2Batch[s]
          /\ l2Queue'[s] = EndBootstrap(l2Queue[s])
          /\ replica'[s] = ApplyToReplica(replica[s], l2Initial[s])
          /\ l2Queue[s] \in Queue(L2Msg) /\ replica[s] \in Replicas
          /\ l2Initial[s] \in SnapshotMsg /\ ~replica[s].gap
      BY <1>0, <2>4 DEF L2WriteInitial, TypeOK, L2TypeOK, StreamInv, L2Inv
    <3>2. l2Queue'[s].items = l2Queue[s].items
      BY <3>1 DEF EndBootstrap, Queue
    <3>3. ~replica'[s].unbacked
      BY <3>1 DEF ApplyToReplica, SnapshotMsg, Replicas
    <3> QED BY <2>2, <3>1, <3>2, <3>3
  <2>5. CASE L2Drain(s)
    BY <1>0, <2>2, <2>5 DEF L2Drain, Drained, TypeOK, L2TypeOK, Queue
  <2>6. CASE L2Write(s)
    <3> DEFINE m == Head(l2Batch[s])
               c == replica[s]
    <3>1. /\ l2Batch[s] # << >> /\ l2Batch[s] \in Seq(L2Msg) /\ c \in Replicas
          /\ l2Pc[s] = "writing" /\ ~c.gap /\ StreamOK(s) /\ HandlerOK(s)
          /\ ReplicaOK(s)
      BY <1>0, <2>6 DEF L2Write, StreamInv, L2Inv, BatchWhileWriting, TypeOK,
                        L2TypeOK
    <3>2. /\ replica'[s] = ApplyToReplica(c, m) /\ l2Queue' = l2Queue
          /\ l2Batch'[s] = Tail(l2Batch[s])
      BY <1>0, <2>6 DEF L2Write, TypeOK, L2TypeOK
    <3>3. /\ Len(l2Batch[s]) \in Nat \ {0} /\ m = l2Batch[s][1] /\ m \in L2Msg
          /\ Len(Tail(l2Batch[s])) = Len(l2Batch[s]) - 1
          /\ \A i \in 1 .. Len(Tail(l2Batch[s])) :
               Tail(l2Batch[s])[i] = l2Batch[s][i + 1]
      BY <3>1, HeadTailProperties, HeadTailType
    <3>4. AreHonest(Tail(l2Batch[s]), log)
      BY <2>2, <3>3 DEF AreHonest
    <3>5. /\ c.attached /\ c.levels = log[c.seq]
          /\ m.kind = "heartbeat" => m.seq = c.seq
      BY <3>1, <3>3 DEF HandlerOK, Serving, Base, ReplicaOK, StreamOK, IsChain,
                        Follows
    <3>6. m.kind = "heartbeat" /\ m.live = {} => log[m.seq] = NoLevels
      BY <2>2, <3>3 DEF AreHonest
    <3> HIDE DEF m, c
    <3>7. ApplyToReplica(c, m).unbacked
            => ApplyToReplica(c, m).levels = NoLevels
      <4>1. CASE m.kind = "diff"
        <5>1. m.seq = c.seq + 1
          BY <3>1, <3>3, <4>1 DEF StreamOK, IsChain, Follows, Serving, Base, c
        <5> QED BY <3>1, <4>1, <5>1 DEF ApplyToReplica, IsBookSeqGap, Replicas
      <4>2. CASE m.kind = "heartbeat"
        BY <3>1, <3>5, <3>6, <4>2 DEF ApplyToReplica, Replicas
      <4> QED BY <3>3, <4>1, <4>2, MsgSeq
    <3> QED BY <2>2, <3>2, <3>4, <3>7
  <2>7. ASSUME NEW p, L2End(s, p)
        PROVE  /\ AreHonest(l2Batch'[s], log) /\ AreHonest(l2Queue'[s].items, log)
               /\ replica'[s].unbacked => replica'[s].levels = NoLevels
    BY <1>0, <2>2, <2>7 DEF L2End, NewQueue, TypeOK, L2TypeOK
  <2> QED BY <1>4, <2>3, <2>4, <2>5, <2>6, <2>7 DEF L2Step, L2Exhausted, L2Leave
<1>5. ASSUME NEW s \in BboSub, BboStep(s) PROVE UnbackedInv'
  BY <1>1, <1>5 DEF BboStep, BboSubscribe, BboWriteInitial, BboDrain, BboWrite,
                    BboLeave, bookVars, l2Vars
<1>6. CASE UNCHANGED vars
  BY <1>1, <1>6 DEF vars, bookVars, l2Vars
<1> QED BY <1>2, <1>3, <1>4, <1>5, <1>6 DEF Next

\* A client that is told that no venue backs its book has an empty book, also
\* if the heartbeat waited in its queue between diffs (send_heartbeat,
\* publish_l2_bands).
THEOREM UnbackedReplicasAreEmpty == Spec => []UnbackedReplicaIsEmpty
<1>1. Init => UnbackedInv
  BY DEF Init, UnbackedInv, AreHonest, NewQueue, NoReplica
<1>2. UnbackedInv => UnbackedReplicaIsEmpty
  BY DEF UnbackedInv, UnbackedReplicaIsEmpty
<1>3. StreamInv /\ AggregateIsSum /\ UnbackedInv /\ [Next]_vars => UnbackedInv'
  BY UnbackedStep
<1> QED
  BY <1>1, <1>2, <1>3, StreamInit, StreamStep, AggregatesAreSums, PTL DEF Spec
=============================================================================
