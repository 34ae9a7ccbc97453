----------------------------- MODULE SymbolBook -----------------------------
(***************************************************************************)
(* One symbol's book and its two streams, apps/aggregator/                 *)
(* aggregator_service.hpp (SymbolBook, Fanout, and the handler threads of  *)
(* SubscribeL2Diff and SubscribeBbo), with the replica a client keeps of   *)
(* each stream (client_main.cpp, client_book.hpp).                         *)
(*                                                                         *)
(* An operation that runs under SymbolBook::mutex_ is one action; so is    *)
(* one Write() of a handler thread, which takes no lock.  gRPC delivers    *)
(* what was written, in order: the client's state changes when the server  *)
(* writes.  Ingestion is the environment: venues apply snapshots and       *)
(* batches and are invalidated in any order.                               *)
(***************************************************************************)
EXTENDS AggregateOrderBook, SubscriberQueue, Sums, Functions

CONSTANTS
  L2Sub,      \* clients of SubscribeL2Diff
  BboSub,     \* clients of SubscribeBbo
  MaxSize,    \* bound: largest size of a level
  MaxSeq,     \* bound: number of revisions
  MaxBeats    \* bound: number of heartbeats

ASSUME BoundsAssumption ==
  /\ MaxSize \in Nat
  /\ MaxSeq \in Nat
  /\ MaxBeats \in Nat

VARIABLES
  book,       \* book_
  seq,        \* seq_
  lastBbo,    \* last_bbo_bid_, last_bbo_ask_
  log,        \* history: the aggregate at each revision 0 .. seq
  beats,      \* heartbeats sent so far
  l2Subs,     \* l2_fanout_.subscribers_
  l2Queue,    \* each subscriber's SubscriberQueue
  l2Pc,       \* where each SubscribeL2Diff handler is
  l2Initial,  \* the snapshot captured by subscribe_impl
  l2Batch,    \* what wait_and_drain handed over and is not yet written
  replica,    \* each client's local book
  bboSubs, bboQueue, bboPc, bboInitial, bboBatch,  \* the same for Bbo
  top         \* each client's last Bbo

bookVars == << book, seq, lastBbo, log, beats >>
l2Vars == << l2Subs, l2Queue, l2Pc, l2Initial, l2Batch, replica >>
bboVars == << bboSubs, bboQueue, bboPc, bboInitial, bboBatch, top >>
vars == << bookVars, l2Vars, bboVars >>

-----------------------------------------------------------------------------
(* Messages.  A heartbeat carries no book_seq on the wire: its seq field   *)
(* is the revision it was queued at, for the properties only.              *)

\* Seeded fault: a snapshot numbered as the next revision.
SnapshotOfNext(n, levels) ==
  [kind |-> "snapshot", seq |-> n + 1, levels |-> levels]

\* Seeded fault: a Bbo built before seq_ advances.
BboOfPrevious(n, best) ==
  [kind |-> "bbo", seq |-> IF n = 0 THEN 0 ELSE n - 1, best |-> best]

Snapshot(n, levels) == [kind |-> "snapshot", seq |-> n, levels |-> levels]
Diff(n, levels) == [kind |-> "diff", seq |-> n, levels |-> levels]
Bbo(n, best) == [kind |-> "bbo", seq |-> n, best |-> best]
Heartbeat(n, live) == [kind |-> "heartbeat", seq |-> n, live |-> live]

\* Levels of one message of a venue: any set of levels, any sizes, a
\* negative one (below Same) included.
VenueLevels == [Level -> -2 .. MaxSize]

-----------------------------------------------------------------------------
(* Clients.                                                                *)

NoReplica ==
  [attached |-> FALSE, seq |-> 0, levels |-> NoLevels,
   gap |-> FALSE, unbacked |-> FALSE]

\* is_book_seq_gap: a client without a snapshot has nothing to compare with.
IsBookSeqGap(c, n) == c.attached /\ n # c.seq + 1

\* The read loop of publish_l2_bands for one message; it stops at a gap.
\* unbacked: the latest message was a heartbeat without a live venue.
ApplyToReplica(c, m) ==
  CASE c.gap -> c
    [] ~c.gap /\ m.kind = "snapshot" ->
         [c EXCEPT !.attached = TRUE, !.seq = m.seq, !.levels = m.levels,
                   !.unbacked = FALSE]
    [] ~c.gap /\ m.kind = "diff" ->
         IF IsBookSeqGap(c, m.seq)
           THEN [c EXCEPT !.gap = TRUE]
           ELSE [c EXCEPT !.seq = m.seq, !.levels = Overlay(@, m.levels),
                          !.unbacked = FALSE]
    [] ~c.gap /\ m.kind = "heartbeat" ->
         [c EXCEPT !.unbacked = (m.live = {})]

NoTop == [attached |-> FALSE, seq |-> 0, best |-> Best(NoLevels)]

\* The read loop of publish_bbo for one message.
ApplyToTop(c, m) ==
  IF m.kind = "bbo"
    THEN [attached |-> TRUE, seq |-> m.seq, best |-> m.best]
    ELSE c

-----------------------------------------------------------------------------
(* Ingestion: SymbolBook's mutators, under mutex_.                         *)

\* Seeded fault: a queue is registered only after the initial Write().
BroadcastAfterBootstrap(m) ==
  l2Queue' = [s \in L2Sub |->
                IF s \in l2Subs /\ ~l2Queue[s].bootstrapping
                  THEN PushOrClose(l2Queue[s], m) ELSE l2Queue[s]]

\* Fanout::broadcast.
BroadcastL2(m) ==
  l2Queue' = [s \in L2Sub |->
                IF s \in l2Subs THEN PushOrClose(l2Queue[s], m)
                                ELSE l2Queue[s]]

BroadcastBbo(m) ==
  bboQueue' = [s \in BboSub |->
                 IF s \in bboSubs THEN PushDropOldest(bboQueue[s], m)
                                  ELSE bboQueue[s]]

\* publish(): nothing when no level moved; otherwise one revision, one diff
\* to every L2 subscriber, and a Bbo when the top of book moved.
Publish(r) ==
  /\ book' = r.book
  /\ IF r.changes = NoChanges
       THEN UNCHANGED << seq, log, lastBbo, l2Queue, bboQueue >>
       ELSE /\ seq < MaxSeq
            /\ seq' = seq + 1
            /\ log' = [n \in 0 .. seq + 1 |->
                         IF n <= seq THEN log[n] ELSE r.book.aggregate]
            /\ BroadcastL2(Diff(seq + 1, r.changes))
            /\ lastBbo' = Best(r.book.aggregate)
            /\ IF Best(r.book.aggregate) # lastBbo
                 THEN BroadcastBbo(Bbo(seq + 1, Best(r.book.aggregate)))
                 ELSE UNCHANGED bboQueue
  /\ UNCHANGED << beats, l2Subs, l2Pc, l2Initial, l2Batch, replica,
                  bboSubs, bboPc, bboInitial, bboBatch, top >>

ApplySnapshot(v, levels) ==
  /\ IsValid(levels)
  /\ Publish(BookApplySnapshot(book, v, levels))

ApplyBatch(v, levels) ==
  /\ IsValid(levels)
  /\ Publish(BookApplyBatch(book, v, levels))

InvalidateVenue(v) == Publish(BookInvalidateVenue(book, v))

\* send_heartbeat(): both streams, in one critical section.
SendHeartbeat ==
  /\ beats < MaxBeats
  /\ beats' = beats + 1
  /\ BroadcastL2(Heartbeat(seq, book.live))
  /\ BroadcastBbo(Heartbeat(seq, book.live))
  /\ UNCHANGED << book, seq, lastBbo, log, l2Subs, l2Pc, l2Initial, l2Batch,
                  replica, bboSubs, bboPc, bboInitial, bboBatch, top >>

-----------------------------------------------------------------------------
(* A SubscribeL2Diff handler thread.                                       *)

\* subscribe_impl, first critical section: capture and register.
L2Subscribe(s) ==
  /\ l2Pc[s] \in {"idle", "ended", "exhausted"}
  /\ l2Initial' = [l2Initial EXCEPT ![s] = Snapshot(seq, book.aggregate)]
  /\ l2Subs' = l2Subs \cup {s}
  /\ l2Queue' = [l2Queue EXCEPT ![s] = NewQueue]
  /\ l2Pc' = [l2Pc EXCEPT ![s] = "initial"]
  /\ replica' = [replica EXCEPT ![s] = NoReplica]
  /\ UNCHANGED << bookVars, l2Batch, bboVars >>

\* The initial Write() succeeded; the bootstrap window ends.
L2WriteInitial(s) ==
  /\ l2Pc[s] = "initial"
  /\ replica' = [replica EXCEPT ![s] = ApplyToReplica(@, l2Initial[s])]
  /\ l2Queue' = [l2Queue EXCEPT ![s] = EndBootstrap(@)]
  /\ l2Pc' = [l2Pc EXCEPT ![s] = "subscribed"]
  /\ UNCHANGED << bookVars, l2Subs, l2Initial, l2Batch, bboVars >>

\* Every way out of the handler unsubscribes the queue.
L2End(s, pc) ==
  /\ l2Subs' = l2Subs \ {s}
  /\ l2Queue' = [l2Queue EXCEPT ![s] = NewQueue]
  /\ l2Batch' = [l2Batch EXCEPT ![s] = << >>]
  /\ l2Pc' = [l2Pc EXCEPT ![s] = pc]
  /\ UNCHANGED << bookVars, l2Initial, replica, bboVars >>

\* wait_and_drain: the queue was closed, or it hands over all it holds.
L2Drain(s) ==
  /\ l2Pc[s] \in {"subscribed", "waiting"}
  /\ ~l2Queue[s].closed /\ l2Queue[s].items # << >>
  /\ l2Batch' = [l2Batch EXCEPT ![s] = l2Queue[s].items]
  /\ l2Queue' = [l2Queue EXCEPT ![s] = Drained(@)]
  /\ l2Pc' = [l2Pc EXCEPT ![s] = "writing"]
  /\ UNCHANGED << bookVars, l2Subs, l2Initial, replica, bboVars >>

L2Exhausted(s) ==
  /\ l2Pc[s] \in {"subscribed", "waiting"}
  /\ l2Queue[s].closed
  /\ L2End(s, "exhausted")

L2Write(s) ==
  /\ l2Pc[s] = "writing"
  /\ replica' = [replica EXCEPT ![s] = ApplyToReplica(@, Head(l2Batch[s]))]
  /\ l2Batch' = [l2Batch EXCEPT ![s] = Tail(@)]
  /\ l2Pc' = [l2Pc EXCEPT ![s] =
                IF Tail(l2Batch[s]) = << >> THEN "waiting" ELSE "writing"]
  /\ UNCHANGED << bookVars, l2Subs, l2Queue, l2Initial, bboVars >>

\* A Write() failed, or the call is found cancelled between two waits.
L2Leave(s) ==
  /\ \/ l2Pc[s] \in {"initial", "writing", "waiting"}
     \/ /\ l2Pc[s] = "subscribed"
        /\ l2Queue[s].items = << >> /\ ~l2Queue[s].closed
  /\ L2End(s, "ended")

-----------------------------------------------------------------------------
(* A SubscribeBbo handler thread.                                          *)

BboSubscribe(s) ==
  /\ bboPc[s] \in {"idle", "ended"}
  /\ bboInitial' = [bboInitial EXCEPT ![s] = Bbo(seq, Best(book.aggregate))]
  /\ bboSubs' = bboSubs \cup {s}
  /\ bboQueue' = [bboQueue EXCEPT ![s] = NewQueue]
  /\ bboPc' = [bboPc EXCEPT ![s] = "initial"]
  /\ top' = [top EXCEPT ![s] = NoTop]
  /\ UNCHANGED << bookVars, bboBatch, l2Vars >>

BboWriteInitial(s) ==
  /\ bboPc[s] = "initial"
  /\ top' = [top EXCEPT ![s] = ApplyToTop(@, bboInitial[s])]
  /\ bboQueue' = [bboQueue EXCEPT ![s] = EndBootstrap(@)]
  /\ bboPc' = [bboPc EXCEPT ![s] = "waiting"]
  /\ UNCHANGED << bookVars, bboSubs, bboInitial, bboBatch, l2Vars >>

BboDrain(s) ==
  /\ bboPc[s] = "waiting"
  /\ bboQueue[s].items # << >>
  /\ bboBatch' = [bboBatch EXCEPT ![s] = bboQueue[s].items]
  /\ bboQueue' = [bboQueue EXCEPT ![s] = Drained(@)]
  /\ bboPc' = [bboPc EXCEPT ![s] = "writing"]
  /\ UNCHANGED << bookVars, bboSubs, bboInitial, top, l2Vars >>

BboWrite(s) ==
  /\ bboPc[s] = "writing"
  /\ top' = [top EXCEPT ![s] = ApplyToTop(@, Head(bboBatch[s]))]
  /\ bboBatch' = [bboBatch EXCEPT ![s] = Tail(@)]
  /\ bboPc' = [bboPc EXCEPT ![s] =
                 IF Tail(bboBatch[s]) = << >> THEN "waiting" ELSE "writing"]
  /\ UNCHANGED << bookVars, bboSubs, bboQueue, bboInitial, l2Vars >>

BboLeave(s) ==
  /\ bboPc[s] \in {"initial", "writing", "waiting"}
  /\ bboSubs' = bboSubs \ {s}
  /\ bboQueue' = [bboQueue EXCEPT ![s] = NewQueue]
  /\ bboBatch' = [bboBatch EXCEPT ![s] = << >>]
  /\ bboPc' = [bboPc EXCEPT ![s] = "ended"]
  /\ UNCHANGED << bookVars, bboInitial, top, l2Vars >>

-----------------------------------------------------------------------------
Init ==
  /\ book = EmptyBook
  /\ seq = 0
  /\ lastBbo = Best(NoLevels)
  /\ log = [n \in 0 .. 0 |-> NoLevels]
  /\ beats = 0
  /\ l2Subs = {}
  /\ l2Queue = [s \in L2Sub |-> NewQueue]
  /\ l2Pc = [s \in L2Sub |-> "idle"]
  /\ l2Initial = [s \in L2Sub |-> Snapshot(0, NoLevels)]
  /\ l2Batch = [s \in L2Sub |-> << >>]
  /\ replica = [s \in L2Sub |-> NoReplica]
  /\ bboSubs = {}
  /\ bboQueue = [s \in BboSub |-> NewQueue]
  /\ bboPc = [s \in BboSub |-> "idle"]
  /\ bboInitial = [s \in BboSub |-> Bbo(0, Best(NoLevels))]
  /\ bboBatch = [s \in BboSub |-> << >>]
  /\ top = [s \in BboSub |-> NoTop]

Ingest ==
  \E v \in Venue :
    \/ \E levels \in VenueLevels : ApplySnapshot(v, levels)
    \/ \E levels \in VenueLevels : ApplyBatch(v, levels)
    \/ InvalidateVenue(v)

L2Step(s) ==
  L2Subscribe(s) \/ L2WriteInitial(s) \/ L2Drain(s) \/ L2Exhausted(s)
    \/ L2Write(s) \/ L2Leave(s)

BboStep(s) ==
  BboSubscribe(s) \/ BboWriteInitial(s) \/ BboDrain(s) \/ BboWrite(s)
    \/ BboLeave(s)

Next ==
  \/ Ingest
  \/ SendHeartbeat
  \/ \E s \in L2Sub : L2Step(s)
  \/ \E s \in BboSub : BboStep(s)

Spec == Init /\ [][Next]_vars

\* A handler thread runs while it can, and its writes complete: the client
\* reads all the time, and gRPC's keepalive ends the connection of one that
\* is gone (L2Leave).  Nobody is forced to subscribe or to leave.
Fairness ==
  /\ \A s \in L2Sub :
       WF_vars(L2WriteInitial(s)) /\ WF_vars(L2Drain(s))
         /\ WF_vars(L2Exhausted(s)) /\ WF_vars(L2Write(s))
  /\ \A s \in BboSub :
       WF_vars(BboWriteInitial(s)) /\ WF_vars(BboDrain(s))
         /\ WF_vars(BboWrite(s))

FairSpec == Spec /\ Fairness
-----------------------------------------------------------------------------
(* Types.                                                                  *)

Levels == [Level -> Nat]
Changes == [Level -> Nat \cup {Same}]
Quote == (Price \cup {0}) \X Nat
Tops == [bid : Quote, ask : Quote]

HeartbeatMsg == [kind : {"heartbeat"}, seq : Nat, live : SUBSET Venue]
SnapshotMsg == [kind : {"snapshot"}, seq : Nat, levels : Levels]
L2Msg == [kind : {"diff"}, seq : Nat, levels : Changes] \cup HeartbeatMsg
InitialBbo == [kind : {"bbo"}, seq : Nat, best : Tops]
BboMsg == InitialBbo \cup HeartbeatMsg

Queue(Msg) == [items : Seq(Msg), closed : BOOLEAN, bootstrapping : BOOLEAN]
HandlerPc ==
  {"idle", "initial", "subscribed", "waiting", "writing", "ended", "exhausted"}

Replicas == [attached : BOOLEAN, seq : Nat, levels : Levels,
             gap : BOOLEAN, unbacked : BOOLEAN]
TopViews == [attached : BOOLEAN, seq : Nat, best : Tops]

Books ==
  [live : SUBSET Venue, venues : [Venue -> Levels], aggregate : Levels]

BookTypeOK ==
  /\ book \in Books
  /\ seq \in Nat
  /\ lastBbo \in Tops
  /\ log \in [0 .. seq -> Levels]
  /\ beats \in Nat

L2TypeOK ==
  /\ l2Subs \subseteq L2Sub
  /\ l2Queue \in [L2Sub -> Queue(L2Msg)]
  /\ l2Pc \in [L2Sub -> HandlerPc]
  /\ l2Initial \in [L2Sub -> SnapshotMsg]
  /\ l2Batch \in [L2Sub -> Seq(L2Msg)]
  /\ replica \in [L2Sub -> Replicas]

BboTypeOK ==
  /\ bboSubs \subseteq BboSub
  /\ bboQueue \in [BboSub -> Queue(BboMsg)]
  /\ bboPc \in [BboSub -> HandlerPc]
  /\ bboInitial \in [BboSub -> InitialBbo]
  /\ bboBatch \in [BboSub -> Seq(BboMsg)]
  /\ top \in [BboSub -> TopViews]

\* Types of SymbolBook's members, of the queues and of the clients' state.
TypeOK == BookTypeOK /\ L2TypeOK /\ BboTypeOK

-----------------------------------------------------------------------------
(* The aggregate.                                                          *)

\* What the venues of book b, counted one after the other, hold at level l.
VenueOrder == CHOOSE e \in Bijection(1 .. Cardinality(Venue), Venue) : TRUE

Contributed(b, l) ==
  SumOf([i \in 1 .. Cardinality(Venue) |-> b.venues[VenueOrder[i]][l]],
        Cardinality(Venue))

\* However snapshots, batches and invalidations of several venues interleave,
\* the running aggregate is the sum of what the live venues hold, and a venue
\* that is not live holds nothing (AggregateOrderBook's class comment).  The
\* latest revision is that sum, and no two revisions in a row are the same
\* book: publish() neither misses a change nor announces one that is none.
AggregateIsSum ==
  /\ \A l \in Level : book.aggregate[l] = Contributed(book, l)
  /\ \A v \in Venue \ book.live : book.venues[v] = NoLevels
  /\ log[seq] = book.aggregate
  /\ \A n \in 1 .. seq : log[n] # log[n - 1]

-----------------------------------------------------------------------------
(* Properties of the L2 stream.                                            *)

ReplicaOK(s) ==
  replica[s].attached /\ ~replica[s].gap =>
    replica[s].seq <= seq /\ replica[s].levels = log[replica[s].seq]

\* A client whose L2 stream saw no gap holds, level by level, the aggregate
\* that the server published as the revision the client believes it is at:
\* snapshot capture and registration in subscribe_impl, the queue and the
\* handler's writes neither lose, repeat nor reorder a diff.
ReplicaIsExact == \A s \in L2Sub : ReplicaOK(s)

\* Message m continues a stream that has reached revision n.
Follows(n, m) == m.seq = IF m.kind = "diff" THEN n + 1 ELSE n

\* The messages items continue, one after the other, a stream at n.
IsChain(n, items) ==
  \A i \in 1 .. Len(items) :
    Follows(IF i = 1 THEN n ELSE items[i - 1].seq, items[i])

\* The revision such a stream is at afterwards.
After(n, items) == IF items = << >> THEN n ELSE items[Len(items)].seq

\* Among revisions history, the latest of which is n, a diff turns the one
\* before it into the one it is numbered with.
IsExactDiff(m, n, history) ==
  /\ m.seq \in 0 .. n
  /\ m.kind = "diff" =>
       /\ m.seq > 0
       /\ history[m.seq] = Overlay(history[m.seq - 1], m.levels)

AreExact(items, n, history) ==
  \A i \in 1 .. Len(items) : IsExactDiff(items[i], n, history)

Serving(s) == l2Pc[s] \in {"initial", "subscribed", "waiting", "writing"}

\* The revision the client of s has, or will have after the initial Write.
Base(s) == IF l2Pc[s] = "initial" THEN l2Initial[s].seq ELSE replica[s].seq

StreamOK(s) ==
  /\ Serving(s) =>
       /\ IsChain(Base(s), l2Batch[s])
       /\ IsChain(After(Base(s), l2Batch[s]), l2Queue[s].items)
       /\ ~l2Queue[s].closed =>
            After(After(Base(s), l2Batch[s]), l2Queue[s].items) = seq
  /\ AreExact(l2Batch[s], seq, log)
  /\ AreExact(l2Queue[s].items, seq, log)

\* What is on its way to a client, from the revision it has through the batch
\* being written to the end of its queue, is an unbroken chain of exact diffs
\* that ends at the book's current revision, unless the queue overflowed and
\* was closed.  This is what makes the client's gap check redundant.
StreamIsContiguous == \A s \in L2Sub : StreamOK(s)

\* A handler has a batch to write exactly while it is writing.
BatchWhileWriting ==
  /\ \A s \in L2Sub : l2Batch[s] # << >> <=> l2Pc[s] = "writing"
  /\ \A s \in BboSub : bboBatch[s] # << >> <=> bboPc[s] = "writing"

\* The rest of what makes StreamIsContiguous inductive: the latest revision
\* is the book; a handler is registered from the capture of its snapshot on,
\* and that snapshot is what its client starts from.
LogEndsAtBook == log[seq] = book.aggregate

HandlerOK(s) ==
  /\ s \in l2Subs <=> Serving(s)
  /\ l2Pc[s] = "initial" =>
       /\ ~replica[s].attached
       /\ l2Initial[s].seq <= seq
       /\ l2Initial[s].levels = log[l2Initial[s].seq]
  /\ Serving(s) /\ l2Pc[s] # "initial" => replica[s].attached

HandlersOK == \A s \in L2Sub : HandlerOK(s)

\* publish_l2_bands never meets a gap in book_seq: a subscriber that falls
\* behind is told so (RESOURCE_EXHAUSTED) before it could miss a diff.
NoClientGap == \A s \in L2Sub : ~replica[s].gap

\* A heartbeat without live venues reaches a client only when its book is
\* empty: a client need not compare it with the diffs around it
\* (aggregator.proto, "no venue currently backs this book").
UnbackedReplicaIsEmpty ==
  \A s \in L2Sub : replica[s].unbacked => replica[s].levels = NoLevels

\* A subscriber that stalls costs at most the bootstrap capacity, on both
\* streams (push_or_close: "Still a real ceiling, not unlimited").
QueuesAreBounded ==
  /\ \A s \in L2Sub :
       Len(l2Queue[s].items) <= Capacity * BootstrapMultiplier
  /\ \A s \in BboSub :
       Len(bboQueue[s].items) <= Capacity * BootstrapMultiplier

\* A subscriber is brought to every revision, or its stream ends.
SubscriberCatchesUp ==
  \A s \in L2Sub : \A n \in 1 .. MaxSeq :
    seq >= n /\ s \in l2Subs ~> replica[s].seq >= n \/ s \notin l2Subs

-----------------------------------------------------------------------------
(* Properties of the Bbo stream.                                           *)

\* Every top of book a client is given is the one of the revision whose
\* book_seq it carries (build_bbo reads seq_ after publish() advanced it).
TopIsExact ==
  \A s \in BboSub :
    top[s].attached => top[s].seq <= seq /\ top[s].best = Best(log[top[s].seq])

\* Within one stream a client's top of book never goes back to an earlier
\* revision, whatever was dropped (aggregator.proto: "monotonically
\* increasing").
TopNeverGoesBack ==
  [][\A s \in BboSub :
       top[s].attached /\ top'[s].attached => top[s].seq <= top'[s].seq]_vars

CurrentTop == Best(book.aggregate)

\* The Bbo at place j is the last one among the messages items, and it is b.
IsLast(items, j, b) ==
  /\ items[j].kind = "bbo" /\ items[j].best = b
  /\ \A i \in 1 .. Len(items) : j < i => items[i].kind # "bbo"

EndsWith(items, b) == \E j \in 1 .. Len(items) : IsLast(items, j, b)
NoBbo(items) == \A i \in 1 .. Len(items) : items[i].kind # "bbo"

\* The client of s shows the current top of book, or will once all that is on
\* its way (the captured Bbo, the batch being written, the queue) is written:
\* it is the last Bbo among that, or the one shown if there is none.
HasTop(s) ==
  \/ EndsWith(bboQueue[s].items, CurrentTop)
  \/ NoBbo(bboQueue[s].items) /\ EndsWith(bboBatch[s], CurrentTop)
  \/ /\ NoBbo(bboQueue[s].items) /\ NoBbo(bboBatch[s])
     /\ IF bboPc[s] = "initial"
          THEN bboInitial[s].best = CurrentTop
          ELSE top[s].attached /\ top[s].best = CurrentTop

\* Heartbeats alone fill the queue of s.
Overrun(s) ==
  /\ Len(bboQueue[s].items) >= EffectiveCapacity(bboQueue[s])
  /\ NoBbo(bboQueue[s].items)

\* The one way in which DropOldest costs a subscriber the current top of book
\* is that heartbeats alone push it out of a full queue.  One that has lost it
\* so gets the next top that is published.
TopIsLostOnlyToHeartbeats ==
  [][\A s \in bboSubs' :
       \/ HasTop(s)'
       \/ Overrun(s)'
       \/ s \in bboSubs /\ ~HasTop(s) /\ UNCHANGED CurrentTop]_vars

\* "A slow subscriber loses nothing by having a stale queued Bbo replaced by a
\* newer one" (docs/api_protocol_design.md, SubscriberQueue's class comment):
\* whatever a full queue drops, a subscriber shows the current top, or it is
\* still to be written to it.  False of the code: what replaces the oldest
\* entry may be a heartbeat, and the oldest entry the only current Bbo.
TopIsComplete == \A s \in bboSubs : HasTop(s)

\* Without further changes a subscriber that has the current top on its way
\* ends up showing it, or its stream ends, or heartbeats overrun its queue.
SubscriberSeesTop ==
  \A s \in BboSub :
    s \in bboSubs /\ HasTop(s) ~>
      \/ s \notin bboSubs \/ Overrun(s)
      \/ top[s].attached /\ top[s].best = CurrentTop

-----------------------------------------------------------------------------
(* The promise of both streams, as an abstract specification.              *)

\* What each client shows; one without an initial message shows nothing.
L2Views ==
  [s \in L2Sub |->
     IF replica[s].attached
       THEN [attached |-> TRUE, seq |-> replica[s].seq,
             state |-> replica[s].levels]
       ELSE [attached |-> FALSE]]

BboViews ==
  [s \in BboSub |->
     IF top[s].attached
       THEN [attached |-> TRUE, seq |-> top[s].seq, best |-> top[s].best]
       ELSE [attached |-> FALSE]]

Replicated ==
  INSTANCE ReplicatedBook WITH
    L2Client <- L2Sub, BboClient <- BboSub,
    States <- Levels, EmptyState <- NoLevels, TopOf <- Best,
    last <- seq, history <- log, l2 <- L2Views, bbo <- BboViews

\* The book, its queues, its handler threads and the clients' read loops
\* together implement ReplicatedBook: a client only ever shows published
\* revisions, an L2 client every one of them in order.
ImplementsReplicatedBook == Replicated!Spec
=============================================================================
