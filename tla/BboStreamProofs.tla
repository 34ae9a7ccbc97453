-------------------------- MODULE BboStreamProofs --------------------------
(***************************************************************************)
(* Theorems about the Bbo stream of SymbolBook: although its queues drop   *)
(* messages, what a client shows is exact and never goes back, and a top   *)
(* of book is lost only to heartbeats.                                     *)
(***************************************************************************)
EXTENDS SymbolBookProofs

-----------------------------------------------------------------------------
(* The inductive invariant.  n is the latest revision of history.          *)

\* A message about revision b or a later one, with that revision's top.
IsGood(m, b, n, history) ==
  /\ b <= m.seq /\ m.seq <= n
  /\ m.kind = "bbo" => m.best = Best(history[m.seq])

AreGood(items, b, n, history) ==
  \A i \in 1 .. Len(items) : IsGood(items[i], b, n, history)

IsOrdered(items) ==
  \A i, j \in 1 .. Len(items) : i <= j => items[i].seq <= items[j].seq

IsBefore(items, later) ==
  \A i \in 1 .. Len(items), j \in 1 .. Len(later) : items[i].seq <= later[j].seq

\* The revision the client of s shows, or will show after the initial Write.
BboBase(s) == IF bboPc[s] = "initial" THEN bboInitial[s].seq ELSE top[s].seq

PendingOK(s) ==
  /\ AreGood(bboBatch[s], BboBase(s), seq, log)
  /\ AreGood(bboQueue[s].items, BboBase(s), seq, log)
  /\ IsOrdered(bboBatch[s]) /\ IsOrdered(bboQueue[s].items)
  /\ IsBefore(bboBatch[s], bboQueue[s].items)

TopOK(s) ==
  /\ top[s].seq <= seq
  /\ top[s].attached => top[s].best = Best(log[top[s].seq])
  /\ bboPc[s] = "initial" =>
       /\ ~top[s].attached
       /\ bboInitial[s].seq <= seq
       /\ bboInitial[s].best = Best(log[bboInitial[s].seq])

BboInv(s) == PendingOK(s) /\ TopOK(s)

TopInv ==
  TypeOK /\ BatchWhileWriting /\ LogEndsAtBook /\ \A s \in BboSub : BboInv(s)

-----------------------------------------------------------------------------
(* Sequences of messages.                                                  *)

LEMMA BboMsgSeq ==
  ASSUME NEW m \in BboMsg
  PROVE  m.seq \in Nat /\ m.kind \in {"bbo", "heartbeat"}
BY DEF BboMsg, InitialBbo, HeartbeatMsg

LEMMA BboItemSeq ==
  ASSUME NEW items \in Seq(BboMsg), NEW i \in 1 .. Len(items)
  PROVE  items[i] \in BboMsg /\ items[i].seq \in Nat
<1>1. items[i] \in BboMsg
  BY ElementOfSeq
<1>2. QED
  BY <1>1, BboMsgSeq

LEMMA NothingPending ==
  ASSUME NEW b, NEW n, NEW h, NEW items
  PROVE  /\ AreGood(<< >>, b, n, h) /\ IsOrdered(<< >>)
         /\ IsBefore(<< >>, items) /\ IsBefore(items, << >>)
BY DEF AreGood, IsOrdered, IsBefore

\* Revisions are never rewritten.
LEMMA GoodStable ==
  ASSUME NEW items \in Seq(BboMsg), NEW b \in Nat, NEW n \in Nat, NEW k \in Nat,
         n <= k, NEW h, NEW g, \A j \in 0 .. n : g[j] = h[j],
         AreGood(items, b, n, h)
  PROVE  AreGood(items, b, k, g)
<1>1. SUFFICES ASSUME NEW i \in 1 .. Len(items)
               PROVE  IsGood(items[i], b, k, g)
  BY DEF AreGood
<1>2. IsGood(items[i], b, n, h) /\ items[i].seq \in Nat
  BY BboItemSeq DEF AreGood
<1>3. QED
  BY <1>2 DEF IsGood

\* push_or_close() with DropOldest: the queue, perhaps without its oldest
\* message, and the new one at its end.
LEMMA PushDropOldestItems ==
  ASSUME NEW q \in Queue(BboMsg), NEW m \in BboMsg
  PROVE  \E d \in {0, 1} :
           LET p == PushDropOldest(q, m).items
           IN  /\ Len(p) \in Nat \ {0}
               /\ Len(p) = Len(q.items) + 1 - d
               /\ d = 1 => Len(q.items) >= EffectiveCapacity(q)
               /\ p[Len(p)] = m
               /\ \A i \in 1 .. Len(p) :
                    \/ i = Len(p) /\ p[i] = m
                    \/ /\ i < Len(p) /\ i + d \in 1 .. Len(q.items)
                       /\ p[i] = q.items[i + d]
<1> DEFINE p == PushDropOldest(q, m).items
<1>1. q.items \in Seq(BboMsg) /\ Len(q.items) \in Nat
  BY DEF Queue
<1>2. CASE Len(q.items) >= EffectiveCapacity(q)
  <2>1. q.items # << >> /\ Len(q.items) > 0
    BY <1>1, <1>2, CapacityPositive
  <2>2. /\ Tail(q.items) \in Seq(BboMsg)
        /\ Len(Tail(q.items)) = Len(q.items) - 1
        /\ \A i \in 1 .. Len(q.items) - 1 : Tail(q.items)[i] = q.items[i + 1]
    BY <1>1, <2>1, HeadTailProperties
  <2>3. p = Append(Tail(q.items), m)
    BY <1>2 DEF PushDropOldest, Queue
  <2>4. /\ Len(p) = Len(q.items)
        /\ \A i \in 1 .. Len(q.items) - 1 : p[i] = q.items[i + 1]
        /\ p[Len(q.items)] = m
    BY <1>1, <2>2, <2>3, AppendProperties
  <2> HIDE DEF p
  <2>5. \A i \in 1 .. Len(p) :
          \/ i = Len(p) /\ p[i] = m
          \/ i < Len(p) /\ i + 1 \in 1 .. Len(q.items) /\ p[i] = q.items[i + 1]
    BY <1>1, <2>4
  <2>6. QED
    BY <1>1, <1>2, <2>1, <2>4, <2>5 DEF p
<1>3. CASE ~(Len(q.items) >= EffectiveCapacity(q))
  <2>1. p = Append(q.items, m)
    BY <1>3 DEF PushDropOldest, Queue
  <2>2. /\ Len(p) = Len(q.items) + 1
        /\ \A i \in 1 .. Len(q.items) : p[i] = q.items[i]
        /\ p[Len(q.items) + 1] = m
    BY <1>1, <2>1, AppendProperties
  <2> HIDE DEF p
  <2>3. \A i \in 1 .. Len(p) :
          \/ i = Len(p) /\ p[i] = m
          \/ i < Len(p) /\ i + 0 \in 1 .. Len(q.items) /\ p[i] = q.items[i + 0]
    BY <1>1, <2>2
  <2>4. QED
    BY <1>1, <2>2, <2>3 DEF p
<1>4. QED
  BY <1>2, <1>3

\* A push of a message about the latest revision leaves a queue in order,
\* whatever it drops.
LEMMA PushKeepsOrder ==
  ASSUME NEW q \in Queue(BboMsg), NEW m \in BboMsg, NEW batch \in Seq(BboMsg),
         NEW b \in Nat, NEW n \in Nat, NEW h,
         AreGood(q.items, b, n, h), IsOrdered(q.items), IsBefore(batch, q.items),
         AreGood(batch, b, n, h), IsGood(m, b, n, h), m.seq = n
  PROVE  LET p == PushDropOldest(q, m).items
         IN  AreGood(p, b, n, h) /\ IsOrdered(p) /\ IsBefore(batch, p)
<1> DEFINE p == PushDropOldest(q, m).items
<1>1. PICK d \in {0, 1} :
        /\ Len(p) \in Nat \ {0}
        /\ \A i \in 1 .. Len(p) :
             \/ i = Len(p) /\ p[i] = m
             \/ /\ i < Len(p) /\ i + d \in 1 .. Len(q.items)
                /\ p[i] = q.items[i + d]
  BY PushDropOldestItems
<1>2. q.items \in Seq(BboMsg)
  BY DEF Queue
<1> HIDE DEF p
<1>3. AreGood(p, b, n, h)
  BY <1>1 DEF AreGood
<1>4. ASSUME NEW i \in 1 .. Len(p), NEW j \in 1 .. Len(p), i <= j
      PROVE  p[i].seq <= p[j].seq
  <2>1. CASE j = Len(p)
    <3>1. p[j] = m
      BY <1>1, <2>1
    <3>2. p[i].seq <= n
      BY <1>3 DEF AreGood, IsGood
    <3>3. QED
      BY <3>1, <3>2
  <2>2. CASE j < Len(p)
    <3>1. /\ i + d \in 1 .. Len(q.items) /\ p[i] = q.items[i + d]
          /\ j + d \in 1 .. Len(q.items) /\ p[j] = q.items[j + d]
      BY <1>1, <1>4, <2>2
    <3>2. i + d <= j + d
      BY <1>4
    <3>3. QED
      BY <3>1, <3>2 DEF IsOrdered
  <2>3. QED
    BY <1>1, <2>1, <2>2
<1>5. ASSUME NEW i \in 1 .. Len(batch), NEW j \in 1 .. Len(p)
      PROVE  batch[i].seq <= p[j].seq
  <2>1. batch[i].seq <= n
    BY DEF AreGood, IsGood
  <2>2. CASE p[j] = m
    BY <2>1, <2>2
  <2>3. CASE j + d \in 1 .. Len(q.items) /\ p[j] = q.items[j + d]
    BY <2>3 DEF IsBefore
  <2>4. QED
    BY <1>1, <2>2, <2>3
<1>6. QED
  BY <1>3, <1>4, <1>5 DEF IsOrdered, IsBefore, p

-----------------------------------------------------------------------------
(* Every step preserves the invariant.                                     *)

LEMMA BboTypes ==
  ASSUME TypeOK, NEW s \in BboSub
  PROVE  /\ seq \in Nat /\ log \in [0 .. seq -> Levels]
         /\ bboQueue[s] \in Queue(BboMsg) /\ bboQueue[s].items \in Seq(BboMsg)
         /\ bboBatch[s] \in Seq(BboMsg)
         /\ top[s] \in TopViews /\ top[s].seq \in Nat
         /\ bboInitial[s] \in InitialBbo /\ bboInitial[s].seq \in Nat
         /\ bboInitial[s].kind = "bbo"
         /\ BboBase(s) \in Nat
BY DEF TypeOK, BookTypeOK, BboTypeOK, Queue, TopViews, InitialBbo, BboBase

\* A step of the book: revisions n of history h, of which the old ones are
\* unchanged, and a message about the latest, if any, pushed to s.
LEMMA BookStep ==
  ASSUME TopInv, NEW s \in BboSub, seq' \in Nat, seq <= seq',
         \A j \in 0 .. seq : log'[j] = log[j],
         UNCHANGED << bboPc, bboInitial, bboBatch, top >>,
         NEW m \in BboMsg, IsGood(m, 0, seq', log'), m.seq = seq',
         bboQueue'[s] \in {bboQueue[s], PushDropOldest(bboQueue[s], m)}
  PROVE  BboInv(s)'
<1>0. PendingOK(s) /\ TopOK(s)
  BY DEF TopInv, BboInv
<1>1. /\ seq \in Nat /\ log \in [0 .. seq -> Levels]
      /\ bboQueue[s] \in Queue(BboMsg) /\ bboQueue[s].items \in Seq(BboMsg)
      /\ bboBatch[s] \in Seq(BboMsg)
      /\ top[s].seq \in Nat /\ bboInitial[s].seq \in Nat
      /\ BboBase(s) \in Nat
  BY BboTypes DEF TopInv
<1>2. BboBase(s)' = BboBase(s) /\ BboBase(s) <= seq
  BY <1>0 DEF BboBase, TopOK
<1>3. /\ AreGood(bboBatch[s], BboBase(s), seq', log')
      /\ AreGood(bboQueue[s].items, BboBase(s), seq', log')
  BY <1>0, <1>1, GoodStable DEF PendingOK
<1>4. IsGood(m, BboBase(s), seq', log')
  BY <1>1, <1>2 DEF IsGood
<1>5. PendingOK(s)'
  <2>1. CASE bboQueue'[s] = bboQueue[s]
    BY <1>0, <1>2, <1>3, <2>1 DEF PendingOK
  <2>2. CASE bboQueue'[s] = PushDropOldest(bboQueue[s], m)
    <3>1. /\ AreGood(bboQueue'[s].items, BboBase(s), seq', log')
          /\ IsOrdered(bboQueue'[s].items)
          /\ IsBefore(bboBatch[s], bboQueue'[s].items)
      BY <1>0, <1>1, <1>3, <1>4, <2>2, PushKeepsOrder DEF PendingOK
    <3>2. QED
      BY <1>0, <1>2, <1>3, <3>1 DEF PendingOK
  <2>3. QED
    BY <2>1, <2>2
<1>6. TopOK(s)'
  BY <1>0, <1>1 DEF TopOK
<1>7. QED
  BY <1>5, <1>6 DEF BboInv

LEMMA TopPublishStep ==
  ASSUME TopInv, NEW r, IsResult(book, r), Publish(r)
  PROVE  LogEndsAtBook' /\ \A s \in BboSub : BboInv(s)'
<1>0. /\ seq \in Nat /\ log \in [0 .. seq -> Levels] /\ book.aggregate \in Levels
      /\ r.book \in Books /\ r.book.aggregate \in Levels
      /\ bboQueue \in [BboSub -> Queue(BboMsg)]
  BY DEF TopInv, TypeOK, BookTypeOK, BboTypeOK, IsResult, Books
<1>1. CASE r.changes = NoChanges
  <2>1. /\ UNCHANGED << seq, log, bboPc, bboInitial, bboBatch, bboQueue, top >>
        /\ book' = r.book
    BY <1>1 DEF Publish
  <2>2. r.book.aggregate = book.aggregate
    BY <1>0, <1>1, OverlayNothing DEF IsResult
  <2>3. QED
    BY <2>1, <2>2 DEF TopInv, LogEndsAtBook, BboInv, PendingOK, TopOK, BboBase
<1>2. CASE r.changes # NoChanges
  <2> DEFINE m == Bbo(seq + 1, Best(r.book.aggregate))
  <2>1. /\ book' = r.book /\ seq' = seq + 1
        /\ log' = [n \in 0 .. seq + 1 |->
                     IF n <= seq THEN log[n] ELSE r.book.aggregate]
        /\ BroadcastBbo(m) \/ UNCHANGED bboQueue
        /\ UNCHANGED << bboPc, bboInitial, bboBatch, top >>
    BY <1>2 DEF Publish
  <2>2. /\ seq' \in Nat /\ seq <= seq'
        /\ \A j \in 0 .. seq : log'[j] = log[j]
        /\ log'[seq'] = book'.aggregate
    BY <1>0, <2>1
  <2>3. m \in BboMsg
    BY <1>0, BestType DEF Bbo, BboMsg, InitialBbo
  <2>4. IsGood(m, 0, seq', log') /\ m.seq = seq'
    BY <1>0, <2>1, <2>2 DEF Bbo, IsGood
  <2>5. \A s \in BboSub :
          bboQueue'[s] \in {bboQueue[s], PushDropOldest(bboQueue[s], m)}
    BY <2>1 DEF BroadcastBbo
  <2> HIDE DEF m
  <2>6. QED
    BY <2>1, <2>2, <2>3, <2>4, <2>5, BookStep DEF LogEndsAtBook
<1>3. QED
  BY <1>1, <1>2

LEMMA TopHeartbeatStep ==
  ASSUME TopInv, SendHeartbeat
  PROVE  LogEndsAtBook' /\ \A s \in BboSub : BboInv(s)'
<1> DEFINE m == Heartbeat(seq, book.live)
<1>0. seq \in Nat
  BY DEF TopInv, TypeOK, BookTypeOK
<1>1. /\ UNCHANGED << book, seq, log, bboPc, bboInitial, bboBatch, top >>
      /\ BroadcastBbo(m)
  BY DEF SendHeartbeat
<1>2. m \in BboMsg
  BY HeartbeatType DEF TopInv, TypeOK
<1>3. IsGood(m, 0, seq', log') /\ m.seq = seq'
  BY <1>0, <1>1 DEF Heartbeat, IsGood
<1>4. \A s \in BboSub :
        bboQueue'[s] \in {bboQueue[s], PushDropOldest(bboQueue[s], m)}
  BY <1>1 DEF BroadcastBbo
<1> HIDE DEF m
<1>5. \A s \in BboSub : BboInv(s)'
  BY <1>0, <1>1, <1>2, <1>3, <1>4, BookStep
<1>6. QED
  BY <1>1, <1>5 DEF TopInv, LogEndsAtBook

LEMMA BboSubscribeStep ==
  ASSUME TopInv, NEW s \in BboSub, BboSubscribe(s)
  PROVE  BboInv(s)'
<1>1. /\ UNCHANGED << seq, log >> /\ bboPc'[s] = "initial"
      /\ bboInitial'[s] = Bbo(seq, Best(book.aggregate))
      /\ bboQueue'[s].items = << >> /\ bboBatch'[s] = << >> /\ top'[s] = NoTop
  BY DEF BboSubscribe, bookVars, NewQueue, TopInv, TypeOK, BboTypeOK,
         BatchWhileWriting
<1>2. PendingOK(s)'
  BY <1>1, NothingPending DEF PendingOK
<1>3. seq \in Nat /\ log[seq] = book.aggregate
  BY DEF TopInv, TypeOK, BookTypeOK, LogEndsAtBook
<1>4. TopOK(s)'
  BY <1>1, <1>3 DEF TopOK, Bbo, NoTop
<1>5. QED
  BY <1>2, <1>4 DEF BboInv

LEMMA BboWriteInitialStep ==
  ASSUME TopInv, NEW s \in BboSub, BboWriteInitial(s)
  PROVE  BboInv(s)'
<1>0. PendingOK(s) /\ TopOK(s) /\ bboInitial[s] \in InitialBbo
  BY BboTypes DEF TopInv, BboInv
<1>1. /\ UNCHANGED << seq, log, bboBatch >>
      /\ bboPc[s] = "initial" /\ bboPc'[s] = "waiting"
      /\ bboQueue'[s].items = bboQueue[s].items
      /\ top'[s] = ApplyToTop(top[s], bboInitial[s])
  BY DEF BboWriteInitial, bookVars, EndBootstrap, TopInv, TypeOK, BboTypeOK,
         Queue
<1>2. top'[s].seq = bboInitial[s].seq /\ top'[s].best = bboInitial[s].best
  BY <1>0, <1>1 DEF ApplyToTop, InitialBbo
<1>3. BboBase(s)' = BboBase(s)
  BY <1>1, <1>2 DEF BboBase
<1>4. PendingOK(s)'
  BY <1>0, <1>1, <1>3 DEF PendingOK
<1>5. TopOK(s)'
  BY <1>0, <1>1, <1>2 DEF TopOK
<1>6. QED
  BY <1>4, <1>5 DEF BboInv

LEMMA BboDrainStep ==
  ASSUME TopInv, NEW s \in BboSub, BboDrain(s)
  PROVE  BboInv(s)'
<1>0. PendingOK(s) /\ TopOK(s)
  BY DEF TopInv, BboInv
<1>1. /\ UNCHANGED << seq, log, top, bboInitial >>
      /\ bboPc[s] = "waiting" /\ bboPc'[s] = "writing"
      /\ bboQueue'[s].items = << >> /\ bboBatch'[s] = bboQueue[s].items
  BY DEF BboDrain, bookVars, Drained, TopInv, TypeOK, BboTypeOK, Queue
<1>2. BboBase(s)' = BboBase(s)
  BY <1>1 DEF BboBase
<1>3. PendingOK(s)'
  BY <1>0, <1>1, <1>2, NothingPending DEF PendingOK
<1>4. TopOK(s)'
  BY <1>0, <1>1 DEF TopOK
<1>5. QED
  BY <1>3, <1>4 DEF BboInv

\* A write moves the client to a revision that is not older.
LEMMA BboWriteStep ==
  ASSUME TopInv, NEW s \in BboSub, BboWrite(s)
  PROVE  BboInv(s)' /\ top[s].seq <= top'[s].seq
<1> DEFINE m == Head(bboBatch[s])
           rest == Tail(bboBatch[s])
<1>0. PendingOK(s) /\ TopOK(s)
  BY DEF TopInv, BboInv
<1>1. /\ UNCHANGED << seq, log, bboQueue, bboInitial >>
      /\ bboPc[s] = "writing" /\ bboPc'[s] \in {"waiting", "writing"}
      /\ bboBatch[s] # << >> /\ bboBatch'[s] = rest
      /\ top'[s] = ApplyToTop(top[s], m)
  BY DEF BboWrite, bookVars, TopInv, TypeOK, BboTypeOK, BatchWhileWriting
<1>2. /\ seq \in Nat /\ bboBatch[s] \in Seq(BboMsg)
      /\ bboQueue[s].items \in Seq(BboMsg) /\ top[s].seq \in Nat
  BY BboTypes DEF TopInv
<1>3. /\ Len(bboBatch[s]) \in Nat \ {0}
      /\ Len(rest) = Len(bboBatch[s]) - 1
      /\ \A i \in 1 .. Len(rest) :
           rest[i] = bboBatch[s][i + 1] /\ i + 1 \in 1 .. Len(bboBatch[s])
      /\ m = bboBatch[s][1] /\ 1 \in 1 .. Len(bboBatch[s])
  BY <1>1, <1>2, HeadTailProperties
<1>4. m \in BboMsg /\ m.seq \in Nat
  BY <1>2, <1>3, BboItemSeq
<1> HIDE DEF m, rest
<1>5. BboBase(s) = top[s].seq /\ BboBase(s)' = top'[s].seq
  BY <1>1 DEF BboBase
<1>6. IsGood(m, top[s].seq, seq, log)
  BY <1>0, <1>3, <1>5 DEF PendingOK, AreGood
<1>7. /\ \A i \in 1 .. Len(rest) : m.seq <= rest[i].seq
      /\ \A j \in 1 .. Len(bboQueue[s].items) :
           m.seq <= bboQueue[s].items[j].seq
  BY <1>0, <1>3 DEF PendingOK, IsOrdered, IsBefore
<1>8. /\ IsOrdered(rest) /\ IsBefore(rest, bboQueue[s].items)
      /\ AreGood(rest, top[s].seq, seq, log)
      /\ AreGood(bboQueue[s].items, top[s].seq, seq, log)
  <2>1. IsOrdered(rest)
    <3>1. ASSUME NEW i \in 1 .. Len(rest), NEW j \in 1 .. Len(rest), i <= j
          PROVE  rest[i].seq <= rest[j].seq
      BY <1>0, <1>3, <3>1 DEF PendingOK, IsOrdered
    <3>2. QED
      BY <3>1 DEF IsOrdered
  <2>2. IsBefore(rest, bboQueue[s].items)
    BY <1>0, <1>3 DEF PendingOK, IsBefore
  <2>3. AreGood(rest, top[s].seq, seq, log)
    BY <1>0, <1>3, <1>5 DEF PendingOK, AreGood
  <2>4. QED
    BY <1>0, <1>5, <2>1, <2>2, <2>3 DEF PendingOK
<1>9. CASE m.kind = "bbo"
  <2>1. top'[s].attached /\ top'[s].seq = m.seq /\ top'[s].best = m.best
    BY <1>1, <1>9 DEF ApplyToTop
  <2>2. /\ AreGood(rest, m.seq, seq, log)
        /\ AreGood(bboQueue[s].items, m.seq, seq, log)
    BY <1>7, <1>8 DEF AreGood, IsGood
  <2>3. PendingOK(s)'
    BY <1>0, <1>1, <1>5, <1>8, <2>1, <2>2 DEF PendingOK
  <2>4. TopOK(s)'
    BY <1>1, <1>6, <1>9, <2>1 DEF TopOK, IsGood
  <2>5. QED
    BY <1>6, <2>1, <2>3, <2>4 DEF BboInv, IsGood
<1>10. CASE m.kind # "bbo"
  <2>1. top'[s] = top[s]
    BY <1>1, <1>10 DEF ApplyToTop
  <2>2. PendingOK(s)'
    BY <1>0, <1>1, <1>5, <1>8, <2>1 DEF PendingOK
  <2>3. TopOK(s)'
    BY <1>0, <1>1, <2>1 DEF TopOK
  <2>4. QED
    BY <1>2, <2>1, <2>2, <2>3 DEF BboInv
<1>11. QED
  BY <1>9, <1>10

LEMMA BboLeaveStep ==
  ASSUME TopInv, NEW s \in BboSub, BboLeave(s)
  PROVE  BboInv(s)'
<1>0. TopOK(s)
  BY DEF TopInv, BboInv
<1>1. /\ UNCHANGED << seq, log, top >> /\ bboPc'[s] = "ended"
      /\ bboQueue'[s].items = << >> /\ bboBatch'[s] = << >>
  BY DEF BboLeave, bookVars, NewQueue, TopInv, TypeOK, BboTypeOK
<1>2. PendingOK(s)'
  BY <1>1, NothingPending DEF PendingOK
<1>3. TopOK(s)'
  BY <1>0, <1>1 DEF TopOK
<1>4. QED
  BY <1>2, <1>3 DEF BboInv

\* A step of one handler leaves the others alone.
LEMMA OtherBboUnchanged ==
  ASSUME TypeOK, NEW s \in BboSub, BboStep(s), NEW x \in BboSub, x # s
  PROVE  /\ bboPc'[x] = bboPc[x] /\ bboInitial'[x] = bboInitial[x]
         /\ bboQueue'[x] = bboQueue[x] /\ bboBatch'[x] = bboBatch[x]
         /\ top'[x] = top[x] /\ UNCHANGED << book, seq, log, l2Vars >>
BY DEF TypeOK, BboTypeOK, BboStep, BboSubscribe, BboWriteInitial, BboDrain,
       BboWrite, BboLeave, bookVars

LEMMA TopStep == TopInv /\ [Next]_vars => TopInv'
<1> SUFFICES ASSUME TopInv, [Next]_vars PROVE TopInv'
  OBVIOUS
<1>1. TypeOK' /\ BatchWhileWriting'
  BY TypeStep, BatchStep DEF TopInv
<1>2. CASE Ingest
  <2>1. PICK r : IsResult(book, r) /\ Publish(r)
    BY <1>2, IngestPublishes DEF TopInv
  <2>2. QED
    BY <1>1, <2>1, TopPublishStep DEF TopInv
<1>3. CASE SendHeartbeat
  BY <1>1, <1>3, TopHeartbeatStep DEF TopInv
<1>4. ASSUME NEW s \in L2Sub, L2Step(s)
      PROVE  TopInv'
  <2>1. UNCHANGED << bookVars, bboVars >>
    BY <1>4 DEF L2Step, L2Subscribe, L2WriteInitial, L2Drain, L2Exhausted,
                L2Write, L2Leave, L2End
  <2>2. QED
    BY <1>1, <2>1 DEF TopInv, LogEndsAtBook, BboInv, PendingOK, TopOK, BboBase,
                      bookVars, bboVars
<1>5. ASSUME NEW s \in BboSub, BboStep(s)
      PROVE  TopInv'
  <2>1. BboInv(s)'
    BY <1>5, BboSubscribeStep, BboWriteInitialStep, BboDrainStep, BboWriteStep,
       BboLeaveStep DEF BboStep
  <2>2. ASSUME NEW x \in BboSub, x # s PROVE BboInv(x)'
    BY <1>5, <2>2, OtherBboUnchanged
       DEF TopInv, BboInv, PendingOK, TopOK, BboBase
  <2>3. LogEndsAtBook'
    BY <1>5 DEF BboStep, BboSubscribe, BboWriteInitial, BboDrain, BboWrite,
                BboLeave, bookVars, TopInv, LogEndsAtBook
  <2>4. QED
    BY <1>1, <2>1, <2>2, <2>3 DEF TopInv
<1>6. CASE UNCHANGED vars
  BY <1>1, <1>6 DEF TopInv, LogEndsAtBook, BboInv, PendingOK, TopOK, BboBase,
                    vars, bookVars, bboVars
<1>7. QED
  BY <1>2, <1>3, <1>4, <1>5, <1>6 DEF Next

LEMMA TopInit == Init => TopInv
<1> SUFFICES ASSUME Init PROVE TopInv
  OBVIOUS
<1>1. TypeOK /\ BatchWhileWriting /\ LogEndsAtBook
  BY InitType DEF Init, BatchWhileWriting, LogEndsAtBook, EmptyBook
<1>2. ASSUME NEW s \in BboSub PROVE BboInv(s)
  <2>1. /\ seq = 0 /\ bboPc[s] = "idle" /\ bboBatch[s] = << >>
        /\ bboQueue[s].items = << >> /\ top[s] = NoTop
    BY DEF Init, NewQueue
  <2>2. QED
    BY <2>1, NothingPending DEF BboInv, PendingOK, TopOK, NoTop
<1>3. QED
  BY <1>1, <1>2 DEF TopInv

\* Every top of book a client shows is the top of the revision it is numbered
\* with, whatever was dropped on the way (build_bbo, push_or_close).
THEOREM TopsAreExact == Spec => []TopIsExact
<1>1. TopInv => TopIsExact
  BY DEF TopInv, BboInv, TopOK, TopIsExact
<1>2. QED
  BY <1>1, TopInit, TopStep, PTL DEF Spec

\* Within one stream a client's top of book never goes back to an earlier
\* revision: dropping the oldest message keeps the order of the others.
THEOREM TopsNeverGoBack == Spec => TopNeverGoesBack
<1> DEFINE Forward ==
             \A s \in BboSub :
               top[s].attached /\ top'[s].attached => top[s].seq <= top'[s].seq
<1>1. ASSUME TopInv, [Next]_vars PROVE [Forward]_vars
  <2>0. \A s \in BboSub : top[s].seq \in Nat
    BY <1>1, BboTypes DEF TopInv
  <2>1. CASE UNCHANGED top
    BY <2>0, <2>1
  <2>2. ASSUME NEW s \in BboSub, BboStep(s) PROVE Forward
    <3>1. \A x \in BboSub : x # s => top'[x] = top[x]
      BY <1>1, <2>2, OtherBboUnchanged DEF TopInv
    <3>2. top[s].attached /\ top'[s].attached => top[s].seq <= top'[s].seq
      <4>1. CASE BboSubscribe(s)
        BY <1>1, <4>1 DEF BboSubscribe, NoTop, TopInv, TypeOK, BboTypeOK
      <4>2. CASE BboWriteInitial(s)
        BY <1>1, <4>2 DEF BboWriteInitial, TopInv, BboInv, TopOK
      <4>3. CASE BboWrite(s)
        BY <1>1, <4>3, BboWriteStep
      <4>4. CASE BboDrain(s) \/ BboLeave(s)
        BY <2>0, <4>4 DEF BboDrain, BboLeave
      <4>5. QED
        BY <2>2, <4>1, <4>2, <4>3, <4>4 DEF BboStep
    <3>3. QED
      BY <2>0, <3>1, <3>2
  <2>3. CASE Ingest
    BY <2>1, <2>3, <1>1, IngestPublishes DEF Publish, TopInv
  <2>4. CASE SendHeartbeat \/ \E s \in L2Sub : L2Step(s)
    BY <2>1, <2>4 DEF SendHeartbeat, L2Step, L2Subscribe, L2WriteInitial,
                      L2Drain, L2Exhausted, L2Write, L2Leave, L2End, bboVars
  <2>5. CASE UNCHANGED vars
    BY <2>1, <2>5 DEF vars, bboVars
  <2>6. QED
    BY <1>1, <2>2, <2>3, <2>4, <2>5 DEF Next
<1>2. QED
  BY <1>1, TopInit, TopStep, PTL DEF Spec, TopNeverGoesBack

-----------------------------------------------------------------------------
(* What DropOldest can cost a subscriber.                                  *)

\* What publish() compares the new top with is the top of the book.
TopAnnounced == lastBbo = CurrentTop

\* What one step may do to the subscribers' tops.
LostOnlyToHeartbeats ==
  \A s \in bboSubs' :
    \/ HasTop(s)'
    \/ Overrun(s)'
    \/ s \in bboSubs /\ ~HasTop(s) /\ UNCHANGED CurrentTop

\* Pushing a new top makes it the last one.
LEMMA PushTop ==
  ASSUME NEW q \in Queue(BboMsg), NEW m \in BboMsg, m.kind = "bbo"
  PROVE  EndsWith(PushDropOldest(q, m).items, m.best)
<1> DEFINE p == PushDropOldest(q, m).items
<1>1. /\ Len(p) \in Nat \ {0}
      /\ p[Len(p)] = m
  BY PushDropOldestItems
<1> HIDE DEF p
<1>2. Len(p) \in 1 .. Len(p) /\ IsLast(p, Len(p), m.best)
  BY <1>1 DEF IsLast
<1>3. EndsWith(p, m.best)
  BY <1>2 DEF EndsWith
<1> QED BY <1>3 DEF p

\* Pushing a heartbeat keeps the last top, unless the queue is full and that
\* top is its oldest message: then heartbeats are all it holds.
LEMMA PushBeat ==
  ASSUME NEW q \in Queue(BboMsg), NEW m \in BboMsg, m.kind # "bbo",
         NEW b, EndsWith(q.items, b)
  PROVE  LET p == PushDropOldest(q, m)
         IN  \/ EndsWith(p.items, b)
             \/ NoBbo(p.items) /\ Len(p.items) >= EffectiveCapacity(p)
<1> DEFINE p == PushDropOldest(q, m).items
<1>0. Len(q.items) \in Nat
  BY DEF Queue
<1>1. PICK d \in {0, 1} :
        /\ Len(p) \in Nat \ {0}
        /\ Len(p) = Len(q.items) + 1 - d
        /\ d = 1 => Len(q.items) >= EffectiveCapacity(q)
        /\ p[Len(p)] = m
        /\ \A i \in 1 .. Len(p) :
             \/ i = Len(p) /\ p[i] = m
             \/ /\ i < Len(p) /\ i + d \in 1 .. Len(q.items)
                /\ p[i] = q.items[i + d]
  BY PushDropOldestItems
<1>2. EffectiveCapacity(PushDropOldest(q, m)) = EffectiveCapacity(q)
  BY DEF PushDropOldest, EffectiveCapacity, Queue
<1> HIDE DEF p
<1>3. PICK j \in 1 .. Len(q.items) : IsLast(q.items, j, b)
  BY DEF EndsWith
<1>4. ASSUME NEW i \in 1 .. Len(p), j - d < i PROVE p[i].kind # "bbo"
  <2>1. CASE p[i] = m
    BY <2>1
  <2>2. CASE i + d \in 1 .. Len(q.items) /\ p[i] = q.items[i + d]
    BY <1>1, <1>3, <1>4, <2>2 DEF IsLast
  <2> QED BY <1>1, <2>1, <2>2
<1>5. CASE j - d >= 1
  <2>1. j - d \in 1 .. Len(p) /\ j - d < Len(p)
    BY <1>0, <1>1, <1>5
  <2>2. p[j - d] = q.items[j]
    BY <1>0, <1>1, <2>1
  <2>3. IsLast(p, j - d, b)
    BY <1>3, <1>4, <2>2 DEF IsLast
  <2>4. EndsWith(p, b)
    BY <2>1, <2>3 DEF EndsWith
  <2> QED BY <2>4 DEF p
<1>6. CASE j - d < 1
  <2>1. d = 1 /\ j - d = 0 /\ Len(p) = Len(q.items)
    BY <1>0, <1>1, <1>6
  <2>2. NoBbo(p)
    BY <1>4, <2>1 DEF NoBbo
  <2>3. Len(p) >= EffectiveCapacity(q)
    BY <1>1, <2>1
  <2> QED BY <1>2, <2>2, <2>3 DEF p
<1> QED BY <1>0, <1>1, <1>5, <1>6

LEMMA PushBeatNoBbo ==
  ASSUME NEW q \in Queue(BboMsg), NEW m \in BboMsg, m.kind # "bbo",
         NoBbo(q.items)
  PROVE  NoBbo(PushDropOldest(q, m).items)
<1> DEFINE p == PushDropOldest(q, m).items
<1>1. PICK d \in {0, 1} :
        \A i \in 1 .. Len(p) :
          \/ i = Len(p) /\ p[i] = m
          \/ /\ i < Len(p) /\ i + d \in 1 .. Len(q.items)
             /\ p[i] = q.items[i + d]
  BY PushDropOldestItems
<1> HIDE DEF p
<1>2. NoBbo(p)
  BY <1>1 DEF NoBbo
<1> QED BY <1>2 DEF p

\* A change of the top reaches every queue; one below the top changes nothing.
LEMMA LostPublish ==
  ASSUME TopInv, TopAnnounced, NEW r, IsResult(book, r), Publish(r)
  PROVE  LostOnlyToHeartbeats /\ TopAnnounced'
<1>0. /\ book.aggregate \in Levels /\ seq \in Nat
      /\ r.book.aggregate \in Levels /\ bboSubs \subseteq BboSub
      /\ \A s \in BboSub : bboQueue[s] \in Queue(BboMsg)
  BY DEF TopInv, TypeOK, BookTypeOK, BboTypeOK, IsResult, Books
<1>1. /\ UNCHANGED << bboSubs, bboPc, bboInitial, bboBatch, top >>
      /\ book' = r.book
  BY DEF Publish
<1>2. ASSUME UNCHANGED << lastBbo, bboQueue >>, lastBbo = Best(r.book.aggregate)
      PROVE  LostOnlyToHeartbeats /\ TopAnnounced'
  <2>1. UNCHANGED CurrentTop
    BY <1>1, <1>2 DEF CurrentTop, TopAnnounced
  <2>2. \A s \in bboSubs : HasTop(s)' <=> HasTop(s)
    BY <1>1, <1>2, <2>1 DEF HasTop
  <2> QED
    BY <1>1, <1>2, <2>1, <2>2 DEF LostOnlyToHeartbeats, TopAnnounced, CurrentTop
<1>3. CASE r.changes = NoChanges
  <2>1. r.book.aggregate = book.aggregate
    BY <1>0, <1>3, OverlayNothing DEF IsResult
  <2> QED BY <1>2, <1>3, <2>1 DEF Publish, TopAnnounced, CurrentTop
<1>4. CASE r.changes # NoChanges /\ Best(r.book.aggregate) = lastBbo
  BY <1>2, <1>4 DEF Publish
<1>5. CASE r.changes # NoChanges /\ Best(r.book.aggregate) # lastBbo
  <2> DEFINE m == Bbo(seq + 1, Best(r.book.aggregate))
  <2>1. /\ lastBbo' = Best(r.book.aggregate)
        /\ \A s \in bboSubs : bboQueue'[s] = PushDropOldest(bboQueue[s], m)
    BY <1>0, <1>5 DEF Publish, BroadcastBbo
  <2>2. m \in BboMsg /\ m.kind = "bbo" /\ m.best = Best(r.book.aggregate)
    BY <1>0, BestType DEF Bbo, BboMsg, InitialBbo
  <2> HIDE DEF m
  <2>3. CurrentTop' = m.best
    BY <1>1, <2>2 DEF CurrentTop
  <2>4. ASSUME NEW s \in bboSubs PROVE HasTop(s)'
    <3>1. EndsWith(bboQueue'[s].items, m.best)
      BY <1>0, <2>1, <2>2, PushTop
    <3> QED BY <2>3, <3>1 DEF HasTop
  <2> QED
    BY <1>1, <2>1, <2>2, <2>3, <2>4 DEF LostOnlyToHeartbeats, TopAnnounced
<1> QED BY <1>3, <1>4, <1>5

LEMMA LostHeartbeat ==
  ASSUME TopInv, SendHeartbeat
  PROVE  LostOnlyToHeartbeats
<1> DEFINE m == Heartbeat(seq, book.live)
<1>0. /\ bboSubs \subseteq BboSub
      /\ \A s \in BboSub : bboQueue[s] \in Queue(BboMsg)
  BY DEF TopInv, TypeOK, BboTypeOK
<1>1. /\ UNCHANGED << book, bboSubs, bboPc, bboInitial, bboBatch, top >>
      /\ \A s \in bboSubs : bboQueue'[s] = PushDropOldest(bboQueue[s], m)
  BY <1>0 DEF SendHeartbeat, BroadcastBbo
<1>2. m \in BboMsg /\ m.kind # "bbo"
  BY HeartbeatType DEF TopInv, TypeOK, Heartbeat
<1> HIDE DEF m
<1>3. UNCHANGED CurrentTop
  BY <1>1 DEF CurrentTop
<1>4. ASSUME NEW s \in bboSubs, HasTop(s) PROVE HasTop(s)' \/ Overrun(s)'
  <2>1. bboQueue[s] \in Queue(BboMsg)
    BY <1>0
  <2>2. CASE EndsWith(bboQueue[s].items, CurrentTop)
    <3>1. \/ EndsWith(bboQueue'[s].items, CurrentTop)
          \/ /\ NoBbo(bboQueue'[s].items)
             /\ Len(bboQueue'[s].items) >= EffectiveCapacity(bboQueue'[s])
      BY <1>1, <1>2, <2>1, <2>2, PushBeat
    <3> QED BY <1>3, <3>1 DEF HasTop, Overrun
  <2>3. CASE NoBbo(bboQueue[s].items)
    <3>1. NoBbo(bboQueue'[s].items)
      BY <1>1, <1>2, <2>1, <2>3, PushBeatNoBbo
    <3>2. ~EndsWith(bboQueue[s].items, CurrentTop)
      BY <2>3 DEF EndsWith, IsLast, NoBbo
    <3> QED BY <1>1, <1>3, <1>4, <3>1, <3>2 DEF HasTop
  <2> QED BY <1>4, <2>2, <2>3 DEF HasTop
<1> QED BY <1>1, <1>3, <1>4 DEF LostOnlyToHeartbeats

LEMMA NoneIsNoBbo == NoBbo(<< >>) /\ \A b : ~EndsWith(<< >>, b)
BY DEF NoBbo, EndsWith

\* A handler writes what is on its way in order and loses none of it.
LEMMA LostHandler ==
  ASSUME TopInv, TopAnnounced, NEW s \in BboSub, BboStep(s)
  PROVE  LostOnlyToHeartbeats
<1>0. /\ UNCHANGED << book, lastBbo >> /\ lastBbo = CurrentTop
      /\ bboQueue[s] \in Queue(BboMsg) /\ bboBatch[s] \in Seq(BboMsg)
      /\ bboInitial[s].kind = "bbo"
      /\ bboBatch[s] # << >> <=> bboPc[s] = "writing"
  BY BboTypes DEF BboStep, BboSubscribe, BboWriteInitial, BboDrain, BboWrite,
         BboLeave, bookVars, TopAnnounced, TopInv, BatchWhileWriting
<1>1. UNCHANGED CurrentTop
  BY <1>0 DEF CurrentTop
<1>2. ASSUME NEW x \in bboSubs', x # s
      PROVE  x \in bboSubs /\ (HasTop(x)' <=> HasTop(x))
  <2>1. x \in bboSubs /\ x \in BboSub
    BY <1>2 DEF BboStep, BboSubscribe, BboWriteInitial, BboDrain, BboWrite,
         BboLeave, TopInv, TypeOK, BboTypeOK
  <2>2. /\ bboPc'[x] = bboPc[x] /\ bboInitial'[x] = bboInitial[x]
        /\ bboQueue'[x] = bboQueue[x] /\ bboBatch'[x] = bboBatch[x]
        /\ top'[x] = top[x]
    BY <1>2, <2>1, OtherBboUnchanged DEF TopInv
  <2> QED BY <1>1, <2>1, <2>2 DEF HasTop
<1>3. ASSUME s \in bboSubs'
      PROVE  HasTop(s)' \/ (s \in bboSubs /\ ~HasTop(s))
  <2>1. CASE BboSubscribe(s)
    <3>1. /\ bboQueue'[s].items = << >> /\ bboBatch'[s] = << >>
          /\ bboPc'[s] = "initial" /\ bboInitial'[s].best = CurrentTop
      BY <1>0, <2>1 DEF BboSubscribe, NewQueue, Bbo, TopInv, TypeOK, BboTypeOK,
                        CurrentTop
    <3> QED BY <1>1, <3>1, NoneIsNoBbo DEF HasTop
  <2>2. CASE ~BboSubscribe(s)
    <3>0. s \in bboSubs
      BY <1>3, <2>2 DEF BboStep, BboWriteInitial, BboDrain, BboWrite, BboLeave
    <3> SUFFICES ASSUME HasTop(s) PROVE HasTop(s)'
      BY <3>0
    <3>1. CASE BboWriteInitial(s)
      <4>1. /\ bboPc[s] = "initial" /\ bboPc'[s] = "waiting"
            /\ bboQueue'[s].items = bboQueue[s].items
            /\ bboBatch' = bboBatch /\ bboBatch[s] = << >>
            /\ top'[s] = ApplyToTop(top[s], bboInitial[s])
        BY <1>0, <3>1 DEF BboWriteInitial, EndBootstrap,
           TopInv, TypeOK, BboTypeOK, Queue
      <4>2. top'[s].attached /\ top'[s].best = bboInitial[s].best
        BY <1>0, <4>1 DEF ApplyToTop
      <4> QED BY <1>1, <4>1, <4>2 DEF HasTop
    <3>2. CASE BboDrain(s)
      <4>1. /\ bboPc[s] = "waiting" /\ bboPc'[s] = "writing"
            /\ bboQueue'[s].items = << >> /\ bboBatch'[s] = bboQueue[s].items
            /\ bboBatch[s] = << >> /\ top' = top
        BY <1>0, <3>2 DEF BboDrain, Drained, TopInv, TypeOK, BboTypeOK, Queue
      <4> QED BY <1>1, <4>1, NoneIsNoBbo DEF HasTop
    <3>3. CASE BboWrite(s)
      <4> DEFINE m == Head(bboBatch[s])
                 rest == Tail(bboBatch[s])
      <4>1. /\ bboPc[s] = "writing" /\ bboPc'[s] # "initial"
            /\ bboQueue' = bboQueue /\ bboBatch'[s] = rest
            /\ top'[s] = ApplyToTop(top[s], m)
        BY <3>3 DEF BboWrite, TopInv, TypeOK, BboTypeOK
      <4>2. /\ Len(bboBatch[s]) \in Nat \ {0}
            /\ Len(rest) = Len(bboBatch[s]) - 1
            /\ \A i \in 1 .. Len(rest) :
                 rest[i] = bboBatch[s][i + 1] /\ i + 1 \in 1 .. Len(bboBatch[s])
            /\ m = bboBatch[s][1] /\ 1 \in 1 .. Len(bboBatch[s])
        BY <1>0, <4>1, HeadTailProperties
      <4> HIDE DEF m, rest
      <4>3. CASE EndsWith(bboQueue[s].items, CurrentTop)
        BY <1>1, <4>1, <4>3 DEF HasTop
      <4>4. ASSUME NoBbo(bboQueue[s].items), NEW j \in 1 .. Len(bboBatch[s]),
                   IsLast(bboBatch[s], j, CurrentTop)
            PROVE  HasTop(s)'
        <5>0. ASSUME NEW i \in 1 .. Len(rest), j - 1 < i
              PROVE  rest[i].kind # "bbo"
          <6>1. rest[i] = bboBatch[s][i + 1] /\ i + 1 \in 1 .. Len(bboBatch[s])
            BY <4>2
          <6>2. i + 1 > j
            BY <5>0
          <6> QED BY <4>4, <6>1, <6>2 DEF IsLast
        <5>1. CASE j = 1
          <6>1. NoBbo(rest)
            BY <5>0, <5>1 DEF NoBbo
          <6>2. top'[s].attached /\ top'[s].best = CurrentTop
            BY <4>1, <4>2, <4>4, <5>1 DEF IsLast, ApplyToTop
          <6> QED BY <1>1, <4>1, <4>4, <6>1, <6>2 DEF HasTop
        <5>2. CASE j > 1
          <6>1. j - 1 \in 1 .. Len(rest) /\ rest[j - 1] = bboBatch[s][j]
            BY <4>2, <5>2
          <6>2. IsLast(rest, j - 1, CurrentTop)
            BY <4>4, <5>0, <6>1 DEF IsLast
          <6>3. EndsWith(rest, CurrentTop)
            BY <6>1, <6>2 DEF EndsWith
          <6> QED BY <1>1, <4>1, <4>4, <6>3 DEF HasTop
        <5> QED BY <4>2, <5>1, <5>2
      <4>5. CASE /\ NoBbo(bboQueue[s].items) /\ NoBbo(bboBatch[s])
                 /\ top[s].attached /\ top[s].best = CurrentTop
        <5>1. NoBbo(rest) /\ top'[s] = top[s]
          BY <4>1, <4>2, <4>5 DEF NoBbo, ApplyToTop
        <5> QED BY <1>1, <4>1, <4>5, <5>1 DEF HasTop
      <4> QED BY <4>1, <4>3, <4>4, <4>5 DEF HasTop, EndsWith
    <3>4. CASE BboLeave(s)
      BY <1>3, <3>4 DEF BboLeave
    <3> QED BY <2>2, <3>1, <3>2, <3>3, <3>4 DEF BboStep
  <2> QED BY <2>1, <2>2
<1> QED BY <1>1, <1>2, <1>3 DEF LostOnlyToHeartbeats

LEMMA LostStep ==
  ASSUME TopInv, TopAnnounced, [Next]_vars
  PROVE  LostOnlyToHeartbeats /\ TopAnnounced'
<1>1. ASSUME UNCHANGED << book, lastBbo, bboVars >>
      PROVE  LostOnlyToHeartbeats /\ TopAnnounced'
  <2>1. UNCHANGED CurrentTop /\ TopAnnounced'
    BY <1>1 DEF CurrentTop, TopAnnounced
  <2>2. \A s \in bboSubs : HasTop(s)' <=> HasTop(s)
    BY <1>1, <2>1 DEF HasTop, bboVars
  <2> QED BY <1>1, <2>1, <2>2 DEF LostOnlyToHeartbeats, bboVars
<1>2. CASE Ingest
  <2>1. PICK r : IsResult(book, r) /\ Publish(r)
    BY <1>2, IngestPublishes DEF TopInv
  <2> QED BY <2>1, LostPublish
<1>3. CASE SendHeartbeat
  <2>1. TopAnnounced'
    BY <1>3 DEF SendHeartbeat, TopAnnounced, CurrentTop
  <2> QED BY <1>3, <2>1, LostHeartbeat
<1>4. ASSUME NEW s \in L2Sub, L2Step(s)
      PROVE  LostOnlyToHeartbeats /\ TopAnnounced'
  BY <1>1, <1>4 DEF L2Step, L2Subscribe, L2WriteInitial, L2Drain, L2Exhausted,
                    L2Write, L2Leave, L2End, bookVars
<1>5. ASSUME NEW s \in BboSub, BboStep(s)
      PROVE  LostOnlyToHeartbeats /\ TopAnnounced'
  <2>1. TopAnnounced'
    BY <1>5 DEF BboStep, BboSubscribe, BboWriteInitial, BboDrain, BboWrite,
                BboLeave, bookVars, TopAnnounced, CurrentTop
  <2> QED BY <1>5, <2>1, LostHandler
<1>6. CASE UNCHANGED vars
  BY <1>1, <1>6 DEF vars, bookVars
<1> QED BY <1>2, <1>3, <1>4, <1>5, <1>6 DEF Next

\* However many heartbeats are sent: a step leaves a subscriber without the
\* current top of book, shown or on its way, only if it was without it before
\* and the top has not changed, or if heartbeats alone now fill its queue
\* (push_or_close, DropOldest).
THEOREM TopsAreLostOnlyToHeartbeats == Spec => TopIsLostOnlyToHeartbeats
<1>1. Init => TopAnnounced
  BY DEF Init, TopAnnounced, CurrentTop, EmptyBook
<1>2. TopInv /\ TopAnnounced /\ [Next]_vars
        => TopAnnounced' /\ [LostOnlyToHeartbeats]_vars
  BY LostStep
<1> QED
  BY <1>1, <1>2, TopInit, TopStep, PTL
     DEF Spec, TopIsLostOnlyToHeartbeats, LostOnlyToHeartbeats
=============================================================================
