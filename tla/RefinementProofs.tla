-------------------------- MODULE RefinementProofs --------------------------
(***************************************************************************)
(* SymbolBook, with its queues, handler threads and clients, implements    *)
(* ReplicatedBook: every step is one step of the promise, or none.         *)
(***************************************************************************)
EXTENDS BboStreamProofs

Inv == StreamInv /\ TopInv

-----------------------------------------------------------------------------
(* What a step does to what the clients show.                              *)

LEMMA ViewsUnchanged ==
  ASSUME UNCHANGED << replica, top >>
  PROVE  L2Views' = L2Views /\ BboViews' = BboViews
BY DEF L2Views, BboViews

LEMMA PublishRefines ==
  ASSUME Inv, NEW r, IsResult(book, r), Publish(r)
  PROVE  [Replicated!Next]_(Replicated!vars)
<1>0. seq \in Nat /\ log \in [0 .. seq -> Levels] /\ r.book.aggregate \in Levels
  BY DEF Inv, StreamInv, TypeOK, BookTypeOK, IsResult, Books
<1>1. L2Views' = L2Views /\ BboViews' = BboViews
  BY ViewsUnchanged DEF Publish
<1>2. CASE r.changes = NoChanges
  BY <1>1, <1>2 DEF Publish, Replicated!vars
<1>3. CASE r.changes # NoChanges
  <2>1. /\ seq' = seq + 1
        /\ log' = [n \in 0 .. seq + 1 |->
                     IF n <= seq THEN log[n] ELSE r.book.aggregate]
    BY <1>3 DEF Publish
  <2>2. /\ DOMAIN log' = 0 .. seq + 1
        /\ \A n \in 0 .. seq : log'[n] = log[n]
        /\ log'[seq + 1] \in Levels
    BY <1>0, <2>1
  <2>3. Replicated!Revise
    BY <1>1, <2>1, <2>2 DEF Replicated!Revise
  <2>4. QED
    BY <2>3 DEF Replicated!Next
<1>4. QED
  BY <1>2, <1>3

-----------------------------------------------------------------------------
(* Steps of an L2 handler.                                                 *)

LEMMA L2SubscribeRefines ==
  ASSUME Inv, NEW s \in L2Sub, L2Subscribe(s)
  PROVE  Replicated!L2Detach(s)
<1>1. /\ replica' = [replica EXCEPT ![s] = NoReplica]
      /\ UNCHANGED << seq, log, top >>
  BY DEF L2Subscribe, bookVars, bboVars
<1>2. BboViews' = BboViews
  BY <1>1 DEF BboViews
<1>3. L2Views' = [L2Views EXCEPT ![s] = [attached |-> FALSE]]
  BY <1>1 DEF L2Views, NoReplica, Inv, StreamInv, TypeOK, L2TypeOK
<1>4. QED
  BY <1>1, <1>2, <1>3 DEF Replicated!L2Detach, Replicated!Detached

LEMMA L2WriteInitialRefines ==
  ASSUME Inv, NEW s \in L2Sub, L2WriteInitial(s)
  PROVE  Replicated!L2Attach(s)
<1> DEFINE m == l2Initial[s]
<1>0. /\ m \in SnapshotMsg /\ m.seq \in Nat /\ replica \in [L2Sub -> Replicas]
      /\ HandlerOK(s) /\ ~replica[s].gap /\ seq \in Nat
  BY DEF Inv, StreamInv, L2Inv, TypeOK, BookTypeOK, L2TypeOK, SnapshotMsg
<1>1. /\ l2Pc[s] = "initial" /\ UNCHANGED << seq, log, top >>
      /\ replica' = [replica EXCEPT ![s] = ApplyToReplica(replica[s], m)]
  BY DEF L2WriteInitial, bookVars, bboVars
<1>2. ~replica[s].attached /\ m.seq \in 0 .. seq /\ m.levels = log[m.seq]
  BY <1>0, <1>1 DEF HandlerOK
<1>3. /\ ApplyToReplica(replica[s], m).attached
      /\ ApplyToReplica(replica[s], m).seq = m.seq
      /\ ApplyToReplica(replica[s], m).levels = m.levels
  <2>1. ApplyToReplica(replica[s], m) =
          [replica[s] EXCEPT !.attached = TRUE, !.seq = m.seq,
                             !.levels = m.levels, !.unbacked = FALSE]
    BY <1>0 DEF ApplyToReplica, SnapshotMsg
  <2>2. QED
    BY <1>0, <2>1 DEF Replicas
<1> HIDE DEF m
<1>4. BboViews' = BboViews
  BY <1>1 DEF BboViews
<1>5. L2Views' = [L2Views EXCEPT ![s] =
                    [attached |-> TRUE, seq |-> m.seq, state |-> log[m.seq]]]
  BY <1>0, <1>1, <1>2, <1>3 DEF L2Views
<1>6. ~L2Views[s].attached
  BY <1>2 DEF L2Views
<1>7. QED
  BY <1>1, <1>2, <1>4, <1>5, <1>6
     DEF Replicated!L2Attach, Replicated!L2View

LEMMA L2WriteRefines ==
  ASSUME Inv, NEW s \in L2Sub, L2Write(s)
  PROVE  Replicated!L2Advance(s) \/ UNCHANGED Replicated!vars
<1> DEFINE m == Head(l2Batch[s])
           c == replica[s]
<1>1. /\ l2Pc[s] = "writing" /\ l2Batch[s] # << >>
      /\ UNCHANGED << seq, log, top >>
      /\ replica' = [replica EXCEPT ![s] = ApplyToReplica(c, m)]
  BY DEF L2Write, bookVars, bboVars, Inv, StreamInv, BatchWhileWriting
<1>2. /\ StreamOK(s) /\ HandlerOK(s) /\ ReplicaOK(s) /\ ~c.gap
      /\ c \in Replicas /\ c.seq \in Nat /\ replica \in [L2Sub -> Replicas]
      /\ seq \in Nat /\ l2Batch[s] \in Seq(L2Msg)
  BY DEF Inv, StreamInv, L2Inv, TypeOK, BookTypeOK, L2TypeOK, Replicas
<1>3. Serving(s) /\ c.attached /\ Base(s) = c.seq
  BY <1>1, <1>2 DEF HandlerOK, Serving, Base
<1>4. m \in L2Msg /\ m = l2Batch[s][1] /\ 1 \in 1 .. Len(l2Batch[s])
  BY <1>1, <1>2, HeadTailType
<1>5. Follows(c.seq, m) /\ IsExactDiff(m, seq, log)
  BY <1>1, <1>2, <1>3, <1>4, ChainTail DEF StreamOK, AreExact
<1>6. c.levels = log[c.seq]
  BY <1>2, <1>3 DEF ReplicaOK
<1>7. BboViews' = BboViews
  BY <1>1 DEF BboViews
<1>8. L2Views[s] = [attached |-> TRUE, seq |-> c.seq, state |-> c.levels]
  BY <1>3 DEF L2Views
<1> HIDE DEF m, c
<1>9. CASE m.kind = "diff"
  <2>1. m.seq = c.seq + 1 /\ ~IsBookSeqGap(c, m.seq)
    BY <1>5, <1>9 DEF Follows, IsBookSeqGap
  <2>2. ApplyToReplica(c, m) =
          [c EXCEPT !.seq = m.seq, !.levels = Overlay(c.levels, m.levels),
                    !.unbacked = FALSE]
    BY <1>2, <1>9, <2>1 DEF ApplyToReplica
  <2>3. /\ log[m.seq] = Overlay(c.levels, m.levels)
        /\ c.seq + 1 <= seq
    BY <1>2, <1>5, <1>6, <1>9, <2>1 DEF IsExactDiff
  <2>4. /\ ApplyToReplica(c, m).attached
        /\ ApplyToReplica(c, m).seq = c.seq + 1
        /\ ApplyToReplica(c, m).levels = log[c.seq + 1]
    BY <1>2, <1>3, <2>1, <2>2, <2>3 DEF Replicas
  <2>5. L2Views' = [L2Views EXCEPT ![s] =
                      [attached |-> TRUE, seq |-> c.seq + 1,
                       state |-> log[c.seq + 1]]]
    BY <1>1, <1>2, <2>4 DEF L2Views
  <2>6. c.seq < seq
    BY <1>2, <2>3
  <2>7. Replicated!L2Advance(s)
    BY <1>1, <1>7, <1>8, <2>5, <2>6
       DEF Replicated!L2Advance, Replicated!L2View
  <2>8. QED
    BY <2>7
<1>10. CASE m.kind = "heartbeat"
  <2>1. ApplyToReplica(c, m) = [c EXCEPT !.unbacked = (m.live = {})]
    BY <1>2, <1>10 DEF ApplyToReplica
  <2>2. /\ ApplyToReplica(c, m).attached = c.attached
        /\ ApplyToReplica(c, m).seq = c.seq
        /\ ApplyToReplica(c, m).levels = c.levels
    BY <1>2, <2>1 DEF Replicas
  <2>3. L2Views' = L2Views
    BY <1>1, <1>2, <2>2 DEF L2Views, c
  <2>4. QED
    BY <1>1, <1>7, <2>3 DEF Replicated!vars
<1>11. QED
  BY <1>4, <1>9, <1>10, MsgSeq

-----------------------------------------------------------------------------
(* Steps of a Bbo handler.                                                 *)

LEMMA BboSubscribeRefines ==
  ASSUME Inv, NEW s \in BboSub, BboSubscribe(s)
  PROVE  Replicated!BboDetach(s)
<1>1. /\ top' = [top EXCEPT ![s] = NoTop]
      /\ UNCHANGED << seq, log, replica >>
  BY DEF BboSubscribe, bookVars, l2Vars
<1>2. L2Views' = L2Views
  BY <1>1 DEF L2Views
<1>3. BboViews' = [BboViews EXCEPT ![s] = [attached |-> FALSE]]
  BY <1>1 DEF BboViews, NoTop, Inv, StreamInv, TypeOK, BboTypeOK
<1>4. QED
  BY <1>1, <1>2, <1>3 DEF Replicated!BboDetach, Replicated!Detached

\* A client of the Bbo stream moves to a top that is exact and not older.
LEMMA ShowTopRefines ==
  ASSUME Inv, NEW s \in BboSub, NEW m \in InitialBbo,
         m.seq <= seq, m.best = Best(log[m.seq]),
         top[s].attached => top[s].seq <= m.seq,
         UNCHANGED << seq, log, replica >>,
         top' = [top EXCEPT ![s] = ApplyToTop(top[s], m)]
  PROVE  Replicated!BboMove(s)
<1>1. m.kind = "bbo" /\ m.seq \in Nat /\ seq \in Nat /\ top \in [BboSub -> TopViews]
  BY DEF InitialBbo, Inv, StreamInv, TypeOK, BookTypeOK, BboTypeOK
<1>2. ApplyToTop(top[s], m) = [attached |-> TRUE, seq |-> m.seq, best |-> m.best]
  BY <1>1 DEF ApplyToTop
<1>3. BboViews' = [BboViews EXCEPT ![s] =
                     [attached |-> TRUE, seq |-> m.seq,
                      best |-> Best(log[m.seq])]]
  <2>1. /\ \A x \in BboSub : x # s => top'[x] = top[x]
        /\ top'[s].attached /\ top'[s].seq = m.seq /\ top'[s].best = m.best
    BY <1>1, <1>2
  <2>2. QED
    BY <2>1 DEF BboViews
<1>4. L2Views' = L2Views
  BY DEF L2Views
<1>5. BboViews[s].attached => BboViews[s].seq <= m.seq
  BY DEF BboViews
<1>6. m.seq \in 0 .. seq
  BY <1>1
<1>7. QED
  BY <1>3, <1>4, <1>5, <1>6 DEF Replicated!BboMove, Replicated!BboView

LEMMA BboWriteInitialRefines ==
  ASSUME Inv, NEW s \in BboSub, BboWriteInitial(s)
  PROVE  Replicated!BboMove(s)
<1>1. /\ bboPc[s] = "initial" /\ UNCHANGED << seq, log, replica >>
      /\ top' = [top EXCEPT ![s] = ApplyToTop(top[s], bboInitial[s])]
  BY DEF BboWriteInitial, bookVars, l2Vars
<1>2. TopOK(s) /\ bboInitial[s] \in InitialBbo
  BY BboTypes DEF Inv, TopInv, BboInv
<1>3. QED
  BY <1>1, <1>2, ShowTopRefines DEF TopOK

LEMMA BboWriteRefines ==
  ASSUME Inv, NEW s \in BboSub, BboWrite(s)
  PROVE  Replicated!BboMove(s) \/ UNCHANGED Replicated!vars
<1> DEFINE m == Head(bboBatch[s])
<1>1. /\ bboPc[s] = "writing" /\ bboBatch[s] # << >>
      /\ UNCHANGED << seq, log, replica >>
      /\ top' = [top EXCEPT ![s] = ApplyToTop(top[s], m)]
  BY DEF BboWrite, bookVars, l2Vars, Inv, StreamInv, BatchWhileWriting
<1>2. /\ PendingOK(s) /\ bboBatch[s] \in Seq(BboMsg)
      /\ top \in [BboSub -> TopViews]
  BY BboTypes DEF Inv, TopInv, BboInv, TypeOK, BboTypeOK
<1>3. m \in BboMsg /\ m = bboBatch[s][1] /\ 1 \in 1 .. Len(bboBatch[s])
  BY <1>1, <1>2, HeadTailType
<1>4. IsGood(m, top[s].seq, seq, log)
  BY <1>1, <1>2, <1>3 DEF PendingOK, AreGood, BboBase
<1> HIDE DEF m
<1>5. CASE m.kind = "bbo"
  <2>1. m \in InitialBbo
    BY <1>3, <1>5 DEF BboMsg, HeartbeatMsg
  <2>2. QED
    BY <1>1, <1>4, <1>5, <2>1, ShowTopRefines DEF IsGood
<1>6. CASE m.kind # "bbo"
  <2>1. top' = top
    BY <1>1, <1>2, <1>6 DEF ApplyToTop
  <2>2. QED
    BY <1>1, <2>1, ViewsUnchanged DEF Replicated!vars
<1>7. QED
  BY <1>5, <1>6

-----------------------------------------------------------------------------
LEMMA StepRefines == Inv /\ [Next]_vars => [Replicated!Next]_(Replicated!vars)
<1> SUFFICES ASSUME Inv, [Next]_vars
             PROVE  [Replicated!Next]_(Replicated!vars)
  OBVIOUS
<1>0. ASSUME UNCHANGED << seq, log, replica, top >>
      PROVE  [Replicated!Next]_(Replicated!vars)
  BY <1>0, ViewsUnchanged DEF Replicated!vars
<1>1. CASE Ingest
  <2>1. PICK r : IsResult(book, r) /\ Publish(r)
    BY <1>1, IngestPublishes DEF Inv, StreamInv
  <2>2. QED
    BY <2>1, PublishRefines
<1>2. CASE SendHeartbeat
  BY <1>0, <1>2 DEF SendHeartbeat
<1>3. ASSUME NEW s \in L2Sub, L2Step(s)
      PROVE  [Replicated!Next]_(Replicated!vars)
  <2>1. CASE L2Subscribe(s)
    BY <2>1, L2SubscribeRefines DEF Replicated!Next
  <2>2. CASE L2WriteInitial(s)
    BY <2>2, L2WriteInitialRefines DEF Replicated!Next
  <2>3. CASE L2Write(s)
    BY <2>3, L2WriteRefines DEF Replicated!Next
  <2>4. CASE L2Drain(s) \/ L2Exhausted(s) \/ L2Leave(s)
    BY <1>0, <2>4 DEF L2Drain, L2Exhausted, L2Leave, L2End, bookVars, bboVars
  <2>5. QED
    BY <1>3, <2>1, <2>2, <2>3, <2>4 DEF L2Step
<1>4. ASSUME NEW s \in BboSub, BboStep(s)
      PROVE  [Replicated!Next]_(Replicated!vars)
  <2>1. CASE BboSubscribe(s)
    BY <2>1, BboSubscribeRefines DEF Replicated!Next
  <2>2. CASE BboWriteInitial(s)
    BY <2>2, BboWriteInitialRefines DEF Replicated!Next
  <2>3. CASE BboWrite(s)
    BY <2>3, BboWriteRefines DEF Replicated!Next
  <2>4. CASE BboDrain(s) \/ BboLeave(s)
    BY <1>0, <2>4 DEF BboDrain, BboLeave, bookVars, l2Vars
  <2>5. QED
    BY <1>4, <2>1, <2>2, <2>3, <2>4 DEF BboStep
<1>5. CASE UNCHANGED vars
  BY <1>0, <1>5 DEF vars, bookVars, l2Vars, bboVars
<1>6. QED
  BY <1>1, <1>2, <1>3, <1>4, <1>5 DEF Next

\* The aggregator and its clients keep the promise of ReplicatedBook: an L2
\* client starts at a published revision and then shows every later one in
\* order, a Bbo client shows tops of published revisions that never go back.
THEOREM Implementation == Spec => ImplementsReplicatedBook
<1>1. Init => Replicated!Init
  <2> SUFFICES ASSUME Init PROVE Replicated!Init
    OBVIOUS
  <2>1. /\ L2Views = [s \in L2Sub |-> [attached |-> FALSE]]
        /\ BboViews = [s \in BboSub |-> [attached |-> FALSE]]
    BY DEF Init, L2Views, BboViews, NoReplica, NoTop
  <2>2. QED
    BY <2>1 DEF Init, Replicated!Init, Replicated!Detached
<1>2. Init => Inv
  BY StreamInit, TopInit DEF Inv
<1>3. Inv /\ [Next]_vars => Inv'
  BY StreamStep, TopStep DEF Inv
<1>4. QED
  BY <1>1, <1>2, <1>3, StepRefines, PTL
     DEF Spec, ImplementsReplicatedBook, Replicated!Spec
=============================================================================
