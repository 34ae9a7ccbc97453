--------------------------- MODULE ReplicatedBook ---------------------------
(***************************************************************************)
(* What the aggregator promises to its clients, without queues, threads or *)
(* messages.  One symbol's book goes through numbered revisions.  A client *)
(* of the L2 stream starts from some revision and then sees every later    *)
(* one, in order, none skipped.  A client of the Bbo stream sees tops of   *)
(* book of revisions that never go backwards.  Either may have to start    *)
(* again.                                                                  *)
(***************************************************************************)
EXTENDS Naturals

CONSTANTS
  L2Client, BboClient,
  States,        \* states of the book
  EmptyState,    \* the state before any venue contributed
  TopOf(_)       \* top of book of a state

VARIABLES
  last,      \* number of the latest revision
  history,   \* the state of the book at each revision 0 .. last
  l2,        \* L2 client -> the revision and state it shows
  bbo        \* Bbo client -> the revision and top of book it shows

Detached == [attached |-> FALSE]
L2View(n, state) == [attached |-> TRUE, seq |-> n, state |-> state]
BboView(n, best) == [attached |-> TRUE, seq |-> n, best |-> best]

vars == << last, history, l2, bbo >>

Init ==
  /\ last = 0
  /\ history = [n \in 0 .. 0 |-> EmptyState]
  /\ l2 = [c \in L2Client |-> Detached]
  /\ bbo = [c \in BboClient |-> Detached]

\* A new revision; the earlier ones stay what they were.
Revise ==
  /\ last' = last + 1
  /\ DOMAIN history' = 0 .. last + 1
  /\ \A n \in 0 .. last : history'[n] = history[n]
  /\ history'[last + 1] \in States
  /\ UNCHANGED << l2, bbo >>

L2Attach(c) ==
  /\ ~l2[c].attached
  /\ \E n \in 0 .. last : l2' = [l2 EXCEPT ![c] = L2View(n, history[n])]
  /\ UNCHANGED << last, history, bbo >>

\* The next revision, and no other.
L2Advance(c) ==
  /\ l2[c].attached
  /\ l2[c].seq < last
  /\ l2' = [l2 EXCEPT ![c] = L2View(@.seq + 1, history[@.seq + 1])]
  /\ UNCHANGED << last, history, bbo >>

L2Detach(c) ==
  /\ l2' = [l2 EXCEPT ![c] = Detached]
  /\ UNCHANGED << last, history, bbo >>

\* Any revision not older than the one shown.
BboMove(c) ==
  /\ \E n \in 0 .. last :
       /\ bbo[c].attached => bbo[c].seq <= n
       /\ bbo' = [bbo EXCEPT ![c] = BboView(n, TopOf(history[n]))]
  /\ UNCHANGED << last, history, l2 >>

BboDetach(c) ==
  /\ bbo' = [bbo EXCEPT ![c] = Detached]
  /\ UNCHANGED << last, history, l2 >>

Next ==
  \/ Revise
  \/ \E c \in L2Client : L2Attach(c) \/ L2Advance(c) \/ L2Detach(c)
  \/ \E c \in BboClient : BboMove(c) \/ BboDetach(c)

Spec == Init /\ [][Next]_vars
=============================================================================
