--------------------------- MODULE SubscriberQueue ---------------------------
(***************************************************************************)
(* The bounded queue between a publisher and one subscriber's handler      *)
(* thread, apps/aggregator/aggregator_service.hpp, SubscriberQueue.  Each  *)
(* operation runs under the queue's mutex, so it is one step; the wake-up  *)
(* that follows a push is not modelled: wait_and_drain() has a timeout.    *)
(***************************************************************************)
EXTENDS Naturals, Sequences

CONSTANTS
  Capacity,             \* kSubscriberQueueCapacity
  BootstrapMultiplier   \* kBootstrapCapacityMultiplier

ASSUME CapacityAssumption ==
  /\ Capacity \in Nat \ {0}
  /\ BootstrapMultiplier \in Nat \ {0}

NewQueue == [items |-> << >>, closed |-> FALSE, bootstrapping |-> TRUE]

\* Seeded fault: no ceiling while bootstrapping.
UnlimitedBootstrap(q) ==
  IF q.bootstrapping THEN Len(q.items) + 1 ELSE Capacity

EffectiveCapacity(q) ==
  IF q.bootstrapping THEN Capacity * BootstrapMultiplier ELSE Capacity

\* Seeded fault: a full queue refuses the newest update.
PushDropNewest(q, m) ==
  IF Len(q.items) >= EffectiveCapacity(q)
    THEN q ELSE [q EXCEPT !.items = Append(@, m)]

\* push_or_close with OverflowPolicy::DropOldest.
PushDropOldest(q, m) ==
  IF Len(q.items) >= EffectiveCapacity(q)
    THEN [q EXCEPT !.items = Append(Tail(@), m)]
    ELSE [q EXCEPT !.items = Append(@, m)]

\* push_or_close with OverflowPolicy::Close.
PushOrClose(q, m) ==
  IF q.closed THEN q
  ELSE IF Len(q.items) >= EffectiveCapacity(q)
    THEN [q EXCEPT !.closed = TRUE, !.items = << >>]
  ELSE [q EXCEPT !.items = Append(@, m)]

EndBootstrap(q) == [q EXCEPT !.bootstrapping = FALSE]

\* Seeded fault: the queue is copied, not emptied.
DrainedByCopy(q) == q

\* wait_and_drain takes everything queued.
Drained(q) == [q EXCEPT !.items = << >>]
=============================================================================
