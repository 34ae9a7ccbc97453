----------------------------- MODULE SymbolSync -----------------------------
(***************************************************************************)
(* The resynchronisation state machine of one (venue, symbol) pair,        *)
(* include/bobby/hermeneutic/book/symbol_sync.hpp.  It does no I/O: each   *)
(* event handler takes the machine's state and returns its next state and  *)
(* the list of actions the driver (VenueSession) must carry out, in order. *)
(*                                                                         *)
(* The sequence policy, a template parameter in the code, is the four      *)
(* constant parameters below; module Venues defines their values.          *)
(***************************************************************************)
EXTENDS Subsequences, FiniteSetsExt

CONSTANTS
  ShouldDropBuffered(_, _), \* (event, snapshot): the snapshot covers event
  BridgesSnapshot(_, _),    \* (event, snapshot): event carries on from it
  IsContiguous(_, _),       \* (event, last id): event follows that update
  kTrustsConnectionOrder    \* the snapshot is pushed first, in stream order

ASSUME TrustsAssumption == kTrustsConnectionOrder \in BOOLEAN

-----------------------------------------------------------------------------
(* Actions: SyncAction.  levels is what the update or snapshot carries;    *)
(* valid says whether the book accepts every level of it.                  *)

RequestSnapshot == [type |-> "RequestSnapshot"]
InvalidateVenue == [type |-> "InvalidateVenue"]
ApplySnapshot(m) ==
  [type |-> "ApplySnapshot", levels |-> m.levels, valid |-> m.valid]
ApplyDelta(m) ==
  [type |-> "ApplyDelta", levels |-> m.levels, valid |-> m.valid]

-----------------------------------------------------------------------------
(* State of one machine.                                                   *)

InitSync ==
  [state |-> "Buffering", buffer |-> << >>,
   last_final_id |-> 0, snapshot_requested |-> FALSE]

\* Seeded fault: the venue's levels stay in the book after a gap.
HandleGapQuietly(sync, unresolved) ==
  [sync |-> [InitSync EXCEPT !.buffer = unresolved], actions |-> << >>]

\* Seeded fault: the machine asks for a snapshot, as its driver also does.
HandleGapRequesting(sync, unresolved) ==
  [sync    |-> [InitSync EXCEPT !.buffer = unresolved],
   actions |-> << InvalidateVenue, RequestSnapshot >>]

\* handle_gap(first_unresolved): back to Buffering, keeping the unresolved
\* suffix of the buffer, which may still bridge the next snapshot.
HandleGap(sync, unresolved) ==
  [sync    |-> [InitSync EXCEPT !.buffer = unresolved],
   actions |-> << InvalidateVenue >>]

OnConnected(sync) ==
  IF sync.state = "Buffering" /\ ~sync.snapshot_requested
    THEN [sync    |-> [sync EXCEPT !.snapshot_requested = TRUE],
          actions |-> << RequestSnapshot >>]
    ELSE [sync |-> sync, actions |-> << >>]

OnDepthUpdate(sync, update) ==
  IF sync.state = "Buffering"
    THEN [sync    |-> [sync EXCEPT !.buffer = Append(@, update)],
          actions |-> << >>]
  ELSE IF ~IsContiguous(update, sync.last_final_id)
    THEN HandleGap(sync, Append(sync.buffer, update))
  ELSE [sync    |-> [sync EXCEPT !.last_final_id = update.final_id],
        actions |-> << ApplyDelta(update) >>]

\* Seeded fault: an empty buffer is enough to go Live, for every venue.
OnSnapshotTrusting(sync, snapshot, survivors) ==
  IF sync.buffer # << >>
    THEN [sync    |-> [sync EXCEPT !.buffer = survivors],
          actions |-> << RequestSnapshot >>]
    ELSE [sync    |-> [sync EXCEPT !.state = "Live",
                                   !.last_final_id = snapshot.last_update_id],
          actions |-> << ApplySnapshot(snapshot) >>]

\* on_snapshot when no buffered update bridges the snapshot.  survivors is
\* the buffer without the updates the snapshot covers.
OnSnapshotWithoutBridge(sync, snapshot, survivors) ==
  IF ~kTrustsConnectionOrder
    THEN [sync    |-> [sync EXCEPT !.buffer = survivors],
          actions |-> << RequestSnapshot >>]
  ELSE IF sync.buffer = << >>
    THEN [sync    |-> [sync EXCEPT !.state = "Live",
                                   !.last_final_id = snapshot.last_update_id],
          actions |-> << ApplySnapshot(snapshot) >>]
  ELSE HandleGap(sync, survivors)

\* on_snapshot when tail[1] bridges the snapshot: the snapshot, then every
\* update of tail up to the first that does not follow its predecessor.
OnSnapshotWithBridge(sync, snapshot, tail) ==
  LET breaks  == {i \in 2 .. Len(tail) :
                    ~IsContiguous(tail[i], tail[i - 1].final_id)}
      applied == IF breaks = {} THEN tail
                                ELSE SubSeq(tail, 1, Min(breaks) - 1)
      deltas  == [i \in 1 .. Len(applied) |-> ApplyDelta(applied[i])]
      prefix  == << ApplySnapshot(snapshot) >> \o deltas
      gap     == HandleGap(sync, SubSeq(tail, Len(applied) + 1, Len(tail)))
  IN  IF breaks = {}
        THEN [sync    |-> [sync EXCEPT !.state = "Live", !.buffer = << >>,
                                       !.last_final_id = tail[Len(tail)].final_id],
              actions |-> prefix]
        ELSE [sync |-> gap.sync, actions |-> prefix \o gap.actions]

\* The handler never looks at the machine's state: a snapshot that arrives
\* while Live meets an empty buffer.
OnSnapshot(sync, snapshot) ==
  LET survivors == AtIndices(sync.buffer,
                     {i \in DOMAIN sync.buffer :
                        ~ShouldDropBuffered(sync.buffer[i], snapshot)})
      bridges   == {i \in 1 .. Len(survivors) :
                      BridgesSnapshot(survivors[i], snapshot)}
  IN  IF bridges = {}
        THEN OnSnapshotWithoutBridge(sync, snapshot, survivors)
        ELSE OnSnapshotWithBridge(sync, snapshot,
               SubSeq(survivors, Min(bridges), Len(survivors)))

OnDisconnected(sync) ==
  [sync |-> InitSync, actions |-> << InvalidateVenue >>]
=============================================================================
