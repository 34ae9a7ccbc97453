------------------------------- MODULE Venues -------------------------------
(***************************************************************************)
(* What the session code knows about each venue: the sequence policy       *)
(* (which buffered depth updates a snapshot makes obsolete, which one      *)
(* bridges it, which one follows the last one applied), whether the venue  *)
(* pushes its snapshot as the first message of an ordered connection, and  *)
(* which of the identifiers on the wire the feed's parser keeps.           *)
(*                                                                         *)
(* In the code these are the two template parameters Feed and Policy of    *)
(* VenueSession; here they are the operators a configuration gives to the  *)
(* constant operators of SymbolSync and VenueSession.                      *)
(*                                                                         *)
(* A depth update is a record with first_id, final_id and prev_final_id; a *)
(* snapshot a record with last_update_id.                                  *)
(***************************************************************************)
EXTENDS Naturals

-----------------------------------------------------------------------------
(* Binance USD-M futures.                                                  *)

FuturesTrustsConnectionOrder == FALSE
FuturesSnapshotViaRest == TRUE

FuturesShouldDropBuffered(event, snapshot) ==
  event.final_id < snapshot.last_update_id

FuturesBridgesSnapshot(event, snapshot) ==
  /\ event.first_id <= snapshot.last_update_id
  /\ event.final_id >= snapshot.last_update_id

\* Seeded fault: a later update is accepted in place of the next one.
FuturesAcceptsLater(event, lastId) == event.prev_final_id >= lastId

FuturesIsContiguous(event, lastId) == event.prev_final_id = lastId

\* The wire fields U, u and pu are all kept.
FuturesParseIds(U, u, pu) ==
  [first_id |-> U, final_id |-> u, prev_final_id |-> pu]

-----------------------------------------------------------------------------
(* Binance spot.                                                           *)

SpotTrustsConnectionOrder == FALSE
SpotSnapshotViaRest == TRUE

SpotShouldDropBuffered(event, snapshot) ==
  event.final_id <= snapshot.last_update_id

SpotBridgesSnapshot(event, snapshot) ==
  /\ event.first_id <= snapshot.last_update_id + 1
  /\ event.final_id >= snapshot.last_update_id + 1

\* Seeded fault: no continuity check.
SpotAcceptsAny(event, lastId) == TRUE

SpotIsContiguous(event, lastId) == event.first_id = lastId + 1

\* A spot update carries no back pointer: the field is set to zero.
SpotParseIds(U, u, pu) ==
  [first_id |-> U, final_id |-> u, prev_final_id |-> 0]

-----------------------------------------------------------------------------
(* Bybit, linear and spot.                                                 *)

BybitTrustsConnectionOrder == TRUE
BybitSnapshotViaRest == FALSE

BybitShouldDropBuffered(event, snapshot) ==
  event.final_id <= snapshot.last_update_id

BybitBridgesSnapshot(event, snapshot) ==
  event.final_id = snapshot.last_update_id + 1

\* Seeded fault: a later update is accepted in place of the next one.
BybitAcceptsLater(event, lastId) == event.final_id > lastId

BybitIsContiguous(event, lastId) == event.final_id = lastId + 1

\* One identifier per message, no back pointer.
BybitParseIds(U, u, pu) ==
  [first_id |-> u, final_id |-> u, prev_final_id |-> 0]

-----------------------------------------------------------------------------
(* OKX.                                                                    *)

OkxTrustsConnectionOrder == TRUE
OkxSnapshotViaRest == FALSE

OkxShouldDropBuffered(event, snapshot) ==
  event.final_id < snapshot.last_update_id

OkxBridgesSnapshot(event, snapshot) ==
  event.prev_final_id = snapshot.last_update_id

OkxIsContiguous(event, lastId) == event.prev_final_id = lastId

\* One seqId per message, with the prevSeqId it follows.
OkxParseIds(U, u, pu) ==
  [first_id |-> u, final_id |-> u, prev_final_id |-> pu]
=============================================================================
