---------------------------- MODULE VenueSession ----------------------------
(***************************************************************************)
(* One venue session, include/bobby/hermeneutic/ingestion/                 *)
(* venue_session.hpp: the coroutine run() that connects, subscribes, reads *)
(* and dispatches, the detached coroutines that fetch REST snapshots, the  *)
(* one SymbolSync machine per symbol they all drive, the contribution of   *)
(* this venue to each symbol's book, and stop().                           *)
(*                                                                         *)
(* Everything in the session runs on one strand, so the code between two   *)
(* suspension points is one action.  The exchange is the environment: it   *)
(* changes its book, publishes depth updates on the connection, answers    *)
(* REST requests at a moment of its choosing, and drops connections.       *)
(*                                                                         *)
(* Prices are the only structure a book keeps here.  The size a change     *)
(* gives to its price is the number of that change, so two books are equal *)
(* exactly when they have seen the same changes.  Size 0 is no level.      *)
(***************************************************************************)
EXTENDS SymbolSync, SequencesExt

CONSTANTS
  Symbols,             \* symbols of the session
  Price,               \* prices of a book, both sides together
  NoBook,              \* the venue has no entry in the symbol's book
  ParseIds(_, _, _),   \* identifiers the feed keeps of a depth update
  kSnapshotViaRest,    \* snapshots are fetched over REST, not pushed
  IdSteps,             \* by how much the exchange advances its identifiers
  AllowReset,          \* the exchange may restart its identifiers at 1
  AllowHeartbeat,      \* the exchange may publish updates without changes
  InOrder,             \* a pushed snapshot is the first message, up to date
  AllowLoss,           \* depth updates may be unparseable (skipped)
  AllowRejects,        \* messages may carry levels the book rejects
  AllowBadBody,        \* a fetched snapshot may be unparseable
  MaxChanges, MaxSpan, MaxWire, MaxPush, MaxConnects, MaxFetch  \* bounds

ASSUME SessionAssumption ==
  /\ {kSnapshotViaRest, AllowReset, AllowHeartbeat, InOrder, AllowLoss,
      AllowRejects, AllowBadBody} \subseteq BOOLEAN
  \* No venue both trusts its connection's order and fetches over REST.
  /\ kSnapshotViaRest = ~kTrustsConnectionOrder
  /\ NoBook \notin [Price -> Nat]
  /\ IdSteps \subseteq Nat \ {0}
  /\ {MaxChanges, MaxSpan, MaxWire, MaxPush, MaxConnects, MaxFetch}
       \subseteq Nat \ {0}

VARIABLES
  hist,      \* exchange: symbol -> its changes so far, each a price and an id
  pub,       \* exchange: symbol -> number of changes already published
  wire,      \* messages in flight on the current connection
  pushed,    \* symbol -> snapshots pushed on the current connection
  phase,     \* where run() is
  stopping,  \* stopping_
  connects,  \* connections made so far
  sync,      \* symbol_syncs_
  book,      \* symbol -> this venue's levels in the symbol's book, or NoBook
  fetch      \* snapshot_sigs_ with the coroutine behind each signal

exchangeVars == << hist, pub, wire, pushed >>
sessionVars == << phase, stopping, connects, sync, book, fetch >>
vars == << exchangeVars, sessionVars >>

-----------------------------------------------------------------------------
(* The exchange's book and messages.                                       *)

\* The exchange's book of s after its first c changes.
BookAt(s, c) ==
  [p \in Price |-> Max({0} \cup {i \in 1 .. c : hist[s][i].px = p})]

\* The depth update that reports changes lo+1 .. hi (none when lo = hi: an
\* OKX heartbeat), as the feed's parse_message returns it.
DepthUpdate(s, lo, hi, valid) ==
  LET ids == ParseIds(hist[s][Min({lo + 1, hi})].id,
                      hist[s][hi].id, hist[s][lo].id)
  IN  [kind |-> "depth", sym |-> s,
       first_id |-> ids.first_id, final_id |-> ids.final_id,
       prev_final_id |-> ids.prev_final_id,
       levels |-> [p \in {hist[s][i].px : i \in lo + 1 .. hi}
                     |-> BookAt(s, hi)[p]],
       valid |-> valid]

\* The snapshot of the book after c changes, as parse_message or
\* parse_snapshot_response returns it.
SnapshotMessage(s, c, valid) ==
  [kind |-> "snapshot", sym |-> s, last_update_id |-> hist[s][c].id,
   levels |-> BookAt(s, c), valid |-> valid]

Validity == IF AllowRejects THEN BOOLEAN ELSE {TRUE}

NextIds(id) ==
  {id + k : k \in IdSteps} \cup (IF AllowReset THEN {1} \ {id} ELSE {})

-----------------------------------------------------------------------------
(* Executing the actions a SymbolSync handler returns.  The state threaded *)
(* through a batch is that of one symbol: its machine, its book, the       *)
(* fetches, and whether an InvalidateVenue was executed.                   *)

FetchSlots == 1 .. MaxFetch
FreeFetch == [st |-> "free"]
Free(fs) == {f \in FetchSlots : fs[f].st = "free"}

\* handle_request_snapshot(s) as co_spawn leaves it: it returns at once for a
\* venue that pushes its snapshots, and only its signal is still to be erased.
NewFetch(s) ==
  IF kSnapshotViaRest THEN [st |-> "flying", sym |-> s]
                      ELSE [st |-> "finished"]

SpawnFetch(fs, s) == [fs EXCEPT ![Min(Free(fs))] = NewFetch(s)]

\* Both kinds of apply on a book that accepts the levels.  A delta creates
\* the venue's entry when there is none.
ApplySnapshotTo(b, levels) == levels

ApplyDeltaTo(b, levels) ==
  [p \in Price |-> IF p \in DOMAIN levels THEN levels[p]
                   ELSE IF b = NoBook THEN 0 ELSE b[p]]

\* Seeded fault: the venue's entry stays, without levels.
InvalidateLevelsOnly(x) == [x EXCEPT !.book = << >>, !.gap = TRUE]

InvalidateBook(x) == [x EXCEPT !.book = NoBook, !.gap = TRUE]

\* Seeded fault: a rejected message is skipped.
RejectedIgnored(x) == x

\* apply_failed: the machine is reset and the venue invalidated, but the
\* actions after this one in the batch are still executed.
Rejected(x) == InvalidateBook([x EXCEPT !.sync = OnDisconnected(@).sync])

ExecuteAction(s, x, a) ==
  CASE a.type = "RequestSnapshot" ->
         IF stopping THEN x ELSE [x EXCEPT !.fetch = SpawnFetch(@, s)]
    [] a.type = "ApplySnapshot" ->
         IF a.valid THEN [x EXCEPT !.book = ApplySnapshotTo(@, a.levels)]
                    ELSE Rejected(x)
    [] a.type = "ApplyDelta" ->
         IF a.valid THEN [x EXCEPT !.book = ApplyDeltaTo(@, a.levels)]
                    ELSE Rejected(x)
    [] a.type = "InvalidateVenue" -> InvalidateBook(x)

\* The state of s after its machine returned r and the batch was executed.
ExecuteActions(s, r, fs) ==
  LET x0 == [sync |-> r.sync, book |-> book[s], fetch |-> fs, gap |-> FALSE]
      run[k \in 0 .. Len(r.actions)] ==
        IF k = 0 THEN x0 ELSE ExecuteAction(s, run[k - 1], r.actions[k])
  IN  run[Len(r.actions)]

\* Seeded fault: a gap does not lead to a new request.
ResyncForgotten(s, x) == x

\* A REST venue recovers from a gap in place: a snapshot is requested again.
ResyncAfterGap(s, x) ==
  LET r == OnConnected(x.sync)
  IN  [x EXCEPT !.sync = r.sync,
                !.fetch = IF r.actions = << >> \/ stopping THEN @
                                               ELSE SpawnFetch(@, s)]

Assign(s, x) ==
  /\ sync' = [sync EXCEPT ![s] = x.sync]
  /\ book' = [book EXCEPT ![s] = x.book]
  /\ fetch' = x.fetch

\* Seeded fault: the machines are reset but the books are kept.
InvalidateSyncsOnly(next) ==
  /\ sync' = [s \in Symbols |-> OnDisconnected(sync[s]).sync]
  /\ phase' = next
  /\ wire' = << >>
  /\ pushed' = [s \in Symbols |-> 0]
  /\ UNCHANGED book

\* What run() does after its try block failed: on_disconnected() for every
\* symbol, then either the backoff before a reconnect or the final drain.
InvalidateAll(next) ==
  /\ sync' = [s \in Symbols |-> OnDisconnected(sync[s]).sync]
  /\ book' = [s \in Symbols |-> NoBook]
  /\ phase' = next
  /\ wire' = << >>
  /\ pushed' = [s \in Symbols |-> 0]

-----------------------------------------------------------------------------
(* The coroutine run().                                                    *)

\* start(): its task on the strand either gives up or spawns run().
Start ==
  /\ phase = "idle"
  /\ phase' = IF stopping THEN "done" ELSE "connecting"
  /\ UNCHANGED << exchangeVars, stopping, connects, sync, book, fetch >>

\* Every symbol of asks gets a fetch of its own, in a slot that was free.
SpawnFetches(fs, asks) ==
  LET slot == CHOOSE g \in Injection(asks, Free(fs)) : TRUE
      of(f) == {s \in asks : slot[s] = f}
  IN  [f \in FetchSlots |->
         IF of(f) = {} THEN fs[f] ELSE NewFetch(CHOOSE s \in of(f) : TRUE)]

\* Connected and subscribed: on_connected() for every symbol.
Connect ==
  /\ phase = "connecting" /\ ~stopping
  /\ connects < MaxConnects
  /\ LET asks == {s \in Symbols : OnConnected(sync[s]).actions # << >>}
     IN  /\ Injection(asks, Free(fetch)) # {}
         /\ fetch' = SpawnFetches(fetch, asks)
  /\ sync' = [s \in Symbols |-> OnConnected(sync[s]).sync]
  /\ phase' = "reading"
  /\ connects' = connects + 1
  /\ UNCHANGED << exchangeVars, stopping, book >>

\* A failed connect, or a connection lost (reset, idle timeout, close).
Disconnect ==
  /\ phase \in {"connecting", "reading"} /\ ~stopping
  /\ InvalidateAll("backoff")
  /\ UNCHANGED << hist, pub, stopping, connects, fetch >>

\* The backoff timer fires.
Reconnect ==
  /\ phase = "backoff" /\ ~stopping
  /\ phase' = "connecting"
  /\ UNCHANGED << exchangeVars, stopping, connects, sync, book, fetch >>

\* A message that does not parse is skipped.
ReadMalformed ==
  /\ phase = "reading" /\ ~stopping /\ AllowLoss
  /\ wire # << >>
  /\ wire' = Tail(wire)
  /\ UNCHANGED << hist, pub, pushed, sessionVars >>

\* A gap makes a venue that trusts its connection's order drop it.
ForcesReconnect(x) == x.gap /\ kTrustsConnectionOrder

\* dispatch_depth_update / dispatch_snapshot; a REST venue resyncs in place.
Dispatch ==
  /\ phase = "reading" /\ ~stopping
  /\ wire # << >> /\ Free(fetch) # {}
  /\ LET m == Head(wire)
         s == m.sym
         x == ExecuteActions(s, IF m.kind = "depth" THEN OnDepthUpdate(sync[s], m)
                                                    ELSE OnSnapshot(sync[s], m),
                             fetch)
     IN  IF ForcesReconnect(x)
           THEN /\ InvalidateAll("backoff")
                /\ fetch' = x.fetch
           ELSE /\ Assign(s, IF x.gap THEN ResyncAfterGap(s, x) ELSE x)
                /\ wire' = Tail(wire)
                /\ UNCHANGED << phase, pushed >>
  /\ UNCHANGED << hist, pub, stopping, connects >>

\* stop(): the flag, and a cancellation of run() and of every fetch.
Stop ==
  /\ ~stopping
  /\ stopping' = TRUE
  /\ UNCHANGED << exchangeVars, phase, connects, sync, book, fetch >>

\* Seeded fault: a cancelled backoff does not end run().
RunCancelledConnected ==
  /\ stopping
  /\ phase \in {"connecting", "reading"}
  /\ InvalidateAll("draining")
  /\ UNCHANGED << hist, pub, stopping, connects, fetch >>

\* The cancellation reaches run(): out of the connection, or out of backoff.
RunCancelled ==
  /\ stopping
  /\ \/ /\ phase \in {"connecting", "reading"}
        /\ InvalidateAll("draining")
     \/ /\ phase = "backoff"
        /\ phase' = "draining"
        /\ UNCHANGED << wire, pushed, sync, book >>
  /\ UNCHANGED << hist, pub, stopping, connects, fetch >>

\* Seeded fault: run() returns without waiting for the fetches.
DrainedAtOnce ==
  /\ phase = "draining"
  /\ phase' = "done"
  /\ UNCHANGED << exchangeVars, stopping, connects, sync, book, fetch >>

\* drain_pending_snapshots() sees no signal left: run() returns, on_done.
Drained ==
  /\ phase = "draining"
  /\ Free(fetch) = FetchSlots
  /\ phase' = "done"
  /\ UNCHANGED << exchangeVars, stopping, connects, sync, book, fetch >>

-----------------------------------------------------------------------------
(* The detached coroutines handle_request_snapshot().                      *)

\* The exchange answers with its book of the moment.
FetchAnswer(f) ==
  /\ fetch[f].st = "flying"
  /\ \E valid \in Validity :
       fetch' = [fetch EXCEPT ![f] =
         [st |-> "answered", sym |-> @.sym,
          msg |-> SnapshotMessage(@.sym, Len(hist[@.sym]), valid)]]
  /\ UNCHANGED << exchangeVars, phase, stopping, connects, sync, book >>

\* The request fails (any error or status other than 200).
FetchFail(f) ==
  /\ fetch[f].st = "flying" /\ ~stopping
  /\ fetch' = [fetch EXCEPT ![f].st = "backoff"]
  /\ UNCHANGED << exchangeVars, phase, stopping, connects, sync, book >>

FetchRetry(f) ==
  /\ fetch[f].st = "backoff" /\ ~stopping
  /\ fetch' = [fetch EXCEPT ![f].st = "flying"]
  /\ UNCHANGED << exchangeVars, phase, stopping, connects, sync, book >>

\* The coroutine resumes with a 200 response.  Nothing is applied once
\* stop() was called, nor when the body does not parse.
FetchResume(f) ==
  /\ fetch[f].st = "answered"
  /\ LET finished == [fetch EXCEPT ![f] = [st |-> "finished"]]
         s == fetch[f].sym
     IN  \/ /\ stopping \/ AllowBadBody
            /\ fetch' = finished
            /\ UNCHANGED << sync, book >>
         \/ /\ ~stopping /\ Free(fetch) # {}
            /\ LET x == ExecuteActions(s, OnSnapshot(sync[s], fetch[f].msg),
                                       finished)
               IN  Assign(s, IF x.gap THEN ResyncAfterGap(s, x) ELSE x)
  /\ UNCHANGED << exchangeVars, phase, stopping, connects >>

\* stop()'s cancellation reaches a fetch that waits.
FetchCancelled(f) ==
  /\ stopping /\ fetch[f].st \in {"flying", "backoff"}
  /\ fetch' = [fetch EXCEPT ![f] = [st |-> "finished"]]
  /\ UNCHANGED << exchangeVars, phase, stopping, connects, sync, book >>

\* The posted task that erases a finished fetch's signal.
EraseSignal(f) ==
  /\ fetch[f].st = "finished"
  /\ fetch' = [fetch EXCEPT ![f] = FreeFetch]
  /\ UNCHANGED << exchangeVars, phase, stopping, connects, sync, book >>

-----------------------------------------------------------------------------
(* The exchange.                                                           *)

\* The exchange sends on the connection once it streams the symbol.
Streams(s) ==
  phase = "reading" /\ (kSnapshotViaRest \/ ~InOrder \/ pushed[s] > 0)

Change(s) ==
  /\ Len(hist[s]) < MaxChanges /\ Len(hist[s]) - pub[s] < MaxSpan
  /\ \E p \in Price, id \in NextIds(Last(hist[s]).id) :
       hist' = [hist EXCEPT ![s] = Append(@, [px |-> p, id |-> id])]
  /\ UNCHANGED << pub, wire, pushed, sessionVars >>

\* All changes not yet published, as one message.
Publish(s) ==
  /\ \/ pub[s] < Len(hist[s])
     \/ AllowHeartbeat /\ Len(wire) + Len(sync[s].buffer) < MaxWire
  /\ Len(wire) < MaxWire
  /\ \E valid \in Validity :
       wire' = IF Streams(s)
                 THEN Append(wire, DepthUpdate(s, pub[s], Len(hist[s]), valid))
                 ELSE wire
  /\ pub' = [pub EXCEPT ![s] = Len(hist[s])]
  /\ UNCHANGED << hist, pushed, sessionVars >>

PushSnapshot(s) ==
  /\ ~kSnapshotViaRest /\ phase = "reading"
  /\ pushed[s] < MaxPush /\ Len(wire) < MaxWire
  /\ \E c \in 1 .. pub[s], valid \in Validity :
       /\ InOrder => c = pub[s]
       /\ wire' = Append(wire, SnapshotMessage(s, c, valid))
  /\ pushed' = [pushed EXCEPT ![s] = @ + 1]
  /\ UNCHANGED << hist, pub, sessionVars >>

-----------------------------------------------------------------------------
Init ==
  /\ \E p \in Price : hist = [s \in Symbols |-> << [px |-> p, id |-> 1] >>]
  /\ pub = [s \in Symbols |-> 1]
  /\ wire = << >>
  /\ pushed = [s \in Symbols |-> 0]
  /\ phase = "idle"
  /\ stopping = FALSE
  /\ connects = 0
  /\ sync = [s \in Symbols |-> InitSync]
  /\ book = [s \in Symbols |-> NoBook]
  /\ fetch = [f \in FetchSlots |-> FreeFetch]

Run == Start \/ Connect \/ Reconnect \/ Dispatch \/ RunCancelled \/ Drained

Fetches ==
  \E f \in FetchSlots :
    FetchAnswer(f) \/ FetchFail(f) \/ FetchRetry(f) \/ FetchResume(f)
      \/ FetchCancelled(f) \/ EraseSignal(f)

Exchange == \E s \in Symbols : Change(s) \/ Publish(s) \/ PushSnapshot(s)

Next == Run \/ Stop \/ Disconnect \/ ReadMalformed \/ Fetches \/ Exchange

Spec == Init /\ [][Next]_vars

\* Once stop() was called, the strand runs what is ready: run() and each fetch
\* coroutine are resumed when their operation completed or was cancelled, and
\* posted tasks are run.  No request is assumed to be answered.
Fairness ==
  /\ WF_vars(stopping /\ (Start \/ RunCancelled \/ Drained))
  /\ \A f \in FetchSlots :
       WF_vars(stopping /\ (FetchResume(f) \/ FetchCancelled(f)
                              \/ EraseSignal(f)))

FairSpec == Spec /\ Fairness
-----------------------------------------------------------------------------
(* Properties.                                                             *)

\* A fetch coroutine that may still deliver a snapshot.
Alive(s) ==
  {f \in FetchSlots : /\ fetch[f].st \in {"flying", "backoff", "answered"}
                     /\ fetch[f].sym = s}

\* Types of the session's state (venue_session.hpp's members).
TypeOK ==
  /\ phase \in {"idle", "connecting", "reading", "backoff", "draining", "done"}
  /\ stopping \in BOOLEAN
  /\ connects \in 0 .. MaxConnects
  /\ \A s \in Symbols :
       /\ sync[s].state \in {"Buffering", "Live"}
       /\ sync[s].snapshot_requested \in BOOLEAN
       /\ sync[s].last_final_id \in Nat
       /\ book[s] \in {NoBook} \cup [Price -> 0 .. MaxChanges]
       /\ pub[s] \in 1 .. Len(hist[s])
  /\ \A f \in FetchSlots :
       fetch[f].st \in {"free", "flying", "backoff", "answered", "finished"}

\* While a symbol is Live its book is the exchange's book as of the very
\* update whose identifier the machine holds, whatever order the snapshot,
\* the updates buffered before it and the gaps came in
\* (SymbolSync::on_snapshot, on_depth_update); and nothing is left buffered.
LiveBookIsExact ==
  \A s \in Symbols :
    sync[s].state = "Live" =>
      /\ sync[s].buffer = << >>
      /\ \E c \in 1 .. Len(hist[s]) :
           /\ hist[s][c].id = sync[s].last_final_id
           /\ book[s] = BookAt(s, c)

\* A symbol that is resynchronising contributes nothing to the aggregate
\* (invalidate_venue's "does not keep reflecting stale liquidity while the
\* venue resynchronizes").
UnsyncedBookIsAbsent ==
  \A s \in Symbols : sync[s].state = "Buffering" => book[s] = NoBook

\* Without an open connection the venue contributes nothing: neither a fetch
\* that outlives its connection nor one that outlives stop() revives it
\* (handle_request_snapshot's second stopping_ check).
OfflineBookIsAbsent ==
  phase # "reading" => \A s \in Symbols : book[s] = NoBook

\* A connected symbol that is not Live has a snapshot on its way: a fetch in
\* flight, or a pushed snapshot still to be sent or read.  Otherwise it
\* would buffer updates for ever (handle_request_snapshot's retry comment).
BufferingHasSnapshotComing ==
  phase = "reading" /\ ~stopping =>
    \A s \in Symbols : sync[s].state = "Buffering" =>
      IF kSnapshotViaRest
        THEN Alive(s) # {}
        ELSE \/ pushed[s] = 0
             \/ \E i \in 1 .. Len(wire) :
                  wire[i].kind = "snapshot" /\ wire[i].sym = s

\* Fetches are not deduplicated across reconnects, but each connection adds
\* at most one: going Live consumes the fetch that made it possible.
FetchesBounded ==
  \A s \in Symbols :
    Cardinality(Alive(s)) + (IF sync[s].state = "Live" THEN 1 ELSE 0)
      <= connects

\* on_done fires only when no fetch coroutine holds the session any more,
\* and none is started afterwards (drain_pending_snapshots).
DoneIsDrained == phase = "done" => Free(fetch) = FetchSlots

\* A book that stays Live never goes back to an older state of any level: a
\* late or duplicated snapshot does not overwrite newer updates.
LiveBookNeverRewinds ==
  [][\A s \in Symbols :
       sync[s].state = "Live" /\ sync'[s].state = "Live" =>
         \A p \in Price : book'[s][p] >= book[s][p]]_vars

\* stop() ends the session: run() returns and on_done fires.
StopCompletes == stopping ~> phase = "done"
=============================================================================
