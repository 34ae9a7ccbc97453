# A verification project for hermeneutic

hermeneutic connects to several crypto exchanges, keeps one aggregated order
book per symbol, and streams it to gRPC clients. This directory holds TLA+
modules that model the parts of it where ordering, concurrency and failure
decide whether a client sees a correct book, the TLC configurations that check
them on small instances, and TLAPS proofs of the central guarantees for every
instance.

Paths below are relative to `src/`; `INC` is `include/bobby/hermeneutic`.

## 1. Inventory

```
exchange --WebSocket/REST--> VenueSession (one strand per venue)
                               | SymbolSync per symbol
                               v
                             SymbolBook (one per symbol, mutex_)
                               | AggregateOrderBook, seq_, last_bbo_*
                               | Fanout: one SubscriberQueue per subscriber
                               v
                             handler threads SubscribeL2Diff / SubscribeBbo
                               |  gRPC stream
                               v
                             client: publish_l2_bands / publish_bbo
```

| Component | State | Operations | Hard behaviour | What makes it correct |
|---|---|---|---|---|
| Sequence policies and feeds (`INC/exchange/*`) | none | drop / bridge / contiguous tests, which identifiers a parser keeps | off-by-one between venues, repeated and restarted identifiers (OKX) | a continuation is never taken for a gap, nor a gap for a continuation |
| `SymbolSync` (`INC/book/symbol_sync.hpp`) | `state_`, `buffer_`, `last_final_id_`, `snapshot_requested_` | `on_connected`, `on_depth_update`, `on_snapshot`, `on_disconnected` | a snapshot meets updates buffered before it, in any order; late snapshots | while Live, the book is the exchange's book at `last_final_id_` |
| `VenueSession` (`INC/ingestion/venue_session.hpp`) | `symbol_syncs_`, `snapshot_sigs_`, `stopping_`, where `run()` is suspended | connect, read, dispatch, fetch, retry, reconnect, `stop()` | detached fetches outlive their connection; rejects in the middle of a batch; `stop()` at any suspension point | no stale liquidity, no symbol left without a snapshot, `on_done` after the last coroutine |
| `IngestionRunner` (`INC/ingestion/ingestion_runner.hpp`) | sessions, completion barrier, `stop_requested_` | `start_all`, `stop_all` | a session that ends before the stop; the last arrival against the flag | `on_all_drained` after a stop, when all have drained, at most once |
| `AggregateOrderBook` (`INC/book/aggregate_order_book.hpp`) | `venues_`, `aggregate_` | `apply_snapshot`, `apply_batch`, `invalidate_venue` | running sums over long histories | the aggregate is the sum of the live venues |
| `SymbolBook`, `Fanout`, `SubscriberQueue` (`apps/aggregator/aggregator_service.hpp`) | `book_`, `seq_`, `last_bbo_*`, subscriber queues | mutators + `publish`, `send_heartbeat`, `subscribe_impl`, `push_or_close`, `wait_and_drain` | snapshot captured under the lock, written outside it; overflow with and without the bootstrap window | a client never misses, repeats or reorders a diff |
| gRPC front end (`apps/aggregator/aggregator_service.hpp`, `proto/`) | none | lookup, `ListBooks`, status codes | – | – |
| Client replica (`apps/aggregator/client_main.cpp`, `client_book.hpp`) | local book, `last_book_seq` | apply snapshot, diff, heartbeat; gap check | depends on all of the above | the replica is a published revision |
| Client shutdown (`apps/aggregator/client_main.cpp`) | `stop`, canceller registry, `StreamCanceller`, signal watcher | construct/destroy a canceller, `request_stop`, signal handling, joins | destructor against sweep, lost wakeups, pseudo-signals | every stream ends after a stop, nothing dead is notified |
| Server shutdown (`apps/aggregator/server_main.cpp`) | signal wait, gRPC shutdown thread, io threads, watchdog, heartbeat | signal, drain, cancel, join, destroy | everything waits for everything; a second signal at any moment; name lookups that outlive their session | `main()` returns with every thread joined, or the watchdog or a second signal ends it |
| Start-up and configuration (`apps/aggregator/server_main.cpp`, `INC/ingestion/book_subscription.hpp`, `INC/ingestion/idle_timeout.hpp`, `INC/symbol/symbol.hpp`) | the groups of subscriptions, one session per venue | parse, group, wire, refuse | spellings that differ by venue and market; refusing after threads exist | what a book names is what its venues deliver to it |
| Bands (`INC/book/price_bands.hpp`, `volume_bands.hpp`, `apps/aggregator/band_config.hpp`) | running sums of one walk | parse the flags, walk, print | rounding and overflow at band edges, bounds that differ by side | equal to a direct definition |
| Fixed point (`INC/core/`) | none | parse, multiply, divide, narrow, format | width, rounding, carry | the nearest representable number, or an error |

The hazards list of `PROJECT.json` places each of the hard behaviours at a
line of the source and names the properties that would catch it going wrong.

## 2. Modules

| Module | Models | Kind |
|---|---|---|
| `Venues` | the four sequence policies, REST/push, the identifiers each parser keeps | operators, values for the constants below |
| `Subsequences` | what a filter keeps of a sequence, given the positions that pass | operators |
| `SymbolSync` | the resynchronisation machine: each handler returns the next state and the actions | operators |
| `VenueSession` | `run()`, the detached fetches, `stop()`, with the exchange as environment; extends `SymbolSync` | specification |
| `MCVenueSession` | `VenueSession` + `Venues` for TLC | instance |
| `Sums` | the sum of the first values of a function, as a recursive function | operators |
| `Decimals` | powers of ten and numbers in decimal digits, as recursive functions | operators |
| `Induction` | induction over the natural numbers as a statement about sets, and what it gives for recursive functions, filtered and flattened sequences, sums and decimal numbers | lemmas |
| `VenueSessionProofs` | theorems about `VenueSession`, for any policy and for the four of `Venues` | proofs |
| `AggregateOrderBook` | per-venue levels, running aggregate, the changes a `Sink` is told, top of book | operators |
| `SubscriberQueue` | the bounded queue with both overflow policies | operators |
| `SymbolBook` | `SymbolBook`, both fan-outs, both kinds of handler thread and the clients' read loops; extends the two above | specification |
| `ReplicatedBook` | what the streams promise, without queues, threads or messages | abstract specification |
| `MCSymbolBook` | `SymbolBook` with the clients of one stream at a time | instance |
| `SymbolBookProofs` | theorems about the aggregate, the L2 stream and the queues of `SymbolBook` | proofs |
| `BboStreamProofs` | theorems about its Bbo stream | proofs |
| `RefinementProofs` | `SymbolBook` implements `ReplicatedBook` | proofs |
| `ClientShutdown` | stream threads, cancellers, registry, signal watcher, `main()` | specification |
| `ClientShutdownProofs` | theorems about `ClientShutdown` | proofs |
| `ServerConfig` | what the server makes of its configuration: parsers, spellings, grouping, wiring | operators |
| `ServerMain` | the server process with `IngestionRunner`: start-up, signals, shutdown, joins; extends `ServerConfig` | specification |
| `MCServerMain` | documents for `ServerMain` | instance |
| `ServerMainProofs` | theorems about `ServerMain` and `ServerConfig` | proofs |
| `FixedPoint` | raw integers of a given width, rounding, products, quotients, narrowing | operators |
| `Bands` | one call of a price or volume band computation; extends `FixedPoint` | specification |
| `BandConfig` | decimal text, levels and band flags as numbers; extends `FixedPoint` and `Decimals` | operators |
| `BandClient` | `main()`'s band flags, the client's book and `print_bands()`; extends the two above | specification |
| `MCBandClient` | command lines and books for `BandClient` | instance |
| `BandsProofs` | theorems about `Bands` and `BandClient` | proofs |

### How state and actions correspond to the code

*VenueSession.* The session runs on one strand, so what the code does between
two suspension points (`co_await`) is one action. `Connect` is a completed
connect and subscribe followed by `on_connected()` for every symbol;
`Dispatch` is one message of the read loop with all the actions the machine
returns, executed in order (`ExecuteActions`), and with what follows a gap: a
reconnect for a venue that trusts its connection's order, a new request
otherwise. `FetchAnswer` is the exchange answering, `FetchResume` the coroutine
continuing with that answer; between the two anything else on the strand may
run. `stop()` sets the flag; `RunCancelled` and `FetchCancelled` are the
cancellation arriving at each coroutine. After `stop()` nothing more is
dispatched: `stop()` emits the cancellation from the strand, and Asio makes the
next `co_await` of a cancelled coroutine throw. Once
`run()` has invalidated all symbols, fetch coroutines of the old connection may
still be alive, as in the code.

The exchange numbers its changes. The size that a change gives to its price is
the number of the change, so two books are equal exactly when they saw the same
changes: losing, repeating or reordering one is always visible. Identifiers are
a second number, attached to a change, that may be sparse (`IdSteps`), restart
(`AllowReset`) or be repeated without a change (`AllowHeartbeat`).

*SymbolBook.* What runs under `mutex_` is one action: a mutator with its
`publish()`, `send_heartbeat()`, the capture-and-register part of
`subscribe_impl`. A handler's `Write()` takes no lock and is an action of its
own. gRPC delivers in order, so the client's state changes when the server
writes. `log` is a history variable: the aggregate at each revision.
`VenueLevels` lets a message give any size to any set of levels, a negative one
included, which the guard `IsValid` rejects as `is_valid_level` does.

*ClientShutdown.* One action is what a thread does between two points where
another can interfere: taking a mutex, blocking, writing an atomic. The
registry's mutex is held through a whole sweep (`regHolder`); the canceller's
own mutex is held by its thread in `checked` and `deciding` (`HoldsMutex`), so
the window between evaluating the predicate and blocking is in the model.

*ServerMain.* Each thread of the process has its own place: `main()` in `pc`,
the handler of signals in `stage`, the thread that shuts gRPC down in `grpc`,
the watchdog and the heartbeat in variables of their names, and the io threads
as the set `io`. `strand` is the queue of `signal_strand`, with the running
handler at its head; a handler can run only on a thread that is in `io.run()`,
and the one that runs occupies a thread (`CanDispatch`), so a pool of one is
really blocked by it. `io.run()` returns when nothing is outstanding
(`HasWork`), and an outstanding `async_wait` is something: this is the wait that
`on_all_drained` must cancel. The thread that shuts gRPC down is created, and
may run to its end, before it is assigned to `grpc_shutdown_thread`
(`SpawnShutdownThread`, `AssignShutdownThread`). A session is what the runner
sees of it; `stuck` are the sessions with a name lookup that hangs. Asio runs
`getaddrinfo()` on a thread of its own; the cancelled operation may complete,
so that the session drains, or keep the drain waiting, and in both cases
`io.run()` has work until the lookup returns, if it ever does (`LookupReturns`).
After its return statement `main()` destroys its locals: first the signal set
(`DestroySignals`), after which a signal has its default action
(`RaiseDefault`), and in the end `io` (`DestroyIo`), which joins the thread of
the lookups and so waits for those that hang, as `server_main.cpp:518-524` says.
`Ended` is after that, or a process that exited before. `std::barrier`, the signal set, `io_context`
and the gRPC server are external and modelled by how the code uses them.
A configuration document is a record; the parsers are the predicates that
accept it, since every rejection ends the program in the same way.

*Bands and BandClient.* One action of `Bands` is one turn of a loop in a band
function. Both functions have the same outline and share the variables; `kind`
says which one runs. Values are the raw integers of the code; `Narrow` is what
`from_raw_checked` does in the release build, where its assert is compiled
out, and `narrowed` records that it lost bits. In `BandConfig` a text is a
sign and two sequences of digits, so that rounding, carrying and range checks
of `from_decimal_string` are the code's own. `BandClient` takes a command line
and a message from text to the printed line: the flags, their lists, the
levels of the book, and one call of `Bands` for each side.

### Abstractions

* Time is left out: a backoff, timeout or keepalive is an action that may
  happen whenever its guard holds.
* A message that does not parse is a message that is skipped
  (`ReadMalformed`); a level that the book rejects is `valid = FALSE`.
* A message names each price at most once. `aggregate_order_book.hpp:162-173`
  says why the code relies on it.
* An allocation failure (`std::bad_alloc`) in the middle of a mutation is not
  modelled.
* No venue both trusts its connection's order and fetches over REST
  (`SessionAssumption`); the corresponding branch of the template is never
  instantiated and is left out.
* The wake-up after a push is left out: `wait_and_drain()` also returns after a
  timeout, so its loop looks at the queue again in any case.
* Which message a rejected document or flag produces, and the labels and
  number formats of the printed line, are left out.

Definitions commented "Seeded fault" are not used by any specification. Each is
a wrong version of the definition that follows it, such as a plausible mistake
in the code would produce: putting it in the place of the right one must make
TLC report the property it is paired with in `PROJECT.json`. It is how the
project shows that no property holds vacuously.

## 3. Runs

Run one with `tlc -config <cfg> <module>` in this directory.

### Passing

| Run | Instance | What it shows |
|---|---|---|
| `spot` | Binance spot, one symbol, 4 changes in messages of up to 2, 2 connections, 3 fetches, lost messages | A Live book is exactly the exchange's book at the held identifier; a symbol that is not Live, or has no connection, contributes nothing; fetches do not multiply; a late snapshot never rewinds a Live book; `stop()` ends the session at any point, after all fetches |
| `futures` | Binance futures, 4 changes with gaps between their identifiers, lost messages, rejected levels | A Live book is exact with back pointers too, and a Buffering symbol always has a fetch under way, also after a rejected message |
| `bybit` | two symbols on one connection, lost messages (pushed snapshots too), snapshots out of order | One symbol's gap takes the connection down for both and leaves neither with liquidity; a Live book is exact |
| `okx` | identifier restarts, heartbeats, rejected levels, snapshots in order | Equality of identifiers is enough even if they repeat or go back |
| `book` | two venues, one level per side, an L2 and a Bbo client, capacity 1, bootstrap capacity 3, 3 revisions, 3 heartbeats | The aggregate is the sum; the L2 client's book is the published revision; no gap; a slow client's stream ends instead of losing a diff; a client is brought to every revision or its stream ends. Tops are exact and never go back; a Bbo client loses the current one only to a queue full of heartbeats, and shows it in the end if it did not. Refinement of `ReplicatedBook` |
| `client_shutdown` | two streams, timed run, two signals, stray SIGUSR1 | Nothing that is being destroyed is notified; an ended or swept stream is joined; `main()` returns, unless two real signals force an exit |
| `server` | the documents of `MCServerMain`, good and bad; up to two sessions that may fail, with lookups that may hang, one or two io threads, two signals, wedged subscribers | Accepted books are wired to the venues they name, under the spelling of that venue and market, and nothing else is delivered to them; the signal wait stays armed until all sessions have drained, also if they fail early; `main()` returns by every path with all threads joined; it returns without the watchdog if nothing hangs; if something does, the second signal, or the watchdog once it fired, ends it. The exception is a lookup that never returns: the watchdog then brings `main()` to `~io_context` and no further, and a second signal has no effect if it comes when the wait was cancelled or `io` stopped and the signal set still exists |
| `bands` | all sides of up to three levels over five prices and four sizes, empty and malformed ones, ten command lines, numbers up to 3.1 with one decimal | Parsed numbers are the nearest representable ones; an accepted flag never makes a call fail; asserted preconditions hold; price bands are the exact depth within their distance; average prices are those of the fill, up to the rounding of its parts |

### Disagreements between the code and what it says of itself

Each of these runs checks one statement of the repository, and TLC finds a
behaviour of the code that contradicts it.

| Run | Statement | Behaviour |
|---|---|---|
| `bad_body` | a failed fetch is retried, or the symbol never goes Live (`venue_session.hpp:555`) | a 200 response whose body does not parse ends the fetch; nothing asks again on that connection (`venue_session.hpp:585`) |
| `reject` | an untrustworthy venue is removed from the aggregate while it resynchronises (`aggregate_order_book.hpp:69`) | a rejected snapshot resets the machine, and the deltas after it in the same batch are still applied to the emptied book (`venue_session.hpp:338`) |
| `lost_top` | a slow Bbo subscriber loses nothing when its queue drops the oldest entry (`docs/api_protocol_design.md:258`, `aggregator_service.hpp:51`) | heartbeats go into the same queue every second (`aggregator_service.hpp:391`, `server_main.cpp:210`); behind a `Write()` that blocks they push out the only current Bbo, and the client shows an old top until the next change |
| `lost_stop` | a stop reaches a stream that is still being established (`client_main.cpp:666`) | a canceller whose thread checked `stop` and that is not yet registered misses the sweep (`client_main.cpp:237`) |

`futures` and `okx` allow rejected levels, and do not list what `reject`
refutes for REST venues. `book` does not list what `lost_top` refutes: it checks
that heartbeats are the only way to lose a top (`TopIsLostOnlyToHeartbeats`).

Other disagreements were met while modelling and have no run of their own:

* `aggregator_service.hpp:87` says that a burst before draining starts is not
  held to the tight capacity; the bootstrap window ends with the initial
  `Write()`, before the first drain (`aggregator_service.hpp:469`).
* `ingestion_runner.hpp:94` says that `on_all_drained` fires exactly once. If
  every session has ended, by an exception, before `stop_all()`, it never does,
  and only the watchdog ends the shutdown (`EndedEarly` in `MainReturns`).
* `server_main.cpp:253-258` justifies the order of destruction by the callback
  being guaranteed to have fired; after a shutdown that the watchdog forced it
  has not. `ReturnIsClean` claims it for the other case.
* `server_main.cpp:370-374` re-arms the wait so that a second signal is a way
  out of a shutdown that hangs. In the stretch between the cancelled wait, or
  the watchdog's `io.stop()`, and the destruction of the signal set, a signal is
  caught and handled by nobody; if a lookup hangs then, the process lives until
  the lookup or a third signal ends it (`HangsUnheard` in `SecondSignalEnds`).
  That the watchdog cannot help here is said at `server_main.cpp:518-524`.
* Two symbols whose base and quote join to the same letters have one spelling at
  Binance and Bybit; both books are accepted, and the registry keeps the first
  (`venue_session.hpp:85`), so the other has no data from that venue, which
  `server_main.cpp:309-310` says start-up refuses. `BooksReachTheirVenues`
  excepts it.
* `fail_on_bad_venues` calls `Shutdown()` without a deadline, so a client that
  subscribed in the meantime keeps a server that refused to start alive.
* `client_book.hpp:26-30` says that a malformed level is still caught by the
  band functions; the price walk stops at the last threshold and does not see
  what lies deeper (`StopWalking`).

One more behaviour is visible in the model and accepted by the code's own
documentation (`docs/api_protocol_design.md:581-584`): a second fetch that is
answered when the symbol is already Live meets an empty buffer, so the machine
asks for another snapshot, and again, for as long as the connection lives. It
does no harm to the book (`LiveBookNeverRewinds`) and does not multiply
(`FetchesBounded`).

### Bounds, and why they are enough

* Two prices and messages of up to `MaxSpan = 2` changes are what is needed for
  a message to overwrite, or not to mention, a level another one set. Four
  changes allow, for a venue that bridges its snapshot, one in the snapshot, one
  that bridges it, one that is lost and one after that; a pushing venue needs no
  bridge, and three.
* `MaxConnects = 2` is the smallest number with fetches that outlive their
  connection; `MaxFetch = 3` then leaves room for both of them and a finished
  one. `Connect`, `Dispatch` and `FetchResume` wait for a free slot.
* `book`: with capacity 1 and bootstrap factor 3 the two capacities differ by
  more than one, so that a queue can be above its capacity when its bootstrap
  window ends; 3 revisions fill and overflow either. Three heartbeats fill and
  overflow the queue of a Bbo client without a change of the book between them,
  in the bootstrap window and after it; the code sends them without end, and
  the theorem has no such bound. The two streams meet only in the book: no
  handler, queue or client of one reads what belongs to the other. The
  behaviours are therefore those in which the clients of one stream at a time
  are subscribed (`OneStream`), with two venues and a heartbeat for the L2
  client and one venue for the Bbo client. No step that is assumed to be fair
  is cut off by this.
* `lost_top`: one change and two heartbeats, for a queue of two places.
* Two streams are enough for a sweep to be between two cancellers.
* `server`: one and two sessions are enough for one to be the last to arrive
  and for one to hang while the other drains. One and two io threads are the
  cases in which a handler that blocks does, and does not, block the others.
  Two signals are the request and the way out; `exited` is final, so a third
  changes nothing. Each condition of the parsers is violated by one document.
* `bands`: with `RawMax = 31` and one decimal, the notional of one level, the
  sums of two and three, a boundary price and a rounded text can all leave the
  range; `WideMax = 2047` is the least 2^n - 1 that satisfies
  `WidthAssumption`, so that the triple product overflows while the products
  of two values do not, as in the code. Three levels let a threshold fall
  before, into, and on the edge of a level with something before it.
  `kBpsDenominator = 10` keeps bands of several prices within these numbers.
* `CHECK_DEADLOCK FALSE` is used where the system really stops: the session
  after `stop()`, the client and the server after `main()` returned, a band
  computation after its line is printed.

### Fairness, and why the code justifies it

* `VenueSession`: only after `stop()`, and only for what `io_context` runs when
  ready: a coroutine whose operation completed or was cancelled, a posted task.
  No request is assumed to be answered, no connection to succeed.
* `SymbolBook`: a handler thread that can drain or write does. A blocked
  `Write()` fails in the end because of gRPC's keepalive, which is `L2Leave` or
  `BboLeave`. Nobody has to subscribe, to leave or to send anything.
* `ClientShutdown`: the operating system runs each thread that can run, and
  `Read()` returns once its call was cancelled. No signal has to arrive and no
  stream has to end by itself.
* `ServerMain`: the operating system runs each thread that can run, and
  `io_context` each handler that is ready. `main()` in a join or in `Wait()` is
  not ready. No signal has to arrive, no subscriber has to read or leave, no
  lookup that hangs has to return, and a session has to end only after its
  `stop()`, and not while its lookup hangs (`stopping \ stuck`). Nothing is
  assumed of the watchdog's timer: `ForcedShutdownEnds` starts when it expired,
  and the other two properties hold without it.
* `bands` states safety only; the loops are bounded by the lists they walk.

## 4. Proofs

The proofs hold for any sets of venues, symbols, clients and streams, any
number of prices, any sizes, capacities, numbers of changes, revisions,
connections, io threads and signals.

| Module | Theorem | Statement |
|---|---|---|
| `SymbolBookProofs` | `TypeCorrect` | `Spec => []TypeOK` |
| | `StreamsAreContiguous` | `Spec => []StreamIsContiguous`: what is on its way to an L2 client is an unbroken chain of exact diffs that ends at the current revision, unless the queue was closed |
| | `ClientsSeeNoGap` | `Spec => []NoClientGap` |
| | `ReplicasAreExact` | `Spec => []ReplicaIsExact`: a client's book is, level by level, the aggregate of the revision it is at |
| | `QueuesStayBounded` | `Spec => []QueuesAreBounded` |
| | `AggregatesAreSums` | `Spec => []AggregateIsSum` |
| | `UnbackedReplicasAreEmpty` | `Spec => []UnbackedReplicaIsEmpty` |
| `BboStreamProofs` | `TopsAreExact` | `Spec => []TopIsExact` |
| | `TopsNeverGoBack` | `Spec => TopNeverGoesBack` |
| | `TopsAreLostOnlyToHeartbeats` | `Spec => TopIsLostOnlyToHeartbeats` |
| `RefinementProofs` | `Implementation` | `Spec => ImplementsReplicatedBook` |
| `VenueSessionProofs` | `VenueBooksAreExact` | `KnownVenue`, `~AllowReset`: `Spec => []LiveBookIsExact` |
| | `LiveBooksAreExact` | the same for every policy that is `PolicySound` |
| | `LiveBooksNeverRewind` | `Spec => LiveBookNeverRewinds`, for a REST venue with such a policy |
| | `UnsyncedBooksAreAbsent` | `~AllowRejects`: `Spec => []UnsyncedBookIsAbsent` |
| | `OfflineBooksAreAbsent` | `Spec => []OfflineBookIsAbsent` |
| | `SnapshotsAreComing` | fetched bodies parse, pushed messages are not lost: `Spec => []BufferingHasSnapshotComing` |
| | `FetchesAreBounded` | `Spec => []FetchesBounded` |
| | `DoneSessionsAreDrained` | `Spec => []DoneIsDrained` |
| | `SessionTypeCorrect` | `Spec => []TypeOK` |
| | `OrderedBooksAreExact` | `OrderHyp` (pushed messages arrive, in order): `Spec => []LiveBookIsExact`, for every policy and with identifiers that restart |
| | `OrderedBooksNeverRewind` | `OrderHyp`: `Spec => LiveBookNeverRewinds` |
| `ServerMainProofs` | `HatchIsAlwaysArmed` | `Spec => []HatchStaysArmed` |
| | `ReturnsAreClean` | `Spec => []ReturnIsClean` |
| | `BooksReachVenues` | `Spec => []BooksReachTheirVenues` |
| | `ServerTypeCorrect` | `Spec => []TypeOK` |
| `ClientShutdownProofs` | `NotifiedAreAlive` | `Spec => []NotifiedIsAlive` |
| | `NoWakeupIsLost` | `Spec => []NoLostWakeup`: no thread sleeps on with nobody left to notify it |
| | `ExitsAreForced` | `Spec => []ExitIsForced`: only two real signals end the process at once |
| | `ShutdownTypeCorrect` | `Spec => []TypeOK` |
| `BandsProofs` | `BandsTypeCorrect` | `Spec => []TypeOK`: every sum, boundary and price fits its type |
| | `BandsAssertsHold` | `Spec => []AssertsHold` |
| | `BandsNeverOverflow` | `Spec => []WideNeverOverflows` |
| | `PriceBandsExact` | `Spec /\ BestFirst => []PriceBandsAreExact` |
| | `VolumeBandsExact` | `Spec => []VolumeBandsAreExact` |
| | `AcceptedListsAreUsable` | `ClientSpec => []AcceptedListIsUsable` |
| | `ParsedNumbersAreNearest` | `ClientSpec => []ParsedIsNearest` |
| | `PrintedPriceBandsAreExact` | `ClientSpec => []PriceBandsAreExact`, from the text of a message on |
| | `PrintedVolumeBandsAreExact` | `ClientSpec => []VolumeBandsAreExact` |
| | `PrintedBandsAreSafe` | `ClientSpec => [](TypeOK /\ AssertsHold /\ WideNeverOverflows)` |

Those about `SymbolBook` rest on `VenueAssumption`, `PriceAssumption`,
`CapacityAssumption` and `BoundsAssumption`: the venues are a finite set, prices
are a bounded range, both capacities are positive, the bounds are natural
numbers. Those about `Bands` rest on `WidthAssumption` (a
product of two raw values fits the wide type, which 64 and 128 bits satisfy)
and `BandsAssumption` (levels and lists are of raw values), for any widths,
scale, levels and lists, valid or not. `PriceBandsExact` is about sides that are
given best price first (`BestFirst`), as the `std::map` behind them iterates;
`PrintedPriceBandsAreExact` has no such hypothesis, since the client gives every
call a side that `apply_levels` built. The volume bands need no order. Those
about `ClientSpec` also rest on `DecimalsAssumption` (the scale is the power of
ten of the decimals) and `ClientAssumption`: command lines and messages are
flags and levels in text, well-formed or not, and the defaults of
`band_config.hpp` are lists that both sides accept. TLC evaluates both. Those about `VenueSession` rest on
`SessionAssumption` (bounds are natural numbers, identifiers grow by at least
one, a venue either pushes its snapshots and trusts the connection's order or
does neither) and on the hypotheses named below; those about `ServerMain` on
`ServerAssumption` (documents have the fields the parsers read); those about `ClientShutdown` on bounds being natural
numbers.

**The L2 stream.** The inductive invariant is

```
StreamInv == TypeOK /\ BatchWhileWriting /\ LogEndsAtBook
               /\ \A s \in L2Sub : L2Inv(s)
L2Inv(s)  == StreamOK(s) /\ HandlerOK(s) /\ ~replica[s].gap /\ ReplicaOK(s)
```

`ReplicaIsExact` alone is not inductive: a step that writes a diff preserves it
only if that diff is exact and is the next one, which is a fact about the batch
(`StreamOK`); the batch came from the queue, so the queue must be such a chain
too and must start where the batch ends; what is pushed next continues the
chain only if it ends at `seq`, which fails once the queue has been closed,
hence the exception; and the first message starts it only if the captured
snapshot is that of its revision (`HandlerOK`) and the queue was registered in
the same critical section. `LogEndsAtBook` relates the diff that
`AggregateOrderBook` reports to the history, through the lemmas on `SetVenue`
(`SetVenueResult`: overlaying the reported changes on the old aggregate gives
the new one).

**The aggregate.** `AggregateIsSum` is inductive together with the types.
`SetVenueSums` is the step of `adjust_aggregate()`: changing one term of a sum
changes the sum by the difference (`SumOfChange`), and since a sum of naturals
is natural (`SumOfNats`), the test that drops a level whose new total is not
positive drops only levels that no venue holds any more. A batch, a snapshot and
an invalidation are that step over every level one venue holds. That two
revisions differ comes from the early return for an empty list of changes.
`UnbackedReplicaIsEmpty` follows from it: without a live venue every term is
zero, so a heartbeat that names no venue was sent at an empty revision. It may
then wait in a queue or a batch while the book changes, so the invariant
(`UnbackedInv`) is about the revision it was sent at, and `StreamInv` brings the
client to exactly that revision when it reads it.

**The Bbo stream.** Its queues drop messages, so there is no chain. `TopInv`
says instead that what is pending is in order (`IsOrdered`, `IsBefore`), is
about revisions between the one the client shows and the latest, and is exact
(`AreGood`). Dropping the oldest message keeps all of this
(`PushKeepsOrder`), and writing the first one moves the client forward.
`TopIsLostOnlyToHeartbeats` is about what dropping may lose. Besides `TopInv` it
needs that the last top announced is the current one (`TopAnnounced`), so that a
publication without a Bbo leaves the top as it was. A Bbo that is pushed is the
last entry of the queue whatever the push drops (`PushTop`). A heartbeat that is
pushed leaves the last Bbo of the queue where it was, or dropped it from a full
queue, and then only heartbeats are left and they fill it (`PushBeat`). Draining
and writing move messages from one place to the next in order (`LostHandler`).

**The queues.** `QueuesAreBounded` is inductive as it stands. The case to see
is a queue that is above its capacity because its bootstrap window just ended:
the next push closes it, or drops one message for one (`PushIsBounded`).

**The refinement.** Under `StreamInv /\ TopInv` a publication is `Revise`, the
initial writes are `L2Attach` and `BboMove`, a written diff is `L2Advance`, a
written Bbo is `BboMove`, a new subscription is a detach, and everything else
(heartbeats, draining, overflow, leaving) is a stutter.

**The bands.** The inductive invariant is

```
IInv == ArgsTyped /\ TypeOK /\ Checked /\ AtLevel /\ Ahead
          /\ NonNegative /\ WideNeverOverflows
```

`Checked` says what the entry checks have established once the walk has begun,
`AtLevel` what the check of a level has. `AssertsHold` needs something left to
fill when a threshold is crossed, and that is `Ahead`: the sum before the
current level is below every threshold that is still open. It is kept when a
threshold is answered only because the list is sorted, and when a level is
added only because the inner loop has answered all the thresholds the level
reaches; neither fact is in the test that is asserted. `NonNegative` (sums do
not become negative) holds only while nothing was narrowed, which is why the
claim excepts that case. `BandsNeverOverflow` is the lemma `GuardSuffices`: a
product that passed the division test stays within the wide type when it is
scaled.

`PriceBandsAreExact` compares one walk with a definition that looks at all the
levels for each band. `PriceInv` adds to `IInv` that the running sums are those
of the levels before `i`, and that these lie in every band still open: they
passed the test of the narrowest one, and a sorted list makes the others wider
(`WiderBand`). When a level fails the test, all that follow are further out
(`FurtherOut`), so the band is exactly the prefix (`BandIsPrefix`). The test
multiplies and the definition measures a distance; `WithinLemma` shows that they
agree, and `BoundaryIsLast` that rounding towards the best price gives the last
price of the band.

`VolumeBandsAreExact` is about rounding. `VolumeInv` has the running sums again,
and that no level the walk has left had reached an open threshold
(`Unreached`), so that the level which answers one is the first that completes
it. The sum of `k` rounded notionals is within `k / 2` units of the value of the
levels (`NotionalTracksValue`, by induction), and a quotient within half a unit
of the exact one (`RoundNearest`); `PartialFill` and `EdgeFill` combine these
errors into the bound of `IsAverage`, one for each branch of the code: a fill
that ends within the level, and one that ends on its far edge, where the code
divides by the known size instead. That `Remaining` is below the level's
notional in the first case needs that the notional was not narrowed, which
`EnteredLevel` recovers from the checked sum.

`AcceptedListsAreUsable` relates two checks written in two files: the parser
compares each number with the one before it, the band functions ask that the
whole list is sorted and in range. `AscendingIsSorted` is the induction between
them; that the parser's upper bound is the bids' bound is what makes one list
good for both sides.

**From text to the printed bands.** `ClientInv` composes the above with what
comes before a call: the accepted list (`UsableInv`), a book whose sides are
typed and best price first (`BookOK`), no levels before the first call (`Idle`),
and `IInv /\ PriceInv /\ VolumeInv` for the call under way. A call begins in a
state in which its three invariants hold (`NewCallOK`), whatever the call before
it left behind, because `Call` resets every variable of the walk.

`BookOK` needs that `MapOrder`, a `CHOOSE`, has something to choose: every finite
set of prices has an ordering, by induction on its size, taking the worst price
away (`WorstPrice`, `MapOrderIs`). `ParsedIsNearest` needs what the parser's
loops compute. `IntValue`: the loop over the integer part gives its value, or
stops because it is beyond the range. `FracValue`: of the fraction only
`decimals + 1` digits are accumulated and the rest is discarded, and still the
result is the nearest one: the discarded part is less than one unit of the last
digit read, so it never reaches the next half (`RoundTen`, `DroppedDigits`).
`Magnitude` puts both together, with the carry, and compares them with the
number that all digits of the text denote (`DigitsConcat`). Then `ParseAccepts`
says that what is accepted is nearest, and `ParseRejects` that for what is
refused no raw value but the most negative one would have been.

**The venue session.** The policy and the parser are constants, so the theorems
say what they need of them. `KeepsFinalId`: the parser keeps the last identifier
of a message as its `final_id`. `PolicySound`: over any history of growing
identifiers, a message that carries the changes `lo+1 .. hi` is accepted after
change `c`, or as the bridge from a snapshot taken at `c`, only if
`lo <= c <= hi`. `FuturesSound`, `SpotSound`, `BybitSound` and `OkxSound` prove
both of the operators of `Venues`; `KnownVenue` is their disjunction, with what
spot and Bybit rely on: no message without a change, and for Bybit one
identifier per message. The inductive invariant is

```
IInv == HistInv /\ SyncInv /\ PhaseInv /\ OfflineInv
          /\ ExactInv /\ UnsyncedInv /\ CountInv /\ ComingInv
```

`LiveBookIsExact` is not inductive: it needs that everything the session will
ever apply is a message the exchange can have sent about that symbol. `HistInv`
says what a history is; `SyncInv` and `PhaseInv` that the buffer, the wire and
the answers of fetches hold only messages of it. A history that grows keeps its
messages, because `BookAt` at an old change does not look at new ones. Then a
message that is accepted after `c` overwrites the levels changed since `lo <= c`
with their values at `hi >= c`, so the book at `c` becomes the book at `hi`
(the step `ApplyDeltaTo` makes); a snapshot and the buffered updates it bridges
to are that step repeated along the run of actions that `ExecuteActions` makes
of what `OnSnapshot` returned. A rejected level can interrupt that run anywhere;
the lemmas on `Settled` cover every such point. `OfflineInv` is what makes a
late answer harmless after a disconnect: the machine is reset, so the answer
meets an empty buffer and is not applied. `FetchesBounded` counts a Live symbol
as one fetch, since its next gap starts one; `CountInv` adds that a connection
was made. `ComingInv` is kept because each path that
leaves `Live`, or ends a fetch without a snapshot applied, asks again.

When identifiers restart, `PolicySound` is of no use: an identifier no longer
says which change it belongs to, and any policy may accept a message it should
not. What saves a pushing venue is its connection. `OrderInv` follows the
messages on the wire as a reader would: from where the machine stands (`Stands`:
Live with the book after some change, or without a book) each message moves the
reader of its symbol from one change to the next (`Moves`), and the last one
brings it to what the exchange has published (`Leads`). Under `OrderHyp`
nothing is ever missing from this chain, so an update that meets a Live machine
is the next one, and whatever the policy makes of it is right: accepted, it
gives the exact book; taken for a gap, it costs a reconnect, which clears the
wire. A rejected level does the same. This is why `OrderedBooksAreExact` needs
nothing of the policy, only that the parser keeps the final identifier.

**The server.** `IInv` has one part for each thing the threads share:
`ConfigInv` and `StartInv` (what holds before `start_all()`), `BarrierInv` (the
barrier expects exactly the sessions that have not ended, and calls
`on_all_drained` after `stop_all()` with none left), `StrandInv` (of an
outstanding wait, its completion with a signal and its completion with an error
there is exactly one until the drain, and the cancel is queued once), `GrpcInv`
(who holds the mutex of the shutdown thread's handle, and that the thread exists
before `main()` looks for it), `IoInv` (why `io.run()` returned) and `BeatInv`.
`HatchStaysArmed` follows from `StrandInv` and `BarrierInv`, `ReturnIsClean`
from the last three. `BooksReachTheirVenues` is about data: what the wiring
makes of a document is a flattened, filtered sequence of its subscriptions, and
`AtIndicesProperties` and `FlattenSeqProperties` say that neither operation adds
or loses an element.

**The client's shutdown.** `NotifiedIsAlive` holds because what a sweep still
has to visit is registered, what is registered has not begun its destruction,
and no destructor deregisters while the sweep holds the mutex (`SweepInv`,
`HolderInv`). `NoLostWakeup` is inductive only with `PairInv`: the destructor
sets its flag under the canceller's mutex, which that thread holds between
testing the predicate and going to sleep.

**Induction.** The library's induction theorems take a predicate as a parameter,
which the installed provers cannot instantiate. `Induction` derives, from the
well-foundedness of `<`, induction as a statement about sets (`SetInduction`),
and with it that a recursive function exists and satisfies its equation
(`Iteration`). This is why `AtIndices` stands for `SelectSeq`, why
`ExecuteActions` and `int_value` fold with a recursive function, and why
`PowerOfTen` and `Digits` are such functions (`PowerOfTenSum`, `DigitsConcat`,
`DigitsBound`).

What stays with TLC is liveness: `StopCompletes`, `SubscriberCatchesUp`,
`SubscriberSeesTop`, `StoppedStreamIsJoined`, `MainReturns`, `SecondSignalEnds`
and `ForcedShutdownEnds` (fairness and `ENABLED` are outside the prover). Every
safety property of a passing run is a theorem, under the hypotheses given above.
One of these hypotheses is known to be needed: `LiveBookNeverRewinds` does not
hold for a pushing venue whose snapshots may arrive out of order. A restart of the identifiers of
a venue that also loses messages is not covered by either theorem about exact
books.

The invariants were checked by TLC before they were proved, `OrderInv` on the
instance of `okx` and `ClientInv` on that of `bands` among them. `ExactInv` is
the exception: TLC checks it only as `LiveBookIsExact`, since `PolicySound`
quantifies over all histories.

## 5. Plan

The order followed so far puts what a client relies on first: (1) `Venues`,
`SymbolSync`, `VenueSession`: one venue's contribution is right; (2)
`AggregateOrderBook`, `SubscriberQueue`, `SymbolBook`, `ReplicatedBook`: the
aggregate and its replicas are right; (3) `SymbolBookProofs`,
`BboStreamProofs`, `RefinementProofs`: the same for every instance; (4)
`ClientShutdown`; (5) `ServerConfig` and `ServerMain`: the process around them
starts with what was asked for and ends; (6) `FixedPoint`, `BandConfig`,
`Bands`, `BandClient`, and `BandsProofs`: the numbers a client prints; (7) `Induction`, `VenueSessionProofs`, `ServerMainProofs` and
`ClientShutdownProofs`: the safety half of the session and of both shutdowns,
for every instance; (8) the order of the wire in `VenueSessionProofs`, for
identifiers that restart, and the client of `BandsProofs`, from text to print.

What is left is the liveness of the sessions, the streams and both shutdowns for
every instance, which needs another prover, and the parts listed below.

## 6. Not modelled

* JSON parsing, WebSocket and TLS transport, subscribe messages, host names:
  input and output without state of their own. Their failures are in
  `VenueSession` as skipped messages, failed fetches and lost connections.
* The gRPC front end (lookup of a book, status codes, `ListBooks`): it changes
  no state.
* Formatting of numbers and labels, and the conversion to `double`, which only
  the printed line uses; the wrappers that read a configuration file
  (`load_*`) and the text of their error messages.
* `list_books` of the client, which runs no stream.
