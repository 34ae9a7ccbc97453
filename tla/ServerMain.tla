----------------------------- MODULE ServerMain -----------------------------
(***************************************************************************)
(* The life of the server process, apps/aggregator/server_main.cpp, with   *)
(* the IngestionRunner it drives (ingestion/ingestion_runner.hpp): start,  *)
(* signals, the thread that shuts gRPC down, the barrier that tells when   *)
(* every session has drained, the watchdog, and the order of the joins.    *)
(*                                                                         *)
(* One action is what a thread does between two points where another one   *)
(* can interfere.  A VenueSession is only what the runner sees of it: it   *)
(* runs, ends after stop() unless something outside keeps it from ending,  *)
(* and its completion handler arrives at the barrier.  That it drains is   *)
(* shown in module VenueSession.  Asio, gRPC and the operating system are  *)
(* the environment.                                                        *)
(***************************************************************************)
EXTENDS ServerConfig, FiniteSets

CONSTANTS
  Configs,       \* documents the server may be started with
  AllowFailure,  \* run() may end by an exception before stop()
  MaxSignals     \* bound: SIGINT and SIGTERM sent to the process

ASSUME ServerAssumption ==
  /\ Configs \subseteq Documents
  /\ AllowFailure \in BOOLEAN /\ MaxSignals \in Nat

Nobody == "nobody"

VARIABLES
  config,     \* the document
  pc,         \* where main() is
  stuck,      \* venues with a name lookup that hangs: getaddrinfo() has not
              \* returned on the resolver's background thread
  wired,      \* venue -> its session, as wired
  sess,       \* venue -> state of the session
  posted,     \* venues whose stop() is queued on their strand
  stopping,   \* venues whose stop() has run
  arrivals,   \* venues that have still to arrive at the barrier
  stopReq,    \* stop_requested_
  drained,    \* times on_all_drained was called
  wait,       \* is an async_wait on signals outstanding?
  queued,     \* signals caught while no wait was outstanding
  strand,     \* handlers queued on signal_strand, the running one first
  stage,      \* where the running on_signal is
  shutdownReq,\* shutdown_requested
  mutex,      \* holder of grpc_shutdown_thread_mutex
  joinable,   \* grpc_shutdown_thread.joinable()
  grpc,       \* the thread that calls Shutdown()
  server,     \* the gRPC server
  rpc,        \* the subscriber streams: none, some open, one wedged
  io,         \* threads of the pool that are in io.run()
  ioStopped,  \* io.stopped()
  watchdog,   \* the watchdog's thread
  complete,   \* shutdown_complete
  beat,       \* the heartbeat's thread
  beatStop,   \* heartbeat_stop
  raised,     \* signals sent so far
  exited      \* the process was ended: std::_Exit(1), or by the default
              \* action of a signal

sessionVars == << wired, sess, posted, stopping, arrivals, stopReq, drained >>
signalVars == << wait, queued, strand, stage, shutdownReq, raised, exited >>
grpcVars == << mutex, joinable, grpc, server, rpc >>
ioVars == << io, ioStopped, watchdog, complete >>
beatVars == << beat, beatStop >>
vars == << config, pc, stuck, sessionVars, signalVars, grpcVars, ioVars,
           beatVars >>

\* main() has returned and its locals are destroyed, or the process is gone.
Ended == pc = "returned" \/ exited

\* The signal set exists.
Started == pc \notin {"load", "build", "wire", "refuse", "refuse_shutdown",
                      "arm", "teardown", "returned"}

-----------------------------------------------------------------------------
(* main(): start-up.                                                       *)

\* Every parser must accept the document.
LoadConfig ==
  /\ pc = "load"
  /\ pc' = IF ConfigAccepted(config) THEN "build" ELSE "returned"
  /\ UNCHANGED << config, stuck, sessionVars, signalVars, grpcVars, ioVars,
                  beatVars >>

\* BuildAndStart, then the heartbeat's thread; or the port is taken.
BuildServer ==
  /\ pc = "build"
  /\ \/ pc' = "wire" /\ server' = "serving" /\ beat' = "looping"
     \/ pc' = "returned" /\ UNCHANGED << server, beat >>
  /\ UNCHANGED << config, stuck, sessionVars, signalVars, mutex, joinable,
                  grpc, rpc, ioVars, beatStop >>

\* The wire_venue() calls and the two checks of fail_on_bad_venues.
WireVenues ==
  /\ pc = "wire"
  /\ wired' = WiredSessions(config)
  /\ sess' = [v \in DOMAIN wired' |-> "wired"]
  /\ IF HasBadVenues(config, DOMAIN wired')
     THEN pc' = "refuse" /\ beatStop' = TRUE
     ELSE pc' = "arm" /\ UNCHANGED beatStop
  /\ UNCHANGED << config, stuck, posted, stopping, arrivals, stopReq, drained,
                  signalVars, grpcVars, ioVars, beat >>

\* fail_on_bad_venues: join the heartbeat, ...
Refuse ==
  /\ pc = "refuse" /\ beat = "ended"
  /\ pc' = "refuse_shutdown"
  /\ UNCHANGED << config, stuck, sessionVars, signalVars, grpcVars, ioVars,
                  beatVars >>

\* ... then Shutdown() without a deadline, which waits for every stream.
RefuseShutdown ==
  /\ pc = "refuse_shutdown" /\ rpc = "none"
  /\ server' = "shut"
  /\ pc' = "returned"
  /\ UNCHANGED << config, stuck, sessionVars, signalVars, mutex, joinable,
                  grpc, rpc, ioVars, beatVars >>

\* signal_set and its first async_wait.
ArmSignals ==
  /\ pc = "arm"
  /\ wait' = TRUE
  /\ pc' = "start"
  /\ UNCHANGED << config, stuck, sessionVars, queued, strand, stage,
                  shutdownReq, raised, exited, grpcVars, ioVars, beatVars >>

\* start_all: the barrier expects every session.  Without sessions it calls
\* on_all_drained at once.
StartAll ==
  /\ pc = "start"
  /\ sess' = [v \in DOMAIN sess |-> "started"]
  /\ arrivals' = DOMAIN sess
  /\ IF DOMAIN sess = {}
     THEN drained' = 1 /\ strand' = Append(strand, "cancel")
     ELSE UNCHANGED << drained, strand >>
  /\ pc' = "spawn"
  /\ UNCHANGED << config, stuck, wired, posted, stopping, stopReq, wait,
                  queued, stage, shutdownReq, raised, exited, grpcVars,
                  ioVars, beatVars >>

SpawnIoThreads ==
  /\ pc = "spawn"
  /\ io' = 1 .. io_threads(config)
  /\ pc' = "wait"
  /\ UNCHANGED << config, stuck, sessionVars, signalVars, grpcVars,
                  ioStopped, watchdog, complete, beatVars >>

-----------------------------------------------------------------------------
(* main(): shutdown.                                                       *)

\* server->Wait() returns when Shutdown() has drained the server.
WaitReturns ==
  /\ pc = "wait" /\ server = "shut"
  /\ pc' = "lock"
  /\ UNCHANGED << config, stuck, sessionVars, signalVars, grpcVars, ioVars,
                  beatVars >>

\* Seeded fault: main() reads grpc_shutdown_thread without the mutex.
LockShutdownThreadUnguarded ==
  /\ pc = "lock"
  /\ pc' = IF joinable THEN "join" ELSE "watch"
  /\ mutex' = IF joinable THEN "main" ELSE mutex
  /\ UNCHANGED << config, stuck, sessionVars, signalVars, joinable, grpc,
                  server, rpc, ioVars, beatVars >>

\* joinable() under the mutex; a thread to join keeps it locked.
LockShutdownThread ==
  /\ pc = "lock" /\ mutex = Nobody
  /\ pc' = IF joinable THEN "join" ELSE "watch"
  /\ mutex' = IF joinable THEN "main" ELSE Nobody
  /\ UNCHANGED << config, stuck, sessionVars, signalVars, joinable, grpc,
                  server, rpc, ioVars, beatVars >>

JoinShutdownThread ==
  /\ pc = "join" /\ grpc = "ended"
  /\ joinable' = FALSE
  /\ mutex' = Nobody
  /\ pc' = "watch"
  /\ UNCHANGED << config, stuck, sessionVars, signalVars, grpc, server, rpc,
                  ioVars, beatVars >>

StartWatchdog ==
  /\ pc = "watch"
  /\ watchdog' = "waiting"
  /\ pc' = "stop"
  /\ UNCHANGED << config, stuck, sessionVars, signalVars, grpcVars, io,
                  ioStopped, complete, beatVars >>

\* Seeded fault: stop_all() sets stop_requested_ after it has told the
\* sessions.
StopAllFlagLast ==
  /\ pc = "stop"
  /\ \/ /\ posted # DOMAIN sess
        /\ posted' = posted \cup {CHOOSE v \in DOMAIN sess : v \notin posted}
        /\ UNCHANGED << stopReq, pc >>
     \/ /\ posted = DOMAIN sess
        /\ stopReq' = TRUE
        /\ pc' = "join_io"
        /\ UNCHANGED posted
  /\ UNCHANGED << config, stuck, wired, sess, stopping, arrivals, drained,
                  signalVars, grpcVars, ioVars, beatVars >>

\* stop_all(): first the flag, ...
StopAllFlag ==
  /\ pc = "stop"
  /\ stopReq' = TRUE
  /\ pc' = "post"
  /\ UNCHANGED << config, stuck, wired, sess, posted, stopping, arrivals,
                  drained, signalVars, grpcVars, ioVars, beatVars >>

\* ... then stop() of one session after the other.
StopAllPost ==
  /\ pc = "post"
  /\ \/ \E v \in DOMAIN sess \ posted :
          posted' = posted \cup {v} /\ UNCHANGED pc
     \/ posted = DOMAIN sess /\ pc' = "join_io" /\ UNCHANGED posted
  /\ UNCHANGED << config, stuck, wired, sess, stopping, arrivals, stopReq,
                  drained, signalVars, grpcVars, ioVars, beatVars >>

JoinIoThreads ==
  /\ pc = "join_io" /\ io = {}
  /\ pc' = "complete"
  /\ UNCHANGED << config, stuck, sessionVars, signalVars, grpcVars, ioVars,
                  beatVars >>

\* shutdown_complete, under the mutex the watchdog holds while it forces.
SetComplete ==
  /\ pc = "complete" /\ watchdog # "forcing"
  /\ complete' = TRUE
  /\ pc' = "join_watchdog"
  /\ UNCHANGED << config, stuck, sessionVars, signalVars, grpcVars, io,
                  ioStopped, watchdog, beatVars >>

JoinWatchdog ==
  /\ pc = "join_watchdog" /\ watchdog \in {"ended", "forced"}
  /\ beatStop' = TRUE
  /\ pc' = "join_beat"
  /\ UNCHANGED << config, stuck, sessionVars, signalVars, grpcVars, ioVars,
                  beat >>

\* The last join, and return 0.
JoinHeartbeat ==
  /\ pc = "join_beat" /\ beat = "ended"
  /\ pc' = "return"
  /\ UNCHANGED << config, stuck, sessionVars, signalVars, grpcVars, ioVars,
                  beatVars >>

\* main()'s locals are destroyed, the last declared first: with signals the
\* wait that is outstanding, and the process's handlers of SIGINT and SIGTERM.
DestroySignals ==
  /\ pc = "return"
  /\ wait' = FALSE
  /\ pc' = "teardown"
  /\ UNCHANGED << config, stuck, sessionVars, queued, strand, stage,
                  shutdownReq, raised, exited, grpcVars, ioVars, beatVars >>

\* ~io_context joins the resolver's background thread.
DestroyIo ==
  /\ pc = "teardown" /\ stuck = {}
  /\ pc' = "returned"
  /\ UNCHANGED << config, stuck, sessionVars, signalVars, grpcVars, ioVars,
                  beatVars >>

-----------------------------------------------------------------------------
(* The io_context.  A handler runs on a thread that is in io.run().        *)

\* A free thread takes the next handler; the running on_signal keeps one.
CanDispatch == ~ioStopped /\ Cardinality(io) > (IF stage = "idle" THEN 0 ELSE 1)

\* What keeps io.run() from returning.
HasWork ==
  \/ stuck # {} \/ wait \/ strand # << >> \/ posted # stopping
  \/ \E v \in DOMAIN sess : sess[v] \in {"started", "running"}

\* io.run() returns when it was stopped or nothing is left; the latter also
\* stops the io_context.
IoThreadReturns(t) ==
  /\ t \in io
  /\ Cardinality(io) > 1 \/ stage = "idle"
  /\ ioStopped \/ ~HasWork
  /\ io' = io \ {t}
  /\ ioStopped' = TRUE
  /\ UNCHANGED << config, pc, stuck, sessionVars, signalVars, grpcVars,
                  watchdog, complete, beatVars >>

-----------------------------------------------------------------------------
(* Sessions and the runner's barrier.                                      *)

\* Seeded fault: the completion function does not look at stop_requested_.
ArriveUnchecked(v) ==
  /\ sess' = [sess EXCEPT ![v] = "done"]
  /\ arrivals' = arrivals \ {v}
  /\ IF arrivals' = {}
     THEN drained' = drained + 1 /\ strand' = Append(strand, "cancel")
     ELSE UNCHANGED << drained, strand >>

\* Seeded fault: every session that ends calls on_all_drained.
ArriveEach(v) ==
  /\ sess' = [sess EXCEPT ![v] = "done"]
  /\ arrivals' = arrivals \ {v}
  /\ IF stopReq
     THEN drained' = drained + 1 /\ strand' = Append(strand, "cancel")
     ELSE UNCHANGED << drained, strand >>

\* A session's completion handler arrives.  The last one runs the barrier's
\* completion function, which posts the cancel to signal_strand.
Arrive(v) ==
  /\ sess' = [sess EXCEPT ![v] = "done"]
  /\ arrivals' = arrivals \ {v}
  /\ IF arrivals' = {} /\ stopReq
     THEN drained' = drained + 1 /\ strand' = Append(strand, "cancel")
     ELSE UNCHANGED << drained, strand >>

\* start()'s handler; it is queued before any stop() on the same strand.  A
\* lookup of the session, for a connection or a snapshot, may hang.
SessionBegins(v) ==
  /\ sess[v] = "started" /\ CanDispatch
  /\ sess' = [sess EXCEPT ![v] = "running"]
  /\ stuck' \in {stuck, stuck \cup {v}}
  /\ UNCHANGED << config, pc, wired, posted, stopping, arrivals,
                  stopReq, drained, signalVars, grpcVars, ioVars, beatVars >>

\* stop()'s handler.
StopRuns(v) ==
  /\ v \in posted \ stopping /\ sess[v] # "started" /\ CanDispatch
  /\ stopping' = stopping \cup {v}
  /\ UNCHANGED << config, pc, stuck, wired, sess, posted, arrivals, stopReq,
                  drained, signalVars, grpcVars, ioVars, beatVars >>

\* run() returns: after stop() and its drain, or by an exception.  While a
\* lookup hangs the drain may go on or be over: its cancellation may complete.
SessionEnds(v) ==
  /\ sess[v] = "running" /\ CanDispatch
  /\ v \in stopping \/ AllowFailure
  /\ Arrive(v)
  /\ UNCHANGED << config, pc, stuck, wired, posted, stopping, stopReq, wait,
                  queued, stage, shutdownReq, raised, exited, grpcVars,
                  ioVars, beatVars >>

\* getaddrinfo() returns at last.
LookupReturns(v) ==
  /\ v \in stuck
  /\ stuck' = stuck \ {v}
  /\ UNCHANGED << config, pc, sessionVars, signalVars, grpcVars, ioVars,
                  beatVars >>

-----------------------------------------------------------------------------
(* Signals, on signal_strand.                                              *)

\* The operating system delivers a signal once signal_set is registered.
Raise ==
  /\ raised < MaxSignals
  /\ Started
  /\ raised' = raised + 1
  /\ IF wait
     THEN strand' = Append(strand, "signal") /\ wait' = FALSE
          /\ UNCHANGED queued
     ELSE queued' = queued + 1 /\ UNCHANGED << strand, wait >>
  /\ UNCHANGED << config, pc, stuck, sessionVars, stage, shutdownReq, exited,
                  grpcVars, ioVars, beatVars >>

\* After signals is destroyed the default action ends the process.
RaiseDefault ==
  /\ raised < MaxSignals
  /\ pc = "teardown"
  /\ raised' = raised + 1
  /\ exited' = TRUE
  /\ UNCHANGED << config, pc, stuck, sessionVars, wait, queued, strand, stage,
                  shutdownReq, grpcVars, ioVars, beatVars >>

NextOnStrand(kind) ==
  /\ stage = "idle" /\ strand # << >> /\ Head(strand) = kind
  /\ ~ioStopped /\ io # {}

\* on_signal: the second signal ends the process on the spot.
OnSignal ==
  /\ NextOnStrand("signal")
  /\ IF shutdownReq
     THEN exited' = TRUE /\ UNCHANGED << shutdownReq, stage >>
     ELSE shutdownReq' = TRUE /\ stage' = "spawning" /\ UNCHANGED exited
  /\ UNCHANGED << config, pc, stuck, sessionVars, wait, queued, strand,
                  raised, grpcVars, ioVars, beatVars >>

\* Under the mutex: the thread is created, and runs, ...
SpawnShutdownThread ==
  /\ stage = "spawning" /\ mutex = Nobody
  /\ mutex' = "handler"
  /\ grpc' = "running"
  /\ stage' = "assigning"
  /\ UNCHANGED << config, pc, stuck, sessionVars, wait, queued, strand,
                  shutdownReq, raised, exited, joinable, server, rpc, ioVars,
                  beatVars >>

\* ... before it is assigned to grpc_shutdown_thread.
AssignShutdownThread ==
  /\ stage = "assigning"
  /\ joinable' = TRUE
  /\ mutex' = Nobody
  /\ stage' = "rearming"
  /\ UNCHANGED << config, pc, stuck, sessionVars, wait, queued, strand,
                  shutdownReq, raised, exited, grpc, server, rpc, ioVars,
                  beatVars >>

\* Seeded fault: the signal handler is one-shot.
RearmNever ==
  /\ stage = "rearming"
  /\ stage' = "idle"
  /\ strand' = Tail(strand)
  /\ UNCHANGED << config, pc, stuck, sessionVars, wait, queued, shutdownReq,
                  raised, exited, grpcVars, ioVars, beatVars >>

\* async_wait again: a signal caught in the meantime completes it at once.
Rearm ==
  /\ stage = "rearming"
  /\ stage' = "idle"
  /\ IF queued > 0
     THEN /\ queued' = queued - 1
          /\ strand' = Append(Tail(strand), "signal")
          /\ UNCHANGED wait
     ELSE strand' = Tail(strand) /\ wait' = TRUE /\ UNCHANGED queued
  /\ UNCHANGED << config, pc, stuck, sessionVars, shutdownReq, raised,
                  exited, grpcVars, ioVars, beatVars >>

\* signals.cancel(): the outstanding wait completes with an error.
CancelWait ==
  /\ NextOnStrand("cancel")
  /\ strand' = Tail(strand) \o (IF wait THEN << "aborted" >> ELSE << >>)
  /\ wait' = FALSE
  /\ UNCHANGED << config, pc, stuck, sessionVars, queued, stage, shutdownReq,
                  raised, exited, grpcVars, ioVars, beatVars >>

\* on_signal with an error code returns.
OnAborted ==
  /\ NextOnStrand("aborted")
  /\ strand' = Tail(strand)
  /\ UNCHANGED << config, pc, stuck, sessionVars, wait, queued, stage,
                  shutdownReq, raised, exited, grpcVars, ioVars, beatVars >>

-----------------------------------------------------------------------------
(* The other threads.                                                      *)

\* Shutdown(deadline): after the deadline every stream is cancelled, but a
\* wedged Write() is waited for.
ShutdownDrains ==
  /\ grpc = "running" /\ server = "serving" /\ rpc # "wedged"
  /\ server' = "shut"
  /\ rpc' = "none"
  /\ UNCHANGED << config, pc, stuck, sessionVars, signalVars, mutex,
                  joinable, grpc, ioVars, beatVars >>

ShutdownThreadEnds ==
  /\ grpc = "running" /\ server = "shut"
  /\ grpc' = "ended"
  /\ UNCHANGED << config, pc, stuck, sessionVars, signalVars, mutex,
                  joinable, server, rpc, ioVars, beatVars >>

\* Subscribers come, go, and stop reading.
Subscribers ==
  /\ server = "serving"
  /\ rpc' \in {"none", "open", "wedged"} \ {rpc}
  /\ rpc' = "wedged" => rpc = "open"
  /\ UNCHANGED << config, pc, stuck, sessionVars, signalVars, mutex,
                  joinable, grpc, server, ioVars, beatVars >>

\* kShutdownTimeout is over and shutdown_complete is not set, ...
WatchdogExpires ==
  /\ watchdog = "waiting" /\ ~complete
  /\ watchdog' = "forcing"
  /\ UNCHANGED << config, pc, stuck, sessionVars, signalVars, grpcVars, io,
                  ioStopped, complete, beatVars >>

\* Seeded fault: the watchdog asks the sessions to stop once more.
WatchdogStopsAgain ==
  /\ watchdog = "forcing"
  /\ posted' = DOMAIN sess
  /\ watchdog' = "forced"
  /\ UNCHANGED << config, pc, stuck, wired, sess, stopping, arrivals, stopReq,
                  drained, signalVars, grpcVars, io, ioStopped, complete,
                  beatVars >>

\* ... so io.stop() is called.
WatchdogForces ==
  /\ watchdog = "forcing"
  /\ ioStopped' = TRUE
  /\ watchdog' = "forced"
  /\ UNCHANGED << config, pc, stuck, sessionVars, signalVars, grpcVars, io,
                  complete, beatVars >>

WatchdogEnds ==
  /\ watchdog = "waiting" /\ complete
  /\ watchdog' = "ended"
  /\ UNCHANGED << config, pc, stuck, sessionVars, signalVars, grpcVars, io,
                  ioStopped, complete, beatVars >>

\* The heartbeat's loop: sleep, look at the flag, send, look again.
HeartbeatStep ==
  /\ beat \in {"looping", "sending"}
  /\ beat' = IF beatStop THEN "ended"
             ELSE IF beat = "looping" THEN "sending" ELSE "looping"
  /\ UNCHANGED << config, pc, stuck, sessionVars, signalVars, grpcVars,
                  ioVars, beatStop >>

-----------------------------------------------------------------------------
Init ==
  /\ config \in Configs
  /\ pc = "load"
  /\ stuck = {} /\ wired = << >> /\ sess = << >>
  /\ posted = {} /\ stopping = {} /\ arrivals = {}
  /\ stopReq = FALSE /\ drained = 0
  /\ wait = FALSE /\ queued = 0 /\ strand = << >> /\ stage = "idle"
  /\ shutdownReq = FALSE
  /\ mutex = Nobody /\ joinable = FALSE /\ grpc = "none"
  /\ server = "none" /\ rpc = "none"
  /\ io = {} /\ ioStopped = FALSE
  /\ watchdog = "none" /\ complete = FALSE
  /\ beat = "none" /\ beatStop = FALSE
  /\ raised = 0 /\ exited = FALSE

MainStep ==
  \/ LoadConfig \/ BuildServer \/ WireVenues \/ Refuse \/ RefuseShutdown
  \/ ArmSignals \/ StartAll \/ SpawnIoThreads
  \/ WaitReturns \/ LockShutdownThread \/ JoinShutdownThread
  \/ StartWatchdog \/ StopAllFlag \/ StopAllPost \/ JoinIoThreads
  \/ SetComplete \/ JoinWatchdog \/ JoinHeartbeat \/ DestroySignals \/ DestroyIo

SignalHandlerStep ==
  \/ OnSignal \/ SpawnShutdownThread \/ AssignShutdownThread \/ Rearm
  \/ CancelWait \/ OnAborted

SessionStep(v) == SessionBegins(v) \/ StopRuns(v) \/ SessionEnds(v)
ShutdownThreadStep == ShutdownDrains \/ ShutdownThreadEnds
WatchdogStep == WatchdogForces \/ WatchdogEnds

Next ==
  /\ ~exited
  /\ \/ MainStep \/ SignalHandlerStep
     \/ \E v \in DOMAIN sess : SessionStep(v) \/ LookupReturns(v)
     \/ \E t \in io : IoThreadReturns(t)
     \/ ShutdownThreadStep \/ WatchdogStep \/ WatchdogExpires
     \/ HeartbeatStep \/ Subscribers \/ Raise \/ RaiseDefault

Spec == Init /\ [][Next]_vars

\* Every thread that can run is run.  Nothing is assumed of signals, of
\* subscribers, of exceptions in a session, of a lookup that hangs and the
\* drain that may wait for it, or of the watchdog's timer, which is slower
\* than everything it watches.
FairSpec ==
  /\ Spec
  /\ WF_vars(~exited /\ MainStep)
  /\ WF_vars(~exited /\ SignalHandlerStep)
  /\ \A v \in VenueId : WF_vars(~exited /\ v \in DOMAIN sess /\
                                (SessionBegins(v) \/ StopRuns(v)
                                 \/ (v \in stopping \ stuck /\ SessionEnds(v))))
  /\ WF_vars(~exited /\ \E t \in io : IoThreadReturns(t))
  /\ WF_vars(~exited /\ ShutdownThreadStep)
  /\ WF_vars(~exited /\ WatchdogStep)
  /\ WF_vars(~exited /\ HeartbeatStep)

-----------------------------------------------------------------------------
(* What must hold.                                                         *)

TypeOK ==
  /\ pc \in {"load", "build", "wire", "refuse", "refuse_shutdown", "arm",
             "start", "spawn", "wait", "lock", "join", "watch", "stop",
             "post", "join_io", "complete", "join_watchdog", "join_beat",
             "return", "teardown", "returned"}
  /\ DOMAIN sess = DOMAIN wired /\ DOMAIN wired \subseteq Wirable
  /\ sess \in [DOMAIN sess -> {"wired", "started", "running", "done"}]
  /\ stuck \subseteq DOMAIN sess
  /\ stopping \subseteq posted /\ posted \subseteq DOMAIN sess
  /\ arrivals \subseteq DOMAIN sess
  /\ drained \in 0 .. 1 /\ queued \in 0 .. MaxSignals
  /\ \A i \in DOMAIN strand : strand[i] \in {"signal", "cancel", "aborted"}
  /\ Len(strand) <= 2
  /\ stage \in {"idle", "spawning", "assigning", "rearming"}
  /\ mutex \in {Nobody, "main", "handler"}
  /\ grpc \in {"none", "running", "ended"}
  /\ server \in {"none", "serving", "shut"}
  /\ rpc \in {"none", "open", "wedged"}
  /\ io \subseteq 1 .. kMaxIoThreads
  /\ watchdog \in {"none", "waiting", "forcing", "forced", "ended"}
  /\ beat \in {"none", "looping", "sending", "ended"}
  /\ raised \in 0 .. MaxSignals
  /\ {stopReq, wait, shutdownReq, joinable, ioStopped, complete, beatStop,
      exited} \subseteq BOOLEAN

\* Until the server was told to stop and every session has drained, a signal
\* is waited for or already on its way to on_signal: the only way to stop the
\* server, and then the way out of a drain that hangs.  Sessions that fail
\* early must not cancel it.
HatchStaysArmed ==
  Started /\ (~stopReq \/ \E v \in DOMAIN sess : sess[v] # "done")
    => wait \/ \E i \in DOMAIN strand : strand[i] = "signal"

\* main() has executed its return statement.
Leaving == {"return", "teardown", "returned"}

\* When main() returns, by any path, no thread is left that could use what
\* its destructors destroy, and no std::thread is destroyed unjoined.  After
\* a full shutdown that the watchdog did not cut short, every session has
\* drained and on_all_drained was called, once: what makes it safe to destroy
\* the runner after the signal set that this callback refers to.
ReturnIsClean ==
  pc \in Leaving =>
    /\ beat \in {"none", "ended"}
    /\ watchdog \in {"none", "ended", "forced"}
    /\ io = {}
    /\ grpc \in {"none", "ended"} /\ ~joinable
    /\ complete /\ watchdog # "forced" =>
         stopReq /\ drained = 1 /\ \A v \in DOMAIN sess : sess[v] = "done"

\* In a server that has started, every venue a book names has a session that
\* subscribes to the book's symbol there and delivers it to that book, unless
\* two books have the same spelling at that venue; and nothing is delivered
\* to a book that did not ask for it.  This spans the parser, the grouping
\* by venue and market, the wiring and the two start-up checks.
Named(b, v) == b.type = v.type /\ v.exchange \in Range(b.venues)

Spelling(b, v) == native_symbol(v.exchange, BookId(b).symbol, v.type)

BooksReachTheirVenues ==
  Started =>
    /\ DOMAIN wired # {}
    /\ \A v \in VenueId, i \in DOMAIN config.books :
         LET b == config.books[i]
             alone == \A j \in DOMAIN config.books :
                        /\ j # i /\ Named(config.books[j], v)
                        => Spelling(config.books[j], v) # Spelling(b, v)
         IN /\ Named(b, v) =>
                 /\ v \in DOMAIN wired
                 /\ Contains(wired[v].native_symbols, Spelling(b, v))
                 /\ alone => wired[v].registry[Spelling(b, v)] = BookId(b)
            /\ ~Named(b, v) /\ v \in DOMAIN wired =>
                 BookId(b) \notin Range(wired[v].registry)
    /\ \A i \in DOMAIN config.overrides :
         wired[config.overrides[i].venue_id].idle_timeout
           = config.overrides[i].seconds

-----------------------------------------------------------------------------
\* Every session ended before stop_all(): on_all_drained is then never called.
EndedEarly == Started /\ arrivals = {} /\ drained = 0 /\ posted = {}

\* After the first signal main() returns without the watchdog's help, if no
\* stream is wedged, no lookup hangs for ever, and not every session had ended
\* before: the re-armed wait, which keeps io.run() busy, is cancelled in time.
MainReturns ==
  shutdownReq /\ posted = {}
    ~> (Ended \/ rpc = "wedged" \/ EndedEarly \/ [](stuck # {}))

\* A lookup hangs, and nobody hears a signal any more: every session has
\* drained and the wait was cancelled, or io was stopped.
HangsUnheard == stuck # {} /\ (drained = 1 \/ ioStopped)

\* A second signal ends the process wherever the shutdown hangs, by _Exit(1)
\* or because main() was returning anyway.  The exception is a lookup that
\* hangs for ever once nobody hears signals.
SecondSignalEnds == raised >= 2 ~> (Ended \/ []HangsUnheard)

\* Once the watchdog has stopped io, main() gets as far as ~io_context whatever
\* hangs, and the process ends unless a lookup that this waits for never
\* returns ("a genuinely stuck/black-holed resolution can still delay process
\* teardown past this bound", server_main.cpp).
ForcedShutdownEnds ==
  watchdog = "forcing" ~> (Ended \/ [](pc = "teardown" /\ stuck # {}))
=============================================================================
