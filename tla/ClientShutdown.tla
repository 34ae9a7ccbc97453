--------------------------- MODULE ClientShutdown ---------------------------
(***************************************************************************)
(* How the command-line client stops, apps/aggregator/client_main.cpp: one *)
(* thread per subscribed stream, each with a StreamCanceller (an object    *)
(* and a thread of its own that cancels the call when stop is requested),  *)
(* the registry of cancellers, the thread that waits for signals, and      *)
(* main(), which joins them all.                                           *)
(*                                                                         *)
(* One action is what a thread does between two points where another       *)
(* thread can interfere: taking a mutex, blocking, or writing an atomic.   *)
(* gRPC is the environment: a stream ends on its own at any time or never, *)
(* and soon after its context was cancelled.                               *)
(***************************************************************************)
EXTENDS Naturals, FiniteSets

CONSTANTS
  Stream,      \* stream threads
  Timed,       \* duration_seconds > 0: main() itself requests a stop
  MaxSignals   \* bound: SIGINT and SIGTERM sent to the process

ASSUME ShutdownAssumption == Timed \in BOOLEAN /\ MaxSignals \in Nat

\* The two callers of request_stop().
Requester == {"watcher", "main"}
Nobody == "nobody"

VARIABLES
  stop,        \* stop
  strm,        \* stream -> where its thread is
  cancelled,   \* streams whose context was cancelled
  loopDone,    \* streams with read_loop_done_
  canc,        \* stream -> where its canceller's thread is
  registry,    \* canceller_registry()
  regHolder,   \* who holds canceller_registry_mutex() for a sweep
  todo,        \* cancellers the sweep has still to notify
  pc,          \* requester -> where it is
  teardown,    \* teardown_requested_
  realPending, \* SIGINT or SIGTERM is pending
  wakePending, \* SIGUSR1 is pending
  signals,     \* signals sent so far
  exited       \* std::_Exit(1)

threadVars == << strm, cancelled, loopDone, canc >>
sweepVars == << stop, registry, regHolder, todo, pc >>
signalVars == << teardown, realPending, wakePending, signals, exited >>
vars == << threadVars, sweepVars, signalVars >>

-----------------------------------------------------------------------------
(* A stream's thread: publish_bbo or publish_l2_bands.                     *)

\* StreamCanceller's mutex_ is held by its thread in these states.  All other
\* holders release it in the action that takes it.
HoldsMutex(s) == canc[s] \in {"checked", "deciding"}

\* cv_.notify_all(): only a thread that waits is woken.
Woken(s) == IF canc[s] = "waiting" THEN "locking" ELSE canc[s]

\* The constructor starts the canceller's thread, ...
StartCanceller(s) ==
  /\ strm[s] = "start"
  /\ strm' = [strm EXCEPT ![s] = "constructed"]
  /\ canc' = [canc EXCEPT ![s] = "locking"]
  /\ UNCHANGED << cancelled, loopDone, sweepVars, signalVars >>

\* ... and then registers it.
Register(s) ==
  /\ strm[s] = "constructed"
  /\ regHolder = Nobody
  /\ registry' = registry \cup {s}
  /\ strm' = [strm EXCEPT ![s] = "reading"]
  /\ UNCHANGED << cancelled, loopDone, canc, stop, regHolder, todo, pc,
                  signalVars >>

\* Read() returns false because the call was cancelled, ...
ReadCancelled(s) ==
  /\ strm[s] = "reading" /\ s \in cancelled
  /\ strm' = [strm EXCEPT ![s] = "ended"]
  /\ UNCHANGED << cancelled, loopDone, canc, sweepVars, signalVars >>

\* ... or the stream ends by itself, or a gap makes the loop leave it.
StreamEnds(s) ==
  /\ strm[s] = "reading"
  /\ strm' = [strm EXCEPT ![s] = "ended"]
  /\ UNCHANGED << cancelled, loopDone, canc, sweepVars, signalVars >>

\* Seeded fault: the destructor does not take the registry's mutex.
DeregisterUnlocked(s) ==
  /\ strm[s] = "ended"
  /\ registry' = registry \ {s}
  /\ strm' = [strm EXCEPT ![s] = "deregistered"]
  /\ UNCHANGED << cancelled, loopDone, canc, stop, regHolder, todo, pc,
                  signalVars >>

\* ~StreamCanceller: deregister, set the flag, notify, join.
Deregister(s) ==
  /\ strm[s] = "ended"
  /\ regHolder = Nobody
  /\ registry' = registry \ {s}
  /\ strm' = [strm EXCEPT ![s] = "deregistered"]
  /\ UNCHANGED << cancelled, loopDone, canc, stop, regHolder, todo, pc,
                  signalVars >>

SetLoopDone(s) ==
  /\ strm[s] = "deregistered"
  /\ ~HoldsMutex(s)
  /\ loopDone' = loopDone \cup {s}
  /\ strm' = [strm EXCEPT ![s] = "flagged"]
  /\ UNCHANGED << cancelled, canc, sweepVars, signalVars >>

NotifyLoopDone(s) ==
  /\ strm[s] = "flagged"
  /\ canc' = [canc EXCEPT ![s] = Woken(s)]
  /\ strm' = [strm EXCEPT ![s] = "joining"]
  /\ UNCHANGED << cancelled, loopDone, sweepVars, signalVars >>

JoinCanceller(s) ==
  /\ strm[s] = "joining"
  /\ canc[s] = "returned"
  /\ strm' = [strm EXCEPT ![s] = "finished"]
  /\ UNCHANGED << cancelled, loopDone, canc, sweepVars, signalVars >>

-----------------------------------------------------------------------------
(* A canceller's thread: StreamCanceller::run.                             *)

\* Take mutex_ and evaluate the predicate of cv_.wait.
CheckPredicate(s) ==
  /\ canc[s] = "locking"
  /\ canc' = [canc EXCEPT ![s] =
                IF stop \/ s \in loopDone THEN "deciding" ELSE "checked"]
  /\ UNCHANGED << strm, cancelled, loopDone, sweepVars, signalVars >>

\* Block, and release mutex_ with it.
BlockOnCv(s) ==
  /\ canc[s] = "checked"
  /\ canc' = [canc EXCEPT ![s] = "waiting"]
  /\ UNCHANGED << strm, cancelled, loopDone, sweepVars, signalVars >>

\* A condition variable may wake a thread for no reason.
SpuriousWake(s) ==
  /\ canc[s] = "waiting"
  /\ canc' = [canc EXCEPT ![s] = "locking"]
  /\ UNCHANGED << strm, cancelled, loopDone, sweepVars, signalVars >>

\* should_cancel is read again after the wait; mutex_ is released.
Decide(s) ==
  /\ canc[s] = "deciding"
  /\ canc' = [canc EXCEPT ![s] = IF stop THEN "cancelling" ELSE "returned"]
  /\ UNCHANGED << strm, cancelled, loopDone, sweepVars, signalVars >>

TryCancel(s) ==
  /\ canc[s] = "cancelling"
  /\ cancelled' = cancelled \cup {s}
  /\ canc' = [canc EXCEPT ![s] = "returned"]
  /\ UNCHANGED << strm, loopDone, sweepVars, signalVars >>

-----------------------------------------------------------------------------
(* request_stop, for both of its callers.                                  *)

SetStop(r) ==
  /\ pc[r] = "request"
  /\ stop' = TRUE
  /\ pc' = [pc EXCEPT ![r] = "lock"]
  /\ UNCHANGED << registry, regHolder, todo, threadVars, signalVars >>

\* notify_all_of_stop: the registry's mutex is held for the whole sweep.
LockRegistry(r) ==
  /\ pc[r] = "lock"
  /\ regHolder = Nobody
  /\ regHolder' = r
  /\ todo' = registry
  /\ pc' = [pc EXCEPT ![r] = "sweep"]
  /\ UNCHANGED << stop, registry, threadVars, signalVars >>

\* Seeded fault: notify_stop() does not take the canceller's mutex_.
NotifyStopUnlocked(r, s) ==
  /\ pc[r] = "sweep" /\ s \in todo
  /\ canc' = [canc EXCEPT ![s] = Woken(s)]
  /\ todo' = todo \ {s}
  /\ UNCHANGED << strm, cancelled, loopDone, stop, registry, regHolder, pc,
                  signalVars >>

\* notify_stop() takes the canceller's mutex_.
NotifyStop(r, s) ==
  /\ pc[r] = "sweep" /\ s \in todo
  /\ ~HoldsMutex(s)
  /\ canc' = [canc EXCEPT ![s] = Woken(s)]
  /\ todo' = todo \ {s}
  /\ UNCHANGED << strm, cancelled, loopDone, stop, registry, regHolder, pc,
                  signalVars >>

UnlockRegistry(r) ==
  /\ pc[r] = "sweep" /\ todo = {}
  /\ regHolder' = Nobody
  /\ pc' = [pc EXCEPT ![r] = IF r = "main" THEN "joining" ELSE "second"]
  /\ UNCHANGED << stop, registry, todo, threadVars, signalVars >>

-----------------------------------------------------------------------------
(* Signals, and the thread that waits for them.                            *)

\* The operator or the system sends SIGINT or SIGTERM.  Pending signals of
\* one kind are one signal.
SendSignal ==
  /\ signals < MaxSignals
  /\ signals' = signals + 1
  /\ realPending' = TRUE
  /\ UNCHANGED << teardown, wakePending, exited, threadVars, sweepVars >>

\* Somebody sends SIGUSR1 for a reason of his own.
SendUnrelated ==
  /\ ~wakePending
  /\ wakePending' = TRUE
  /\ UNCHANGED << teardown, realPending, signals, exited, threadVars,
                  sweepVars >>

\* watch_for_shutdown_signal: the first real signal requests a stop, the
\* second one exits.
TakeSignal ==
  /\ pc["watcher"] \in {"first", "second"}
  /\ realPending
  /\ realPending' = FALSE
  /\ IF pc["watcher"] = "first"
       THEN /\ pc' = [pc EXCEPT !["watcher"] = "request"]
            /\ UNCHANGED exited
       ELSE /\ exited' = TRUE
            /\ UNCHANGED pc
  /\ UNCHANGED << teardown, wakePending, signals, threadVars, stop, registry,
                  regHolder, todo >>

\* SIGUSR1 ends the wait only when the watcher is being torn down.
TakeWakeup ==
  /\ pc["watcher"] \in {"first", "second"}
  /\ wakePending
  /\ wakePending' = FALSE
  /\ pc' = IF teardown THEN [pc EXCEPT !["watcher"] = "returned"] ELSE pc
  /\ UNCHANGED << teardown, realPending, signals, exited, threadVars, stop,
                  registry, regHolder, todo >>

-----------------------------------------------------------------------------
(* main().                                                                 *)

\* The wait for the deadline ends: stop was requested, or time is up.
TimerEnds ==
  /\ pc["main"] = "timer"
  /\ pc' = [pc EXCEPT !["main"] = IF stop THEN "joining" ELSE "request"]
  /\ UNCHANGED << stop, registry, regHolder, todo, threadVars, signalVars >>

\* Every stream thread is joined.
JoinStreams ==
  /\ pc["main"] = "joining"
  /\ \A s \in Stream : strm[s] = "finished"
  /\ pc' = [pc EXCEPT !["main"] = "teardown"]
  /\ UNCHANGED << stop, registry, regHolder, todo, threadVars, signalVars >>

\* Seeded fault: the destructor wakes the thread without telling it why.
TeardownUnannounced ==
  /\ pc["main"] = "teardown"
  /\ pc' = [pc EXCEPT !["main"] = "kill"]
  /\ UNCHANGED << stop, registry, regHolder, todo, threadVars, signalVars >>

\* ~ShutdownSignalWatcher: the flag, then the wakeup, then the join.
SetTeardown ==
  /\ pc["main"] = "teardown"
  /\ teardown' = TRUE
  /\ pc' = [pc EXCEPT !["main"] = "kill"]
  /\ UNCHANGED << stop, registry, regHolder, todo, threadVars, realPending,
                  wakePending, signals, exited >>

SendWakeup ==
  /\ pc["main"] = "kill"
  /\ wakePending' = TRUE
  /\ pc' = [pc EXCEPT !["main"] = "joinWatcher"]
  /\ UNCHANGED << stop, registry, regHolder, todo, threadVars, teardown,
                  realPending, signals, exited >>

JoinWatcher ==
  /\ pc["main"] = "joinWatcher"
  /\ pc["watcher"] = "returned"
  /\ pc' = [pc EXCEPT !["main"] = "returned"]
  /\ UNCHANGED << stop, registry, regHolder, todo, threadVars, signalVars >>

-----------------------------------------------------------------------------
Init ==
  /\ stop = FALSE
  /\ strm = [s \in Stream |-> "start"]
  /\ cancelled = {}
  /\ loopDone = {}
  /\ canc = [s \in Stream |-> "none"]
  /\ registry = {}
  /\ regHolder = Nobody
  /\ todo = {}
  /\ pc = [r \in Requester |->
             IF r = "watcher" THEN "first"
             ELSE IF Timed THEN "timer" ELSE "joining"]
  /\ teardown = FALSE
  /\ realPending = FALSE
  /\ wakePending = FALSE
  /\ signals = 0
  /\ exited = FALSE

\* What a thread does whenever the scheduler lets it run.
StreamThread(s) ==
  \/ StartCanceller(s) \/ Register(s) \/ ReadCancelled(s) \/ Deregister(s)
  \/ SetLoopDone(s) \/ NotifyLoopDone(s) \/ JoinCanceller(s)

CancellerThread(s) ==
  CheckPredicate(s) \/ BlockOnCv(s) \/ Decide(s) \/ TryCancel(s)

RequestStop(r) ==
  \/ SetStop(r) \/ LockRegistry(r) \/ UnlockRegistry(r)
  \/ \E s \in Stream : NotifyStop(r, s)

WatcherThread == TakeSignal \/ TakeWakeup \/ RequestStop("watcher")

MainThread ==
  \/ TimerEnds \/ RequestStop("main") \/ JoinStreams \/ SetTeardown
  \/ SendWakeup \/ JoinWatcher

Environment ==
  \/ SendSignal \/ SendUnrelated
  \/ \E s \in Stream : StreamEnds(s) \/ SpuriousWake(s)

\* After std::_Exit, or once main() returned, there is no process.
Running == ~exited /\ pc["main"] # "returned"

Next ==
  /\ Running
  /\ \/ \E s \in Stream : StreamThread(s) \/ CancellerThread(s)
     \/ WatcherThread \/ MainThread \/ Environment

Spec == Init /\ [][Next]_vars

\* The operating system schedules every thread that can run; gRPC makes
\* Read() return once a call was cancelled.  A stream need not end by itself
\* and no signal need ever arrive.
Fairness ==
  /\ \A s \in Stream :
       /\ WF_vars(Running /\ StreamThread(s))
       /\ WF_vars(Running /\ CancellerThread(s))
  /\ WF_vars(Running /\ WatcherThread)
  /\ WF_vars(Running /\ MainThread)

FairSpec == Spec /\ Fairness
-----------------------------------------------------------------------------
(* Properties.                                                             *)

\* Types of the client's shared state and of its threads' positions.
TypeOK ==
  /\ {stop, teardown, realPending, wakePending, exited} \subseteq BOOLEAN
  /\ strm \in [Stream -> {"start", "constructed", "reading", "ended",
                          "deregistered", "flagged", "joining", "finished"}]
  /\ canc \in [Stream -> {"none", "locking", "checked", "waiting", "deciding",
                          "cancelling", "returned"}]
  /\ cancelled \subseteq Stream /\ loopDone \subseteq Stream
  /\ registry \subseteq Stream /\ todo \subseteq Stream
  /\ regHolder \in Requester \cup {Nobody}
  /\ DOMAIN pc = Requester
  /\ pc["watcher"] \in {"first", "request", "lock", "sweep", "second",
                        "returned"}
  /\ pc["main"] \in {"timer", "request", "lock", "sweep", "joining",
                     "teardown", "kill", "joinWatcher", "returned"}
  /\ signals \in 0 .. MaxSignals

\* notify_stop() is never called on a canceller whose destructor has begun
\* to tear it down (~StreamCanceller deregisters first).
NotifiedIsAlive == \A s \in todo : s \in registry /\ strm[s] \in {"reading", "ended"}

Finished(s) == strm[s] = "finished"

\* The operator's way out: two real signals.  Neither the destructor's wakeup
\* nor an unrelated SIGUSR1 counts as one (watch_for_shutdown_signal).
ForcedExit == exited /\ signals >= 2

\* A signal that is not lost on a sleeping thread: a canceller that waits is
\* still to be notified, by the destructor that has set read_loop_done_, or by
\* the sweep of a stop that has not come to it.  So a destructor never joins,
\* and a finished sweep never leaves behind, a thread that sleeps on.
Sleeping(s) == canc[s] \in {"checked", "waiting"}

NoLostWakeup ==
  \A s \in Stream : Sleeping(s) =>
    /\ s \in loopDone => strm[s] = "flagged"
    /\ regHolder # Nobody /\ s \in registry => s \in todo

\* Only the second SIGINT or SIGTERM ends the process at once.
ExitIsForced == exited => ForcedExit

\* A stream whose read loop ended, and one that is registered when the sweep
\* of a stop begins, is joined in the end, unless a second SIGINT or SIGTERM
\* forces the exit: its canceller, however far it had come, sees the flag it
\* is notified of (StreamCanceller::run).
StoppedStreamIsJoined ==
  \A s \in Stream :
    strm[s] = "ended" \/ (regHolder # Nobody /\ s \in registry)
      ~> Finished(s) \/ ForcedExit

\* When all streams are finished main() returns, or a second SIGINT or SIGTERM
\* ends it, and nothing else does.
MainReturns ==
  (\A s \in Stream : Finished(s)) ~> pc["main"] = "returned" \/ ForcedExit

\* A stop reaches every stream: "stop firing while that call itself is still
\* blocked (establishing the stream) has a canceller already running to act
\* on it" (publish_l2_bands).
StopReachesEveryStream ==
  \A s \in Stream : stop ~> Finished(s) \/ exited
=============================================================================
