------------------------ MODULE ClientShutdownProofs ------------------------
(***************************************************************************)
(* The safety half of the client's shutdown, for any number of streams and *)
(* of signals: nothing that is being destroyed is notified, no wakeup is   *)
(* lost, and only two real signals force the exit.                         *)
(***************************************************************************)
EXTENDS ClientShutdown, TLAPS

USE DEF Requester, Nobody

\* What the registry and its mutex keep true, between all threads.
SweepInv ==
  /\ \A s \in registry : strm[s] \in {"reading", "ended"}
  /\ todo \subseteq registry
  /\ regHolder = Nobody => todo = {}
  /\ regHolder # Nobody => stop

\* A stream's thread and its canceller's: the flag is set by the destructor
\* only, and never while the other thread is between its test and its sleep.
PairInv ==
  \A s \in Stream :
    /\ s \in loopDone => strm[s] \in {"flagged", "joining", "finished"}
    /\ strm[s] = "start" => canc[s] = "none"
    /\ canc[s] = "checked" => s \notin loopDone

\* The requester that is in its sweep is the one that holds the mutex, and
\* requests are made with stop set.
HolderInv ==
  \A r \in Requester :
    /\ pc[r] = "sweep" <=> regHolder = r
    /\ pc[r] \in {"lock", "sweep"} => stop

\* Signals sent and not yet taken, and those taken.
SignalInv ==
  /\ realPending => signals >= 1
  /\ pc["watcher"] \in {"request", "lock", "sweep", "second"} =>
       signals >= 1 /\ (realPending => signals >= 2)
  /\ exited => signals >= 2

IInv == TypeOK /\ SweepInv /\ PairInv /\ HolderInv /\ NoLostWakeup /\ SignalInv

LEMMA StartCancellerStep ==
  ASSUME NEW s \in Stream, IInv, StartCanceller(s)
  PROVE  IInv'
<1> USE DEF IInv, StartCanceller, threadVars, sweepVars, signalVars
<1>1. TypeOK'
  BY DEF TypeOK
<1>2. SweepInv'
  BY DEF TypeOK, SweepInv
<1>3. PairInv'
  BY DEF TypeOK, PairInv, SweepInv, Sleeping
<1>4. HolderInv'
  BY DEF TypeOK, HolderInv, SweepInv
<1>5. NoLostWakeup'
  BY DEF TypeOK, NoLostWakeup, SweepInv, PairInv, HolderInv, Sleeping
<1>6. SignalInv'
  BY DEF TypeOK, SignalInv
<1> QED BY <1>1, <1>2, <1>3, <1>4, <1>5, <1>6

LEMMA RegisterStep ==
  ASSUME NEW s \in Stream, IInv, Register(s)
  PROVE  IInv'
<1> USE DEF IInv, Register, threadVars, sweepVars, signalVars
<1>1. TypeOK'
  BY DEF TypeOK
<1>2. SweepInv'
  BY DEF TypeOK, SweepInv
<1>3. PairInv'
  BY DEF TypeOK, PairInv, SweepInv, Sleeping
<1>4. HolderInv'
  BY DEF TypeOK, HolderInv, SweepInv
<1>5. NoLostWakeup'
  BY DEF TypeOK, NoLostWakeup, SweepInv, PairInv, HolderInv, Sleeping
<1>6. SignalInv'
  BY DEF TypeOK, SignalInv
<1> QED BY <1>1, <1>2, <1>3, <1>4, <1>5, <1>6

LEMMA ReadCancelledStep ==
  ASSUME NEW s \in Stream, IInv, ReadCancelled(s)
  PROVE  IInv'
<1> USE DEF IInv, ReadCancelled, threadVars, sweepVars, signalVars
<1>1. TypeOK'
  BY DEF TypeOK
<1>2. SweepInv'
  BY DEF TypeOK, SweepInv
<1>3. PairInv'
  BY DEF TypeOK, PairInv, SweepInv, Sleeping
<1>4. HolderInv'
  BY DEF TypeOK, HolderInv, SweepInv
<1>5. NoLostWakeup'
  BY DEF TypeOK, NoLostWakeup, SweepInv, PairInv, HolderInv, Sleeping
<1>6. SignalInv'
  BY DEF TypeOK, SignalInv
<1> QED BY <1>1, <1>2, <1>3, <1>4, <1>5, <1>6

LEMMA StreamEndsStep ==
  ASSUME NEW s \in Stream, IInv, StreamEnds(s)
  PROVE  IInv'
<1> USE DEF IInv, StreamEnds, threadVars, sweepVars, signalVars
<1>1. TypeOK'
  BY DEF TypeOK
<1>2. SweepInv'
  BY DEF TypeOK, SweepInv
<1>3. PairInv'
  BY DEF TypeOK, PairInv, SweepInv, Sleeping
<1>4. HolderInv'
  BY DEF TypeOK, HolderInv, SweepInv
<1>5. NoLostWakeup'
  BY DEF TypeOK, NoLostWakeup, SweepInv, PairInv, HolderInv, Sleeping
<1>6. SignalInv'
  BY DEF TypeOK, SignalInv
<1> QED BY <1>1, <1>2, <1>3, <1>4, <1>5, <1>6

LEMMA DeregisterStep ==
  ASSUME NEW s \in Stream, IInv, Deregister(s)
  PROVE  IInv'
<1> USE DEF IInv, Deregister, threadVars, sweepVars, signalVars
<1>1. TypeOK'
  BY DEF TypeOK
<1>2. SweepInv'
  BY DEF TypeOK, SweepInv
<1>3. PairInv'
  BY DEF TypeOK, PairInv, SweepInv, Sleeping
<1>4. HolderInv'
  BY DEF TypeOK, HolderInv, SweepInv
<1>5. NoLostWakeup'
  BY DEF TypeOK, NoLostWakeup, SweepInv, PairInv, HolderInv, Sleeping
<1>6. SignalInv'
  BY DEF TypeOK, SignalInv
<1> QED BY <1>1, <1>2, <1>3, <1>4, <1>5, <1>6

LEMMA SetLoopDoneStep ==
  ASSUME NEW s \in Stream, IInv, SetLoopDone(s)
  PROVE  IInv'
<1> USE DEF IInv, SetLoopDone, threadVars, sweepVars, signalVars
<1>1. TypeOK'
  BY DEF TypeOK, HoldsMutex
<1>2. SweepInv'
  BY DEF TypeOK, SweepInv, HoldsMutex
<1>3. PairInv'
  BY DEF TypeOK, PairInv, SweepInv, Sleeping, HoldsMutex
<1>4. HolderInv'
  BY DEF TypeOK, HolderInv, SweepInv, HoldsMutex
<1>5. NoLostWakeup'
  BY DEF TypeOK, NoLostWakeup, SweepInv, PairInv, HolderInv, Sleeping, HoldsMutex
<1>6. SignalInv'
  BY DEF TypeOK, SignalInv, HoldsMutex
<1> QED BY <1>1, <1>2, <1>3, <1>4, <1>5, <1>6

LEMMA NotifyLoopDoneStep ==
  ASSUME NEW s \in Stream, IInv, NotifyLoopDone(s)
  PROVE  IInv'
<1> USE DEF IInv, NotifyLoopDone, threadVars, sweepVars, signalVars
<1>1. TypeOK'
  BY DEF TypeOK, Woken, HoldsMutex
<1>2. SweepInv'
  BY DEF TypeOK, SweepInv, Woken, HoldsMutex
<1>3. PairInv'
  BY DEF TypeOK, PairInv, SweepInv, Sleeping, Woken, HoldsMutex
<1>4. HolderInv'
  BY DEF TypeOK, HolderInv, SweepInv, Woken, HoldsMutex
<1>5. NoLostWakeup'
  BY DEF TypeOK, NoLostWakeup, SweepInv, PairInv, HolderInv, Sleeping, Woken,
         HoldsMutex
<1>6. SignalInv'
  BY DEF TypeOK, SignalInv, Woken, HoldsMutex
<1> QED BY <1>1, <1>2, <1>3, <1>4, <1>5, <1>6

LEMMA JoinCancellerStep ==
  ASSUME NEW s \in Stream, IInv, JoinCanceller(s)
  PROVE  IInv'
<1> USE DEF IInv, JoinCanceller, threadVars, sweepVars, signalVars
<1>1. TypeOK'
  BY DEF TypeOK
<1>2. SweepInv'
  BY DEF TypeOK, SweepInv
<1>3. PairInv'
  BY DEF TypeOK, PairInv, SweepInv, Sleeping
<1>4. HolderInv'
  BY DEF TypeOK, HolderInv, SweepInv
<1>5. NoLostWakeup'
  BY DEF TypeOK, NoLostWakeup, SweepInv, PairInv, HolderInv, Sleeping
<1>6. SignalInv'
  BY DEF TypeOK, SignalInv
<1> QED BY <1>1, <1>2, <1>3, <1>4, <1>5, <1>6

LEMMA CheckPredicateStep ==
  ASSUME NEW s \in Stream, IInv, CheckPredicate(s)
  PROVE  IInv'
<1> USE DEF IInv, CheckPredicate, threadVars, sweepVars, signalVars
<1>1. TypeOK'
  BY DEF TypeOK
<1>2. SweepInv'
  BY DEF TypeOK, SweepInv
<1>3. PairInv'
  BY DEF TypeOK, PairInv, SweepInv, Sleeping
<1>4. HolderInv'
  BY DEF TypeOK, HolderInv, SweepInv
<1>5. NoLostWakeup'
  BY DEF TypeOK, NoLostWakeup, SweepInv, PairInv, HolderInv, Sleeping
<1>6. SignalInv'
  BY DEF TypeOK, SignalInv
<1> QED BY <1>1, <1>2, <1>3, <1>4, <1>5, <1>6

LEMMA BlockOnCvStep ==
  ASSUME NEW s \in Stream, IInv, BlockOnCv(s)
  PROVE  IInv'
<1> USE DEF IInv, BlockOnCv, threadVars, sweepVars, signalVars
<1>1. TypeOK'
  BY DEF TypeOK
<1>2. SweepInv'
  BY DEF TypeOK, SweepInv
<1>3. PairInv'
  BY DEF TypeOK, PairInv, SweepInv, Sleeping
<1>4. HolderInv'
  BY DEF TypeOK, HolderInv, SweepInv
<1>5. NoLostWakeup'
  BY DEF TypeOK, NoLostWakeup, SweepInv, PairInv, HolderInv, Sleeping
<1>6. SignalInv'
  BY DEF TypeOK, SignalInv
<1> QED BY <1>1, <1>2, <1>3, <1>4, <1>5, <1>6

LEMMA SpuriousWakeStep ==
  ASSUME NEW s \in Stream, IInv, SpuriousWake(s)
  PROVE  IInv'
<1> USE DEF IInv, SpuriousWake, threadVars, sweepVars, signalVars
<1>1. TypeOK'
  BY DEF TypeOK
<1>2. SweepInv'
  BY DEF TypeOK, SweepInv
<1>3. PairInv'
  BY DEF TypeOK, PairInv, SweepInv, Sleeping
<1>4. HolderInv'
  BY DEF TypeOK, HolderInv, SweepInv
<1>5. NoLostWakeup'
  BY DEF TypeOK, NoLostWakeup, SweepInv, PairInv, HolderInv, Sleeping
<1>6. SignalInv'
  BY DEF TypeOK, SignalInv
<1> QED BY <1>1, <1>2, <1>3, <1>4, <1>5, <1>6

LEMMA DecideStep ==
  ASSUME NEW s \in Stream, IInv, Decide(s)
  PROVE  IInv'
<1> USE DEF IInv, Decide, threadVars, sweepVars, signalVars
<1>1. TypeOK'
  BY DEF TypeOK
<1>2. SweepInv'
  BY DEF TypeOK, SweepInv
<1>3. PairInv'
  BY DEF TypeOK, PairInv, SweepInv, Sleeping
<1>4. HolderInv'
  BY DEF TypeOK, HolderInv, SweepInv
<1>5. NoLostWakeup'
  BY DEF TypeOK, NoLostWakeup, SweepInv, PairInv, HolderInv, Sleeping
<1>6. SignalInv'
  BY DEF TypeOK, SignalInv
<1> QED BY <1>1, <1>2, <1>3, <1>4, <1>5, <1>6

LEMMA TryCancelStep ==
  ASSUME NEW s \in Stream, IInv, TryCancel(s)
  PROVE  IInv'
<1> USE DEF IInv, TryCancel, threadVars, sweepVars, signalVars
<1>1. TypeOK'
  BY DEF TypeOK
<1>2. SweepInv'
  BY DEF TypeOK, SweepInv
<1>3. PairInv'
  BY DEF TypeOK, PairInv, SweepInv, Sleeping
<1>4. HolderInv'
  BY DEF TypeOK, HolderInv, SweepInv
<1>5. NoLostWakeup'
  BY DEF TypeOK, NoLostWakeup, SweepInv, PairInv, HolderInv, Sleeping
<1>6. SignalInv'
  BY DEF TypeOK, SignalInv
<1> QED BY <1>1, <1>2, <1>3, <1>4, <1>5, <1>6

LEMMA SetStopStep ==
  ASSUME NEW r \in Requester, IInv, SetStop(r)
  PROVE  IInv'
<1> USE DEF IInv, SetStop, threadVars, sweepVars, signalVars
<1>1. TypeOK'
  BY DEF TypeOK
<1>2. SweepInv'
  BY DEF TypeOK, SweepInv
<1>3. PairInv'
  BY DEF TypeOK, PairInv, SweepInv, Sleeping
<1>4. HolderInv'
  BY DEF TypeOK, HolderInv, SweepInv
<1>5. NoLostWakeup'
  BY DEF TypeOK, NoLostWakeup, SweepInv, PairInv, HolderInv, Sleeping
<1>6. SignalInv'
  BY DEF TypeOK, SignalInv
<1> QED BY <1>1, <1>2, <1>3, <1>4, <1>5, <1>6

LEMMA LockRegistryStep ==
  ASSUME NEW r \in Requester, IInv, LockRegistry(r)
  PROVE  IInv'
<1> USE DEF IInv, LockRegistry, threadVars, sweepVars, signalVars
<1>1. TypeOK'
  BY DEF TypeOK
<1>2. SweepInv'
  BY DEF TypeOK, SweepInv, HolderInv
<1>3. PairInv'
  BY DEF TypeOK, PairInv, SweepInv, Sleeping
<1>4. HolderInv'
  BY DEF TypeOK, HolderInv, SweepInv
<1>5. NoLostWakeup'
  BY DEF TypeOK, NoLostWakeup, SweepInv, PairInv, HolderInv, Sleeping
<1>6. SignalInv'
  BY DEF TypeOK, SignalInv
<1> QED BY <1>1, <1>2, <1>3, <1>4, <1>5, <1>6

LEMMA NotifyStopStep ==
  ASSUME NEW r \in Requester, NEW s \in Stream, IInv, NotifyStop(r, s)
  PROVE  IInv'
<1> USE DEF IInv, NotifyStop, threadVars, sweepVars, signalVars
<1>1. TypeOK'
  BY DEF TypeOK, Woken, HoldsMutex
<1>2. SweepInv'
  BY DEF TypeOK, SweepInv, Woken, HoldsMutex
<1>3. PairInv'
  BY DEF TypeOK, PairInv, SweepInv, Sleeping, Woken, HoldsMutex
<1>4. HolderInv'
  BY DEF TypeOK, HolderInv, SweepInv, Woken, HoldsMutex
<1>5. NoLostWakeup'
  BY DEF TypeOK, NoLostWakeup, SweepInv, PairInv, HolderInv, Sleeping, Woken,
         HoldsMutex
<1>6. SignalInv'
  BY DEF TypeOK, SignalInv, Woken, HoldsMutex
<1> QED BY <1>1, <1>2, <1>3, <1>4, <1>5, <1>6

LEMMA UnlockRegistryStep ==
  ASSUME NEW r \in Requester, IInv, UnlockRegistry(r)
  PROVE  IInv'
<1> USE DEF IInv, UnlockRegistry, threadVars, sweepVars, signalVars
<1>1. TypeOK'
  BY DEF TypeOK
<1>2. SweepInv'
  BY DEF TypeOK, SweepInv
<1>3. PairInv'
  BY DEF TypeOK, PairInv, SweepInv, Sleeping
<1>4. HolderInv'
  BY DEF TypeOK, HolderInv, SweepInv
<1>5. NoLostWakeup'
  BY DEF TypeOK, NoLostWakeup, SweepInv, PairInv, HolderInv, Sleeping
<1>6. SignalInv'
  BY DEF TypeOK, SignalInv
<1> QED BY <1>1, <1>2, <1>3, <1>4, <1>5, <1>6

LEMMA SendSignalStep ==
  ASSUME IInv, SendSignal
  PROVE  IInv'
<1> USE DEF IInv, SendSignal, threadVars, sweepVars, signalVars
<1>1. TypeOK'
  BY ShutdownAssumption DEF TypeOK
<1>2. SweepInv'
  BY DEF TypeOK, SweepInv
<1>3. PairInv'
  BY DEF TypeOK, PairInv, SweepInv, Sleeping
<1>4. HolderInv'
  BY DEF TypeOK, HolderInv, SweepInv
<1>5. NoLostWakeup'
  BY DEF TypeOK, NoLostWakeup, SweepInv, PairInv, HolderInv, Sleeping
<1>6. SignalInv'
  BY DEF TypeOK, SignalInv
<1> QED BY <1>1, <1>2, <1>3, <1>4, <1>5, <1>6

LEMMA SendUnrelatedStep ==
  ASSUME IInv, SendUnrelated
  PROVE  IInv'
<1> USE DEF IInv, SendUnrelated, threadVars, sweepVars, signalVars
<1>1. TypeOK'
  BY DEF TypeOK
<1>2. SweepInv'
  BY DEF TypeOK, SweepInv
<1>3. PairInv'
  BY DEF TypeOK, PairInv, SweepInv, Sleeping
<1>4. HolderInv'
  BY DEF TypeOK, HolderInv, SweepInv
<1>5. NoLostWakeup'
  BY DEF TypeOK, NoLostWakeup, SweepInv, PairInv, HolderInv, Sleeping
<1>6. SignalInv'
  BY DEF TypeOK, SignalInv
<1> QED BY <1>1, <1>2, <1>3, <1>4, <1>5, <1>6

LEMMA TakeSignalStep ==
  ASSUME IInv, TakeSignal
  PROVE  IInv'
<1> USE DEF IInv, TakeSignal, threadVars, sweepVars, signalVars
<1>1. TypeOK'
  BY DEF TypeOK
<1>2. SweepInv'
  BY DEF TypeOK, SweepInv
<1>3. PairInv'
  BY DEF TypeOK, PairInv, SweepInv, Sleeping
<1>4. HolderInv'
  BY DEF TypeOK, HolderInv, SweepInv
<1>5. NoLostWakeup'
  BY DEF TypeOK, NoLostWakeup, SweepInv, PairInv, HolderInv, Sleeping
<1>6. SignalInv'
  BY DEF TypeOK, SignalInv
<1> QED BY <1>1, <1>2, <1>3, <1>4, <1>5, <1>6

LEMMA TakeWakeupStep ==
  ASSUME IInv, TakeWakeup
  PROVE  IInv'
<1> USE DEF IInv, TakeWakeup, threadVars, sweepVars, signalVars
<1>1. TypeOK'
  BY DEF TypeOK
<1>2. SweepInv'
  BY DEF TypeOK, SweepInv
<1>3. PairInv'
  BY DEF TypeOK, PairInv, SweepInv, Sleeping
<1>4. HolderInv'
  BY DEF TypeOK, HolderInv, SweepInv
<1>5. NoLostWakeup'
  BY DEF TypeOK, NoLostWakeup, SweepInv, PairInv, HolderInv, Sleeping
<1>6. SignalInv'
  BY DEF TypeOK, SignalInv
<1> QED BY <1>1, <1>2, <1>3, <1>4, <1>5, <1>6

LEMMA TimerEndsStep ==
  ASSUME IInv, TimerEnds
  PROVE  IInv'
<1> USE DEF IInv, TimerEnds, threadVars, sweepVars, signalVars
<1>1. TypeOK'
  BY DEF TypeOK
<1>2. SweepInv'
  BY DEF TypeOK, SweepInv
<1>3. PairInv'
  BY DEF TypeOK, PairInv, SweepInv, Sleeping
<1>4. HolderInv'
  BY DEF TypeOK, HolderInv, SweepInv
<1>5. NoLostWakeup'
  BY DEF TypeOK, NoLostWakeup, SweepInv, PairInv, HolderInv, Sleeping
<1>6. SignalInv'
  BY DEF TypeOK, SignalInv
<1> QED BY <1>1, <1>2, <1>3, <1>4, <1>5, <1>6

LEMMA JoinStreamsStep ==
  ASSUME IInv, JoinStreams
  PROVE  IInv'
<1> USE DEF IInv, JoinStreams, threadVars, sweepVars, signalVars
<1>1. TypeOK'
  BY DEF TypeOK
<1>2. SweepInv'
  BY DEF TypeOK, SweepInv
<1>3. PairInv'
  BY DEF TypeOK, PairInv, SweepInv, Sleeping
<1>4. HolderInv'
  BY DEF TypeOK, HolderInv, SweepInv
<1>5. NoLostWakeup'
  BY DEF TypeOK, NoLostWakeup, SweepInv, PairInv, HolderInv, Sleeping
<1>6. SignalInv'
  BY DEF TypeOK, SignalInv
<1> QED BY <1>1, <1>2, <1>3, <1>4, <1>5, <1>6

LEMMA SetTeardownStep ==
  ASSUME IInv, SetTeardown
  PROVE  IInv'
<1> USE DEF IInv, SetTeardown, threadVars, sweepVars, signalVars
<1>1. TypeOK'
  BY DEF TypeOK
<1>2. SweepInv'
  BY DEF TypeOK, SweepInv
<1>3. PairInv'
  BY DEF TypeOK, PairInv, SweepInv, Sleeping
<1>4. HolderInv'
  BY DEF TypeOK, HolderInv, SweepInv
<1>5. NoLostWakeup'
  BY DEF TypeOK, NoLostWakeup, SweepInv, PairInv, HolderInv, Sleeping
<1>6. SignalInv'
  BY DEF TypeOK, SignalInv
<1> QED BY <1>1, <1>2, <1>3, <1>4, <1>5, <1>6

LEMMA SendWakeupStep ==
  ASSUME IInv, SendWakeup
  PROVE  IInv'
<1> USE DEF IInv, SendWakeup, threadVars, sweepVars, signalVars
<1>1. TypeOK'
  BY DEF TypeOK
<1>2. SweepInv'
  BY DEF TypeOK, SweepInv
<1>3. PairInv'
  BY DEF TypeOK, PairInv, SweepInv, Sleeping
<1>4. HolderInv'
  BY DEF TypeOK, HolderInv, SweepInv
<1>5. NoLostWakeup'
  BY DEF TypeOK, NoLostWakeup, SweepInv, PairInv, HolderInv, Sleeping
<1>6. SignalInv'
  BY DEF TypeOK, SignalInv
<1> QED BY <1>1, <1>2, <1>3, <1>4, <1>5, <1>6

LEMMA JoinWatcherStep ==
  ASSUME IInv, JoinWatcher
  PROVE  IInv'
<1> USE DEF IInv, JoinWatcher, threadVars, sweepVars, signalVars
<1>1. TypeOK'
  BY DEF TypeOK
<1>2. SweepInv'
  BY DEF TypeOK, SweepInv
<1>3. PairInv'
  BY DEF TypeOK, PairInv, SweepInv, Sleeping
<1>4. HolderInv'
  BY DEF TypeOK, HolderInv, SweepInv
<1>5. NoLostWakeup'
  BY DEF TypeOK, NoLostWakeup, SweepInv, PairInv, HolderInv, Sleeping
<1>6. SignalInv'
  BY DEF TypeOK, SignalInv
<1> QED BY <1>1, <1>2, <1>3, <1>4, <1>5, <1>6

\* Every step keeps the invariant.
LEMMA NextStep == IInv /\ [Next]_vars => IInv'
<1> SUFFICES ASSUME IInv, [Next]_vars PROVE IInv'
  OBVIOUS
<1>1. CASE UNCHANGED vars
  BY <1>1 DEF IInv, TypeOK, SweepInv, PairInv, HolderInv, NoLostWakeup,
     SignalInv, Sleeping, vars, threadVars, sweepVars, signalVars
<1>2. ASSUME NEW s \in Stream, StreamThread(s) \/ CancellerThread(s)
      PROVE  IInv'
  BY <1>2, StartCancellerStep, RegisterStep, ReadCancelledStep,
     DeregisterStep, SetLoopDoneStep, NotifyLoopDoneStep, JoinCancellerStep,
     CheckPredicateStep, BlockOnCvStep, DecideStep, TryCancelStep
  DEF StreamThread, CancellerThread
<1>3. ASSUME NEW r \in Requester, RequestStop(r) PROVE IInv'
  BY <1>3, SetStopStep, LockRegistryStep, NotifyStopStep, UnlockRegistryStep
  DEF RequestStop
<1>4. CASE WatcherThread
  BY <1>3, <1>4, TakeSignalStep, TakeWakeupStep DEF WatcherThread
<1>5. CASE MainThread
  BY <1>3, <1>5, TimerEndsStep, JoinStreamsStep, SetTeardownStep,
     SendWakeupStep, JoinWatcherStep DEF MainThread
<1>6. CASE Environment
  BY <1>6, SendSignalStep, SendUnrelatedStep, StreamEndsStep,
     SpuriousWakeStep DEF Environment
<1> QED BY <1>1, <1>2, <1>4, <1>5, <1>6 DEF Next

LEMMA InitInv == Init => IInv
<1> SUFFICES ASSUME Init PROVE IInv
  OBVIOUS
<1> USE DEF Init
<1>1. TypeOK
  <2>1. /\ DOMAIN pc = Requester /\ pc["watcher"] = "first"
        /\ pc["main"] \in {"timer", "joining"}
    OBVIOUS
  <2>2. {stop, teardown, realPending, wakePending, exited} \subseteq BOOLEAN
    OBVIOUS
  <2>3. signals \in 0 .. MaxSignals
    BY ShutdownAssumption
  <2> QED BY <2>1, <2>2, <2>3 DEF TypeOK
<1>2. SweepInv /\ PairInv
  BY DEF SweepInv, PairInv
<1>3. HolderInv
  BY DEF HolderInv
<1>4. NoLostWakeup
  BY DEF NoLostWakeup, Sleeping
<1>5. SignalInv
  BY DEF SignalInv
<1> QED BY <1>1, <1>2, <1>3, <1>4, <1>5 DEF IInv

LEMMA Invariant == Spec => []IInv
BY InitInv, NextStep, PTL DEF Spec

\* The threads of the client keep to their positions, and the state they
\* share to its types.
THEOREM ShutdownTypeCorrect == Spec => []TypeOK
<1>1. IInv => TypeOK
  BY DEF IInv
<1> QED BY <1>1, Invariant, PTL

\* request_stop() never notifies a canceller whose destructor has deregistered
\* it: the registry's mutex, held for the whole sweep, keeps it alive.
THEOREM NotifiedAreAlive == Spec => []NotifiedIsAlive
<1>1. IInv => NotifiedIsAlive
  BY DEF IInv, SweepInv, NotifiedIsAlive
<1> QED BY <1>1, Invariant, PTL

\* Neither a destructor nor the sweep of a stop ever leaves a canceller's
\* thread asleep on its condition variable with nobody to notify it.
THEOREM NoWakeupIsLost == Spec => []NoLostWakeup
<1>1. IInv => NoLostWakeup
  BY DEF IInv
<1> QED BY <1>1, Invariant, PTL

\* The process is ended at once by nothing but two real signals, whatever
\* SIGUSR1 it is sent by others or by its own destructor.
THEOREM ExitsAreForced == Spec => []ExitIsForced
<1>1. IInv => ExitIsForced
  BY DEF IInv, SignalInv, ExitIsForced, ForcedExit
<1> QED BY <1>1, Invariant, PTL
=============================================================================
