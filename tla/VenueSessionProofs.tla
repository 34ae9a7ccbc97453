------------------------- MODULE VenueSessionProofs -------------------------
(***************************************************************************)
(* Theorems about VenueSession, for any symbols, prices, numbers of        *)
(* changes, connections and fetches, and any sequence policy.              *)
(*                                                                         *)
(* The policies and the parsers are constants of the specification.  What  *)
(* is asked of them is stated once, as PolicySound and KeepsFinalId, and a *)
(* later section proves it of each of the four venues.  The last section   *)
(* asks nothing of the policy: there the order of the wire is enough.      *)
(*                                                                         *)
(* The inductive invariant IInv comes first.  Then follow the operators:   *)
(* what a book is after one change or a message more, what ExecuteActions  *)
(* leaves behind for the actions that OnDepthUpdate and OnSnapshot return  *)
(* (the lemmas whose conclusion is Settled, AfterDepth or AfterSnapshot).  *)
(* With them each action is shown to keep IInv, and the theorems follow.   *)
(***************************************************************************)
EXTENDS VenueSession, Venues, Induction, FiniteSetTheorems

-----------------------------------------------------------------------------
(* What the exact book rests on: the identifiers and the sequence policy.  *)

\* A history of changes whose identifiers were never restarted.
Entries == [px : Price, id : Nat]

Ledger(h) ==
  /\ h \in Seq(Entries) /\ h # << >>
  /\ h[1].id = 1
  /\ \A i \in 1 .. Len(h) - 1 : \E k \in IdSteps : h[i + 1].id = h[i].id + k

\* The changes lo+1 .. hi can be one message.
IsSpan(lo, hi) ==
  lo <= hi /\ hi - lo <= MaxSpan /\ (lo = hi => AllowHeartbeat)

\* e has the identifiers of the message about the changes lo+1 .. hi of h.
Carries(e, h, lo, hi) ==
  LET ids == ParseIds(h[Min({lo + 1, hi})].id, h[hi].id, h[lo].id)
  IN  /\ e.first_id = ids.first_id
      /\ e.final_id = ids.final_id
      /\ e.prev_final_id = ids.prev_final_id

\* The policy accepts a message after change c, or as the bridge from a
\* snapshot taken there, only if it starts no later and ends no earlier.
PolicySound ==
  \A h : Ledger(h) =>
    \A lo, hi, c \in 1 .. Len(h) : IsSpan(lo, hi) =>
      \A e : Carries(e, h, lo, hi) =>
        /\ IsContiguous(e, h[c].id) => lo <= c /\ c <= hi
        /\ \A sn : sn.last_update_id = h[c].id /\ BridgesSnapshot(e, sn)
                     => lo <= c /\ c <= hi

\* The parser keeps the last identifier of a message as its final_id.
KeepsFinalId == \A U, u, pu \in Nat : ParseIds(U, u, pu).final_id = u

-----------------------------------------------------------------------------
(* The inductive invariant.                                                *)

\* The messages about s the exchange can have sent by now.
Depths(s) ==
  UNION {UNION {{DepthUpdate(s, lo, hi, v) : v \in Validity} :
                  lo \in {l \in 1 .. hi : IsSpan(l, hi)}} :
           hi \in 1 .. Len(hist[s])}

Snapshots(s) ==
  UNION {{SnapshotMessage(s, c, v) : v \in Validity} : c \in 1 .. Len(hist[s])}

Messages ==
  UNION {Depths(s) \cup (IF kSnapshotViaRest THEN {} ELSE Snapshots(s)) :
           s \in Symbols}

HistInv ==
  /\ hist \in [Symbols -> Seq(Entries)]
  /\ pub \in [Symbols -> Nat]
  /\ \A s \in Symbols :
       /\ Len(hist[s]) <= MaxChanges
       /\ pub[s] \in 1 .. Len(hist[s])
       /\ Len(hist[s]) - pub[s] <= MaxSpan
       /\ ~AllowReset => Ledger(hist[s])

Books == {NoBook} \cup [Price -> 0 .. MaxChanges]

SyncStates(s) ==
  [state : {"Buffering", "Live"}, buffer : Seq(Depths(s)),
   last_final_id : Nat, snapshot_requested : BOOLEAN]

SyncInv ==
  /\ sync = [s \in Symbols |-> sync[s]]
  /\ \A s \in Symbols : sync[s] \in SyncStates(s)
  /\ \A s \in Symbols : sync[s].state = "Live" => sync[s].buffer = << >>
  /\ book \in [Symbols -> Books]

\* A fetch is of a symbol; an answer holds a snapshot of that symbol.
Answered(s) == [st : {"answered"}, sym : {s}, msg : Snapshots(s)]

FetchStates ==
  {FreeFetch, [st |-> "finished"]}
    \cup (IF kSnapshotViaRest
            THEN [st : {"flying", "backoff"}, sym : Symbols]
                   \cup UNION {Answered(s) : s \in Symbols}
            ELSE {})

PhaseInv ==
  /\ phase \in {"idle", "connecting", "reading", "backoff", "draining", "done"}
  /\ stopping \in BOOLEAN /\ connects \in 0 .. MaxConnects
  /\ wire \in Seq(Messages) /\ pushed \in [Symbols -> Nat]
  /\ fetch \in [FetchSlots -> FetchStates]
  /\ phase \in {"idle", "done"} => Free(fetch) = FetchSlots
  /\ phase \in {"draining", "done"} => stopping

OfflineInv ==
  phase # "reading" =>
    \A s \in Symbols :
      sync[s] = InitSync /\ book[s] = NoBook /\ pushed[s] = 0

\* b is the exchange's book of s at a change with the identifier id.
At(s, id, b) ==
  \E c \in 1 .. Len(hist[s]) : hist[s][c].id = id /\ b = BookAt(s, c)

ExactHyp == PolicySound /\ KeepsFinalId /\ ~AllowReset
ExactInv ==
  ExactHyp => \A s \in Symbols :
    sync[s].state = "Live" => At(s, sync[s].last_final_id, book[s])
UnsyncedInv == ~AllowRejects => UnsyncedBookIsAbsent

CountInv == FetchesBounded /\ (phase = "reading" => connects >= 1)

\* A fetched body always parses, and no pushed message is lost.
ComingHyp == ~AllowBadBody /\ (kSnapshotViaRest \/ ~AllowLoss)
ComingInv == ComingHyp => BufferingHasSnapshotComing

IInv ==
  /\ HistInv /\ SyncInv /\ PhaseInv /\ OfflineInv
  /\ ExactInv /\ UnsyncedInv /\ CountInv /\ ComingInv

-----------------------------------------------------------------------------
(* Books and messages.                                                     *)

LEMMA MinOfNats ==
  ASSUME NEW T, T \subseteq Nat, T # {}
  PROVE  Min(T) \in T /\ \A y \in T : Min(T) <= y
<1>1. \E n \in T : \A m \in T : n <= m
  BY LeastNat
<1> QED BY <1>1 DEF Min

LEMMA MaxOfNats ==
  ASSUME NEW n \in Nat, NEW T, T \subseteq 0 .. n, T # {}
  PROVE  Max(T) \in T /\ \A y \in T : Max(T) >= y
<1> DEFINE D == {n - y : y \in T}
<1>1. D \subseteq Nat /\ D # {}
  OBVIOUS
<1>2. PICK d \in D : \A m \in D : d <= m
  <2> HIDE DEF D
  <2> QED BY <1>1, LeastNat
<1>3. PICK x \in T : d = n - x
  BY <1>2
<1>4. ASSUME NEW y \in T PROVE x >= y
  <2>1. n - y \in D
    OBVIOUS
  <2>2. n - x <= n - y
    BY <1>2, <1>3, <2>1
  <2>3. x \in 0 .. n /\ y \in 0 .. n
    OBVIOUS
  <2> QED BY <2>2, <2>3
<1>5. \E m \in T : \A y \in T : m >= y
  BY <1>4
<1> QED BY <1>5 DEF Max

LEMMA BookAtTyped ==
  ASSUME HistInv, NEW s \in Symbols, NEW c \in 0 .. Len(hist[s])
  PROVE  /\ BookAt(s, c) \in [Price -> 0 .. MaxChanges]
         /\ BookAt(s, c) \in Books
         /\ BookAt(s, c) # NoBook
<1>1. c \in Nat /\ c <= MaxChanges /\ MaxChanges \in Nat
  BY SessionAssumption DEF HistInv
<1>2. ASSUME NEW p \in Price PROVE BookAt(s, c)[p] \in 0 .. MaxChanges
  <2> DEFINE T == {0} \cup {i \in 1 .. c : hist[s][i].px = p}
  <2>1. T \subseteq 0 .. c /\ T # {}
    BY <1>1
  <2>2. Max(T) \in T
    <3> HIDE DEF T
    <3> QED BY <1>1, <2>1, MaxOfNats
  <2>3. BookAt(s, c)[p] = Max(T)
    BY DEF BookAt
  <2>4. Max(T) \in 0 .. c
    <3> HIDE DEF T
    <3> QED BY <2>1, <2>2
  <2> QED BY <1>1, <2>3, <2>4
<1>3. BookAt(s, c) \in [Price -> 0 .. MaxChanges]
  <2>1. BookAt(s, c) = [p \in Price |-> BookAt(s, c)[p]]
    BY DEF BookAt
  <2> QED BY <1>2, <2>1
<1>4. BookAt(s, c) # NoBook
  <2>1. BookAt(s, c) \in [Price -> Nat]
    BY <1>1, <1>3
  <2> QED BY <2>1, SessionAssumption
<1> QED BY <1>3, <1>4 DEF Books

\* A later book is nowhere older.
LEMMA BookAtGrows ==
  ASSUME HistInv, NEW s \in Symbols,
         NEW c \in 0 .. Len(hist[s]), NEW d \in c .. Len(hist[s]),
         NEW p \in Price
  PROVE  BookAt(s, d)[p] >= BookAt(s, c)[p]
<1> DEFINE T(n) == {0} \cup {i \in 1 .. n : hist[s][i].px = p}
<1>1. c \in Nat /\ d \in Nat /\ c <= d
  BY DEF HistInv
<1>2. T(c) \subseteq 0 .. c /\ T(c) # {} /\ T(d) \subseteq 0 .. d /\ T(d) # {}
  BY <1>1
<1>3. T(c) \subseteq T(d)
  BY <1>1
<1>4. BookAt(s, c)[p] = Max(T(c)) /\ BookAt(s, d)[p] = Max(T(d))
  BY DEF BookAt
<1> HIDE DEF T
<1>5. Max(T(c)) \in T(c) /\ \A y \in T(d) : Max(T(d)) >= y
  BY <1>1, <1>2, MaxOfNats
<1> QED BY <1>3, <1>4, <1>5

\* An update that starts no later than the book and ends no earlier brings
\* the book to where the update ends, whatever they share.
LEMMA Overlay ==
  ASSUME HistInv, NEW s \in Symbols, NEW v,
         NEW hi \in 1 .. Len(hist[s]), NEW lo \in 1 .. hi, NEW c \in lo .. hi
  PROVE  ApplyDeltaTo(BookAt(s, c), DepthUpdate(s, lo, hi, v).levels)
           = BookAt(s, hi)
<1> DEFINE touched == {hist[s][i].px : i \in lo + 1 .. hi}
           levels == [p \in touched |-> BookAt(s, hi)[p]]
<1>1. DepthUpdate(s, lo, hi, v).levels = levels
  BY DEF DepthUpdate
<1>2. hi \in Nat /\ lo \in Nat /\ c \in Nat /\ lo <= c /\ c <= hi
      /\ c \in 0 .. Len(hist[s])
  BY DEF HistInv
<1>3. BookAt(s, c) # NoBook
  BY <1>2, BookAtTyped
<1>4. ASSUME NEW p \in Price, p \notin touched
      PROVE  BookAt(s, c)[p] = BookAt(s, hi)[p]
  <2>1. {i \in 1 .. c : hist[s][i].px = p} = {i \in 1 .. hi : hist[s][i].px = p}
    <3>1. ASSUME NEW i \in 1 .. hi, hist[s][i].px = p PROVE i \in 1 .. c
      <4>1. i \notin lo + 1 .. hi
        BY <1>4, <3>1
      <4> QED BY <1>2, <4>1
    <3>2. 1 .. c \subseteq 1 .. hi
      BY <1>2
    <3> QED BY <3>1, <3>2
  <2> QED BY <2>1 DEF BookAt
<1> HIDE DEF touched
<1>5. ASSUME NEW p \in Price
      PROVE  (IF p \in DOMAIN levels THEN levels[p]
              ELSE IF BookAt(s, c) = NoBook THEN 0 ELSE BookAt(s, c)[p])
               = BookAt(s, hi)[p]
  <2>1. CASE p \in touched
    BY <2>1
  <2>2. CASE p \notin touched
    BY <1>3, <1>4, <2>2
  <2> QED BY <2>1, <2>2
<1>6. BookAt(s, hi) = [p \in Price |-> BookAt(s, hi)[p]]
  BY DEF BookAt
<1> HIDE DEF levels
<1>7. ApplyDeltaTo(BookAt(s, c), levels)
        = [p \in Price |-> IF p \in DOMAIN levels THEN levels[p]
             ELSE IF BookAt(s, c) = NoBook THEN 0 ELSE BookAt(s, c)[p]]
  BY DEF ApplyDeltaTo
<1>8. ApplyDeltaTo(BookAt(s, c), levels) = [p \in Price |-> BookAt(s, hi)[p]]
  BY <1>5, <1>7
<1> QED BY <1>1, <1>6, <1>8

\* What is known of a message.
LEMMA DepthsAre ==
  ASSUME NEW s, NEW m
  PROVE  m \in Depths(s) <=>
           \E hi \in 1 .. Len(hist[s]) : \E lo \in 1 .. hi : \E v \in Validity :
             IsSpan(lo, hi) /\ m = DepthUpdate(s, lo, hi, v)
<1>1. ASSUME m \in Depths(s)
      PROVE  \E hi \in 1 .. Len(hist[s]) : \E lo \in 1 .. hi :
               \E v \in Validity :
                 IsSpan(lo, hi) /\ m = DepthUpdate(s, lo, hi, v)
  BY <1>1 DEF Depths
<1>2. ASSUME NEW hi \in 1 .. Len(hist[s]), NEW lo \in 1 .. hi,
             NEW v \in Validity, IsSpan(lo, hi), m = DepthUpdate(s, lo, hi, v)
      PROVE  m \in Depths(s)
  BY <1>2 DEF Depths
<1> QED BY <1>1, <1>2

LEMMA SnapshotsAre ==
  ASSUME NEW s, NEW m
  PROVE  m \in Snapshots(s) <=>
           \E c \in 1 .. Len(hist[s]) : \E v \in Validity :
             m = SnapshotMessage(s, c, v)
  BY DEF Snapshots

LEMMA DepthFields ==
  ASSUME NEW s, NEW lo, NEW hi, NEW v
  PROVE  LET m == DepthUpdate(s, lo, hi, v)
         IN  /\ m.kind = "depth" /\ m.sym = s /\ m.valid = v
             /\ Carries(m, hist[s], lo, hi)
  BY DEF DepthUpdate, Carries

LEMMA SnapshotFields ==
  ASSUME NEW s, NEW c, NEW v
  PROVE  LET m == SnapshotMessage(s, c, v)
         IN  /\ m.kind = "snapshot" /\ m.sym = s /\ m.valid = v
             /\ m.last_update_id = hist[s][c].id /\ m.levels = BookAt(s, c)
  BY DEF SnapshotMessage

\* Entries of the history, with their identifiers.
LEMMA EntryTyped ==
  ASSUME HistInv, NEW s \in Symbols, NEW i \in 1 .. Len(hist[s])
  PROVE  hist[s][i] \in Entries /\ hist[s][i].id \in Nat
<1>1. hist[s] \in Seq(Entries)
  BY DEF HistInv
<1>2. hist[s][i] \in Entries
  BY <1>1
<1> QED BY <1>2 DEF Entries

\* The identifier a depth update leaves in the machine is its last change's.
LEMMA FinalId ==
  ASSUME HistInv, KeepsFinalId, NEW s \in Symbols, NEW v,
         NEW hi \in 1 .. Len(hist[s]), NEW lo \in 1 .. hi
  PROVE  /\ DepthUpdate(s, lo, hi, v).final_id = hist[s][hi].id
         /\ DepthUpdate(s, lo, hi, v).final_id \in Nat
<1>1. hi \in Nat /\ lo \in Nat /\ lo \in 1 .. Len(hist[s])
  BY DEF HistInv
<1>2. Min({lo + 1, hi}) \in {lo + 1, hi}
      /\ \A y \in {lo + 1, hi} : Min({lo + 1, hi}) <= y
  <2>1. {lo + 1, hi} \subseteq Nat
    BY <1>1
  <2> QED BY <2>1, MinOfNats
<1>3. Min({lo + 1, hi}) \in 1 .. Len(hist[s])
  BY <1>1, <1>2
<1>4. hist[s][Min({lo + 1, hi})].id \in Nat /\ hist[s][hi].id \in Nat
      /\ hist[s][lo].id \in Nat
  BY <1>1, <1>3, EntryTyped
<1>5. DepthUpdate(s, lo, hi, v).final_id
        = ParseIds(hist[s][Min({lo + 1, hi})].id, hist[s][hi].id,
                   hist[s][lo].id).final_id
  BY DEF DepthUpdate
<1> QED BY <1>4, <1>5 DEF KeepsFinalId

\* The levels of any message are the sizes of a book.
LEMMA LevelsTyped ==
  ASSUME HistInv, NEW s \in Symbols
  PROVE  /\ \A m \in Snapshots(s) : m.levels \in [Price -> 0 .. MaxChanges]
         /\ \A m \in Depths(s), b \in Books :
              ApplyDeltaTo(b, m.levels) \in [Price -> 0 .. MaxChanges]
<1>0. \A i \in Nat : i \in 1 .. Len(hist[s]) => i \in 0 .. Len(hist[s])
  BY DEF HistInv
<1>1. ASSUME NEW m \in Snapshots(s) PROVE m.levels \in [Price -> 0 .. MaxChanges]
  <2>1. PICK c \in 1 .. Len(hist[s]) :
          \E v \in Validity : m = SnapshotMessage(s, c, v)
    BY SnapshotsAre
  <2>2. m.levels = BookAt(s, c)
    BY <2>1, SnapshotFields
  <2>3. c \in 0 .. Len(hist[s])
    BY <1>0
  <2> QED BY <2>2, <2>3, BookAtTyped
<1>2. ASSUME NEW m \in Depths(s), NEW b \in Books
      PROVE  ApplyDeltaTo(b, m.levels) \in [Price -> 0 .. MaxChanges]
  <2>1. PICK hi \in 1 .. Len(hist[s]), lo \in Nat, v \in Validity :
          m = DepthUpdate(s, lo, hi, v)
    <3>1. PICK hi \in 1 .. Len(hist[s]) : \E lo \in 1 .. hi :
            \E v \in Validity : m = DepthUpdate(s, lo, hi, v)
      BY DepthsAre
    <3> QED BY <3>1
  <2> DEFINE P == {hist[s][i].px : i \in lo + 1 .. hi}
  <2>2. hi \in 0 .. Len(hist[s])
    BY <1>0
  <2>3. m.levels = [p \in P |-> BookAt(s, hi)[p]]
    BY <2>1 DEF DepthUpdate
  <2> HIDE DEF P
  <2>4. BookAt(s, hi) \in [Price -> 0 .. MaxChanges] /\ MaxChanges \in Nat
    BY <2>2, BookAtTyped, SessionAssumption
  <2>5. b = NoBook \/ b \in [Price -> 0 .. MaxChanges]
    BY DEF Books
  <2>6. ASSUME NEW p \in Price
        PROVE  (IF p \in DOMAIN m.levels THEN m.levels[p]
                ELSE IF b = NoBook THEN 0 ELSE b[p]) \in 0 .. MaxChanges
    <3>1. CASE p \in P
      BY <2>3, <2>4, <3>1
    <3>2. CASE p \notin P
      BY <2>3, <2>4, <2>5, <3>2
    <3> QED BY <3>1, <3>2
  <2> QED BY <2>6 DEF ApplyDeltaTo
<1> QED BY <1>1, <1>2

-----------------------------------------------------------------------------
(* Executing a batch.                                                      *)

\* run is the batch of actions, executed one after the other from x0.
IsRun(run, s, x0, actions) ==
  /\ run[0] = x0
  /\ \A k \in 1 .. Len(actions) :
       run[k] = ExecuteAction(s, run[k - 1], actions[k])

BatchStart(s, r, fs) ==
  [sync |-> r.sync, book |-> book[s], fetch |-> fs, gap |-> FALSE]

LEMMA ExecuteRuns ==
  ASSUME NEW s, NEW r, NEW fs, Len(r.actions) \in Nat
  PROVE  \E run : /\ IsRun(run, s, BatchStart(s, r, fs), r.actions)
                  /\ ExecuteActions(s, r, fs) = run[Len(r.actions)]
<1> DEFINE N == Len(r.actions)
           x0 == BatchStart(s, r, fs)
           Do(x, k) == ExecuteAction(s, x, r.actions[k])
           Body(f, n) == [k \in 0 .. n |-> IF k = 0 THEN x0 ELSE Do(f[k - 1], k)]
           S == {n \in Nat : \E f : f = Body(f, n)}
           F == CHOOSE f : f = Body(f, N)
<1>1. ExecuteActions(s, r, fs) = F[N]
  BY DEF ExecuteActions, BatchStart
<1> HIDE DEF Do, x0
<1>2. 0 \in S
  <2> DEFINE f == [k \in 0 .. 0 |-> x0]
  <2>1. f = Body(f, 0)
    OBVIOUS
  <2> HIDE DEF f
  <2> QED BY <2>1
<1>3. ASSUME NEW n \in Nat, n \in S PROVE n + 1 \in S
  <2>1. PICK f : f = Body(f, n)
    BY <1>3
  <2> DEFINE g == [k \in 0 .. n + 1 |-> IF k = n + 1 THEN Do(f[n], n + 1)
                                                     ELSE f[k]]
  <2>2. ASSUME NEW k \in 0 .. n + 1
        PROVE  g[k] = IF k = 0 THEN x0 ELSE Do(g[k - 1], k)
    <3>1. CASE k = n + 1
      <4>1. g[k] = Do(f[n], k) /\ k - 1 = n /\ n \in 0 .. n + 1 /\ n # n + 1
        BY <3>1
      <4>2. g[n] = f[n]
        BY <4>1
      <4> QED BY <3>1, <4>1, <4>2
    <3>2. CASE k # n + 1
      <4>1. k \in 0 .. n /\ g[k] = f[k]
        BY <3>2
      <4>2. f[k] = IF k = 0 THEN x0 ELSE Do(f[k - 1], k)
        BY <2>1, <4>1
      <4>3. k # 0 => k - 1 \in 0 .. n + 1 /\ k - 1 # n + 1 /\ g[k - 1] = f[k - 1]
        BY <4>1
      <4> QED BY <4>1, <4>2, <4>3
    <3> QED BY <3>1, <3>2
  <2>3. g = Body(g, n + 1)
    <3>1. g = [k \in 0 .. n + 1 |-> g[k]]
      OBVIOUS
    <3> HIDE DEF g
    <3> QED BY <2>2, <3>1
  <2> HIDE DEF g
  <2> QED BY <2>3
<1>4. Nat \subseteq S
  <2> HIDE DEF S
  <2> QED BY <1>2, <1>3, SetInduction
<1>5. F = Body(F, N)
  <2>1. \E f : f = Body(f, N)
    BY <1>4
  <2> QED BY <2>1
<1> HIDE DEF F
<1>6. F[0] = x0
  BY <1>5
<1>7. ASSUME NEW k \in 1 .. N PROVE F[k] = Do(F[k - 1], k)
  <2>1. k \in 0 .. N /\ k # 0
    OBVIOUS
  <2>2. F[k] = Body(F, N)[k]
    BY <1>5
  <2> QED BY <2>1, <2>2
<1>8. IsRun(F, s, x0, r.actions)
  BY <1>6, <1>7 DEF IsRun, Do
<1> QED BY <1>1, <1>8 DEF x0

LEMMA EmptyBatch ==
  ASSUME NEW s, NEW r, NEW fs, r.actions = << >>
  PROVE  ExecuteActions(s, r, fs) = BatchStart(s, r, fs)
<1>1. Len(r.actions) = 0
  OBVIOUS
<1>2. PICK run : /\ IsRun(run, s, BatchStart(s, r, fs), r.actions)
                 /\ ExecuteActions(s, r, fs) = run[Len(r.actions)]
  BY <1>1, ExecuteRuns
<1> QED BY <1>1, <1>2 DEF IsRun

LEMMA SingleBatch ==
  ASSUME NEW s, NEW r, NEW fs, NEW a, r.actions = << a >>
  PROVE  ExecuteActions(s, r, fs) = ExecuteAction(s, BatchStart(s, r, fs), a)
<1>1. Len(r.actions) = 1 /\ r.actions[1] = a
  OBVIOUS
<1>2. PICK run : /\ IsRun(run, s, BatchStart(s, r, fs), r.actions)
                 /\ ExecuteActions(s, r, fs) = run[Len(r.actions)]
  BY <1>1, ExecuteRuns
<1>3. run[1] = ExecuteAction(s, run[1 - 1], r.actions[1])
  BY <1>1, <1>2 DEF IsRun
<1> QED BY <1>1, <1>2, <1>3 DEF IsRun

\* What each action does to the state threaded through a batch.
BatchStates(s, fs) ==
  [sync : SyncStates(s), book : Books, fetch : {fs}, gap : BOOLEAN]

LEMMA InitSyncTyped ==
  ASSUME NEW s
  PROVE  /\ InitSync \in SyncStates(s)
         /\ \A b \in Seq(Depths(s)) :
              /\ [InitSync EXCEPT !.buffer = b] \in SyncStates(s)
              /\ [InitSync EXCEPT !.buffer = b].state = "Buffering"
              /\ ~[InitSync EXCEPT !.buffer = b].snapshot_requested
<1>1. << >> \in Seq(Depths(s))
  OBVIOUS
<1> QED BY <1>1 DEF InitSync, SyncStates

LEMMA ExecuteInvalidate ==
  ASSUME NEW s, NEW fs, NEW x \in BatchStates(s, fs)
  PROVE  LET y == ExecuteAction(s, x, InvalidateVenue)
         IN  /\ y \in BatchStates(s, fs)
             /\ y.sync = x.sync /\ y.book = NoBook /\ y.gap /\ y.fetch = fs
<1>1. ExecuteAction(s, x, InvalidateVenue) = [x EXCEPT !.book = NoBook, !.gap = TRUE]
  BY DEF ExecuteAction, InvalidateVenue, InvalidateBook
<1> QED BY <1>1 DEF BatchStates, Books

LEMMA ExecuteRejected ==
  ASSUME NEW s, NEW fs, NEW x \in BatchStates(s, fs)
  PROVE  LET y == Rejected(x)
         IN  /\ y \in BatchStates(s, fs)
             /\ y.sync = InitSync /\ y.book = NoBook /\ y.gap /\ y.fetch = fs
<1> DEFINE z == [x EXCEPT !.sync = InitSync]
<1>1. Rejected(x) = [z EXCEPT !.book = NoBook, !.gap = TRUE]
  BY DEF Rejected, InvalidateBook, OnDisconnected
<1>2. z \in BatchStates(s, fs) /\ z.sync = InitSync /\ z.fetch = fs
  BY InitSyncTyped DEF BatchStates
<1> HIDE DEF z
<1> QED BY <1>1, <1>2 DEF BatchStates, Books

LEMMA ExecuteApplySnapshot ==
  ASSUME HistInv, NEW s \in Symbols, NEW fs, NEW x \in BatchStates(s, fs),
         NEW m \in Snapshots(s), m.valid
  PROVE  LET y == ExecuteAction(s, x, ApplySnapshot(m))
         IN  /\ y \in BatchStates(s, fs)
             /\ y.sync = x.sync /\ y.book = m.levels
             /\ y.gap = x.gap /\ y.fetch = fs
<1>1. ExecuteAction(s, x, ApplySnapshot(m)) = [x EXCEPT !.book = m.levels]
  BY DEF ExecuteAction, ApplySnapshot, ApplySnapshotTo
<1>2. m.levels \in Books
  BY LevelsTyped DEF Books
<1> QED BY <1>1, <1>2 DEF BatchStates

LEMMA ExecuteApplyDelta ==
  ASSUME HistInv, NEW s \in Symbols, NEW fs, NEW x \in BatchStates(s, fs),
         NEW m \in Depths(s), m.valid
  PROVE  LET y == ExecuteAction(s, x, ApplyDelta(m))
         IN  /\ y \in BatchStates(s, fs)
             /\ y.sync = x.sync /\ y.book = ApplyDeltaTo(x.book, m.levels)
             /\ y.gap = x.gap /\ y.fetch = fs
<1>1. ExecuteAction(s, x, ApplyDelta(m))
        = [x EXCEPT !.book = ApplyDeltaTo(x.book, m.levels)]
  BY DEF ExecuteAction, ApplyDelta
<1>2. ApplyDeltaTo(x.book, m.levels) \in Books
  <2>1. x.book \in Books
    BY DEF BatchStates
  <2> QED BY <2>1, LevelsTyped DEF Books
<1> QED BY <1>1, <1>2 DEF BatchStates

LEMMA ExecuteNotValid ==
  ASSUME NEW s, NEW x, NEW m, ~m.valid
  PROVE  /\ ExecuteAction(s, x, ApplySnapshot(m)) = Rejected(x)
         /\ ExecuteAction(s, x, ApplyDelta(m)) = Rejected(x)
  BY DEF ExecuteAction, ApplySnapshot, ApplyDelta

LEMMA ExecuteRequest ==
  ASSUME NEW s, NEW fs, NEW x \in BatchStates(s, fs)
  PROVE  LET y == ExecuteAction(s, x, RequestSnapshot)
         IN  /\ y.sync = x.sync /\ y.book = x.book /\ y.gap = x.gap
             /\ y.fetch = IF stopping THEN fs ELSE SpawnFetch(fs, s)
<1>1. ExecuteAction(s, x, RequestSnapshot)
        = IF stopping THEN x ELSE [x EXCEPT !.fetch = SpawnFetch(x.fetch, s)]
  BY DEF ExecuteAction, RequestSnapshot
<1> HIDE DEF SpawnFetch
<1> QED BY <1>1 DEF BatchStates

-----------------------------------------------------------------------------
(* Exactness of what a machine applies.                                    *)

LEMMA SnapshotIsExact ==
  ASSUME NEW s, NEW m \in Snapshots(s)
  PROVE  At(s, m.last_update_id, m.levels)
<1>1. PICK c \in 1 .. Len(hist[s]), v \in Validity : m = SnapshotMessage(s, c, v)
  BY SnapshotsAre
<1>2. m.last_update_id = hist[s][c].id /\ m.levels = BookAt(s, c)
  BY <1>1, SnapshotFields
<1> QED BY <1>2 DEF At

\* An update the policy lets through after change c covers c.
LEMMA PolicyCovers ==
  ASSUME ExactHyp, HistInv, NEW s \in Symbols, NEW v,
         NEW hi \in 1 .. Len(hist[s]), NEW lo \in 1 .. hi, IsSpan(lo, hi),
         NEW c \in 1 .. Len(hist[s])
  PROVE  LET d == DepthUpdate(s, lo, hi, v)
         IN  /\ IsContiguous(d, hist[s][c].id) => c \in lo .. hi
             /\ \A sn : sn.last_update_id = hist[s][c].id
                         /\ BridgesSnapshot(d, sn) => c \in lo .. hi
<1> DEFINE d == DepthUpdate(s, lo, hi, v)
<1>1. Ledger(hist[s]) /\ lo \in 1 .. Len(hist[s])
  BY DEF HistInv, ExactHyp
<1>2. Carries(d, hist[s], lo, hi)
  BY DepthFields
<1> HIDE DEF d
<1>3. /\ IsContiguous(d, hist[s][c].id) => lo <= c /\ c <= hi
      /\ \A sn : sn.last_update_id = hist[s][c].id /\ BridgesSnapshot(d, sn)
                  => lo <= c /\ c <= hi
  BY <1>1, <1>2 DEF PolicySound, ExactHyp
<1>4. lo <= c /\ c <= hi => c \in lo .. hi
  OBVIOUS
<1> QED BY <1>3, <1>4 DEF d

LEMMA DeltaIsExact ==
  ASSUME ExactHyp, HistInv, NEW s \in Symbols, NEW d \in Depths(s),
         NEW id, NEW b, At(s, id, b),
         \/ IsContiguous(d, id)
         \/ \E sn : sn.last_update_id = id /\ BridgesSnapshot(d, sn)
  PROVE  /\ At(s, d.final_id, ApplyDeltaTo(b, d.levels))
         /\ \A p \in Price : ApplyDeltaTo(b, d.levels)[p] >= b[p]
<1>1. PICK hi \in 1 .. Len(hist[s]) : \E lo \in 1 .. hi : \E v \in Validity :
             IsSpan(lo, hi) /\ d = DepthUpdate(s, lo, hi, v)
  BY DepthsAre
<1>2. PICK lo \in 1 .. hi, v \in Validity :
             IsSpan(lo, hi) /\ d = DepthUpdate(s, lo, hi, v)
  BY <1>1
<1>3. PICK c \in 1 .. Len(hist[s]) : hist[s][c].id = id /\ b = BookAt(s, c)
  BY DEF At
<1>4. c \in lo .. hi
  BY <1>2, <1>3, PolicyCovers
<1>5. ApplyDeltaTo(b, d.levels) = BookAt(s, hi)
  BY <1>2, <1>3, <1>4, Overlay
<1>6. d.final_id = hist[s][hi].id
  BY <1>2, FinalId DEF ExactHyp
<1>7. c \in 0 .. Len(hist[s]) /\ hi \in c .. Len(hist[s])
  BY <1>4
<1>8. \A p \in Price : BookAt(s, hi)[p] >= BookAt(s, c)[p]
  BY <1>7, BookAtGrows
<1> QED BY <1>3, <1>5, <1>6, <1>8 DEF At

-----------------------------------------------------------------------------
(* What a batch leaves behind.                                             *)

\* The premises on the symbol's state before the batch.
Ready(s) ==
  /\ HistInv /\ KeepsFinalId
  /\ sync[s] \in SyncStates(s) /\ book[s] \in Books
  /\ sync[s].state = "Live" => sync[s].buffer = << >>

ExactAt(s) == sync[s].state = "Live" => At(s, sync[s].last_final_id, book[s])
AbsentAt(s) == sync[s].state = "Buffering" => book[s] = NoBook

\* x is a state of s: well typed; after a gap ready to ask again.
Settled(s, x, fs) ==
  /\ x.sync \in SyncStates(s) /\ x.book \in Books /\ x.gap \in BOOLEAN
  /\ x.gap => /\ x \in BatchStates(s, fs) /\ x.fetch = fs
              /\ x.sync.state = "Buffering" /\ ~x.sync.snapshot_requested
  /\ x.sync.state = "Live" => x.sync.buffer = << >>
  /\ ExactHyp /\ ExactAt(s) =>
       (x.sync.state = "Live" => At(s, x.sync.last_final_id, x.book))
  /\ ~AllowRejects /\ AbsentAt(s) =>
       (x.sync.state = "Buffering" => x.book = NoBook)

NeverOlder(s, x) ==
  sync[s].state = "Live" /\ x.sync.state = "Live" =>
    \A p \in Price : x.book[p] >= book[s][p]

\* A depth update starts no fetch, and only a Live machine sees a gap.
AfterDepth(s, x, fs) ==
  /\ Settled(s, x, fs)
  /\ x.fetch = fs
  /\ IF x.gap THEN sync[s].state = "Live" ELSE x.sync.state = sync[s].state
  /\ ExactHyp /\ ExactAt(s) => NeverOlder(s, x)

\* A snapshot makes the machine Live, meets a gap, or is asked for again.
AfterSnapshot(s, x, fs) ==
  /\ Settled(s, x, fs)
  /\ \/ x.fetch = fs
     \/ /\ kSnapshotViaRest /\ ~stopping /\ ~x.gap
        /\ x.sync.state = sync[s].state
        /\ x.fetch = SpawnFetch(fs, s)
  /\ x.sync.state = "Live" \/ x.gap \/ (kSnapshotViaRest /\
       (stopping \/ x.fetch = SpawnFetch(fs, s)))
  /\ kSnapshotViaRest /\ sync[s].buffer = << >> =>
       x.sync = sync[s] /\ x.book = book[s] /\ ~x.gap

\* A rejected message is a gap.
LEMMA RejectedSettles ==
  ASSUME NEW s, Ready(s), NEW fs, NEW x \in BatchStates(s, fs)
  PROVE  /\ Settled(s, Rejected(x), fs)
         /\ Rejected(x).gap /\ Rejected(x).fetch = fs
         /\ Rejected(x).sync.state = "Buffering"
<1> DEFINE y == Rejected(x)
<1>1. /\ y \in BatchStates(s, fs)
      /\ y.sync = InitSync /\ y.book = NoBook /\ y.gap /\ y.fetch = fs
  BY ExecuteRejected
<1> HIDE DEF y
<1>2. y.sync \in SyncStates(s) /\ y.book \in Books /\ y.gap \in BOOLEAN
  BY <1>1 DEF BatchStates
<1>3. y.sync.state = "Buffering" /\ ~y.sync.snapshot_requested
  BY <1>1 DEF InitSync
<1> QED BY <1>1, <1>2, <1>3 DEF Settled, y

LEMMA BatchStartTyped ==
  ASSUME NEW s, Ready(s), NEW fs, NEW r, r.sync \in SyncStates(s)
  PROVE  LET x == BatchStart(s, r, fs)
         IN  /\ x \in BatchStates(s, fs)
             /\ x.sync = r.sync /\ x.book = book[s] /\ x.fetch = fs /\ ~x.gap
  BY DEF BatchStart, BatchStates, Ready

\* handle_gap
LEMMA GapSettles ==
  ASSUME NEW s, Ready(s), NEW fs, NEW rest \in Seq(Depths(s))
  PROVE  LET y == ExecuteActions(s, HandleGap(sync[s], rest), fs)
         IN  /\ Settled(s, y, fs)
             /\ y.gap /\ y.fetch = fs /\ y.sync.state = "Buffering"
<1> DEFINE r == HandleGap(sync[s], rest)
           x0 == BatchStart(s, r, fs)
           x == ExecuteActions(s, r, fs)
<1>1. /\ r.sync = [InitSync EXCEPT !.buffer = rest]
      /\ r.actions = << InvalidateVenue >>
  BY DEF HandleGap
<1>2. r.sync \in SyncStates(s) /\ r.sync.state = "Buffering"
      /\ ~r.sync.snapshot_requested
  BY <1>1, InitSyncTyped
<1>3. x0 \in BatchStates(s, fs) /\ x0.sync = r.sync
  BY <1>2, BatchStartTyped
<1>4. x = ExecuteAction(s, x0, InvalidateVenue)
  BY <1>1, SingleBatch
<1> HIDE DEF x0, x
<1>5. /\ x \in BatchStates(s, fs)
      /\ x.sync = r.sync /\ x.book = NoBook /\ x.gap /\ x.fetch = fs
  BY <1>3, <1>4, ExecuteInvalidate
<1>6. x.sync \in SyncStates(s) /\ x.book \in Books /\ x.gap \in BOOLEAN
  BY <1>5 DEF BatchStates
<1> QED BY <1>2, <1>5, <1>6 DEF Settled, x

LEMMA DepthOutcome ==
  ASSUME NEW s \in Symbols, Ready(s), NEW fs, NEW d \in Depths(s)
  PROVE  AfterDepth(s, ExecuteActions(s, OnDepthUpdate(sync[s], d), fs), fs)
<1> DEFINE r == OnDepthUpdate(sync[s], d)
           x0 == BatchStart(s, r, fs)
           x == ExecuteActions(s, r, fs)
<1>0. /\ sync[s].state \in {"Buffering", "Live"} /\ sync[s].buffer \in Seq(Depths(s))
      /\ sync[s].last_final_id \in Nat /\ sync[s].snapshot_requested \in BOOLEAN
  <2> DEFINE D == Seq(Depths(s))
  <2> HIDE DEF D
  <2> QED BY DEF Ready, SyncStates, D
<1>1. CASE sync[s].state = "Buffering"
  <2>1. r = [sync |-> [sync[s] EXCEPT !.buffer = Append(@, d)], actions |-> << >>]
    BY <1>1 DEF OnDepthUpdate
  <2>2. Append(sync[s].buffer, d) \in Seq(Depths(s))
    BY <1>0
  <2>3. r.sync \in SyncStates(s) /\ r.sync.state = "Buffering"
    <3> DEFINE b == Append(sync[s].buffer, d)
               D == Seq(Depths(s))
    <3>1. b \in D /\ r.sync = [sync[s] EXCEPT !.buffer = b]
      BY <2>1, <2>2
    <3> HIDE DEF b, D, r
    <3> QED BY <1>1, <3>1 DEF Ready, SyncStates, D
  <2>4. x = x0
    <3>1. r.actions = << >>
      BY <2>1
    <3> QED BY <3>1, EmptyBatch
  <2>5. /\ x0 \in BatchStates(s, fs) /\ x0.sync = r.sync /\ x0.book = book[s]
        /\ x0.fetch = fs /\ ~x0.gap
    BY <2>3, BatchStartTyped
  <2> HIDE DEF x0, x, r
  <2>6. x.sync \in SyncStates(s) /\ x.book \in Books /\ x.gap \in BOOLEAN
    BY <2>4, <2>5 DEF BatchStates
  <2> QED
    BY <1>1, <2>3, <2>4, <2>5, <2>6
       DEF AfterDepth, Settled, NeverOlder, AbsentAt, x, r
<1>2. CASE sync[s].state = "Live" /\ ~IsContiguous(d, sync[s].last_final_id)
  <2>1. r = HandleGap(sync[s], Append(sync[s].buffer, d))
    BY <1>2 DEF OnDepthUpdate
  <2>2. Append(sync[s].buffer, d) \in Seq(Depths(s))
    BY <1>0
  <2>3. Settled(s, x, fs) /\ x.gap /\ x.fetch = fs /\ x.sync.state = "Buffering"
    <3> DEFINE rest == Append(sync[s].buffer, d)
    <3>1. x = ExecuteActions(s, r, fs) /\ r = HandleGap(sync[s], rest)
          /\ rest \in Seq(Depths(s))
      BY <2>1, <2>2
    <3> HIDE DEF x, r, rest
    <3> QED BY <3>1, GapSettles
  <2> HIDE DEF x
  <2> QED BY <1>2, <2>3 DEF AfterDepth, NeverOlder, x
<1>3. CASE sync[s].state = "Live" /\ IsContiguous(d, sync[s].last_final_id)
  <2>1. r = [sync    |-> [sync[s] EXCEPT !.last_final_id = d.final_id],
             actions |-> << ApplyDelta(d) >>]
    BY <1>3 DEF OnDepthUpdate
  <2>2. d.final_id \in Nat
    <3>1. PICK hi \in 1 .. Len(hist[s]), lo \in Nat, v \in Validity :
            lo \in 1 .. hi /\ d = DepthUpdate(s, lo, hi, v)
      <4>1. PICK hi \in 1 .. Len(hist[s]) : \E lo \in 1 .. hi :
              \E v \in Validity : d = DepthUpdate(s, lo, hi, v)
        BY DepthsAre
      <4> QED BY <4>1
    <3> QED BY <3>1, FinalId DEF Ready
  <2>3. /\ r.sync \in SyncStates(s) /\ r.sync.state = "Live"
        /\ r.sync.last_final_id = d.final_id /\ r.sync.buffer = << >>
    <3>1. r.sync = [sync[s] EXCEPT !.last_final_id = d.final_id]
      BY <2>1
    <3> DEFINE D == Seq(Depths(s))
    <3> HIDE DEF D, r
    <3> QED BY <1>3, <2>2, <3>1 DEF Ready, SyncStates, D
  <2>4. x = ExecuteAction(s, x0, ApplyDelta(d))
    <3>1. r.actions = << ApplyDelta(d) >>
      BY <2>1
    <3> QED BY <3>1, SingleBatch
  <2>5. /\ x0 \in BatchStates(s, fs) /\ x0.sync = r.sync /\ x0.book = book[s]
        /\ x0.fetch = fs /\ ~x0.gap
    BY <2>3, BatchStartTyped
  <2> HIDE DEF x0, x, r
  <2>6. CASE d.valid
    <3>1. /\ x \in BatchStates(s, fs)
          /\ x.sync = r.sync /\ x.book = ApplyDeltaTo(book[s], d.levels)
          /\ x.gap = x0.gap /\ x.fetch = fs
      BY <2>4, <2>5, <2>6, ExecuteApplyDelta DEF Ready
    <3>2. x.sync \in SyncStates(s) /\ x.book \in Books /\ x.gap \in BOOLEAN
      BY <3>1 DEF BatchStates
    <3>3. ASSUME ExactHyp, ExactAt(s)
          PROVE  /\ At(s, x.sync.last_final_id, x.book)
                 /\ \A p \in Price : x.book[p] >= book[s][p]
      <4>1. At(s, sync[s].last_final_id, book[s])
        BY <1>3, <3>3 DEF ExactAt
      <4>2. /\ At(s, d.final_id, ApplyDeltaTo(book[s], d.levels))
            /\ \A p \in Price : ApplyDeltaTo(book[s], d.levels)[p] >= book[s][p]
        BY <1>3, <3>3, <4>1, DeltaIsExact DEF Ready
      <4> QED BY <2>3, <3>1, <4>2
    <3> QED BY <1>3, <2>3, <2>5, <3>1, <3>2, <3>3
            DEF AfterDepth, Settled, NeverOlder, x, r
  <2>7. CASE ~d.valid
    <3>1. x = Rejected(x0)
      BY <2>4, <2>7, ExecuteNotValid
    <3>2. Settled(s, x, fs) /\ x.gap /\ x.fetch = fs
          /\ x.sync.state = "Buffering"
      BY <2>5, <3>1, RejectedSettles
    <3> QED BY <1>3, <3>2 DEF AfterDepth, NeverOlder, x, r
  <2> QED BY <2>6, <2>7
<1> QED BY <1>0, <1>1, <1>2, <1>3

\* Only a venue whose books may reject a level sends an invalid message.
LEMMA MessagesValid ==
  ASSUME NEW s, NEW m, m \in Depths(s) \/ m \in Snapshots(s)
  PROVE  m.valid \in BOOLEAN /\ (~AllowRejects => m.valid)
<1>1. PICK v \in Validity : m.valid = v
  <2>1. CASE m \in Depths(s)
    <3>1. \E hi, lo : \E v \in Validity : m = DepthUpdate(s, lo, hi, v)
      BY <2>1, DepthsAre
    <3> QED BY <3>1, DepthFields
  <2>2. CASE m \in Snapshots(s)
    <3>1. \E c : \E v \in Validity : m = SnapshotMessage(s, c, v)
      BY <2>2, SnapshotsAre
    <3> QED BY <3>1, SnapshotFields
  <2> QED BY <2>1, <2>2
<1> QED BY <1>1 DEF Validity

LEMMA FinalIdTyped ==
  ASSUME HistInv, KeepsFinalId, NEW s \in Symbols, NEW d \in Depths(s)
  PROVE  d.final_id \in Nat
<1>1. PICK hi \in 1 .. Len(hist[s]) : \E lo \in 1 .. hi :
        \E v \in Validity : d = DepthUpdate(s, lo, hi, v)
  BY DepthsAre
<1>2. PICK lo \in 1 .. hi, v \in Validity : d = DepthUpdate(s, lo, hi, v)
  BY <1>1
<1> QED BY <1>2, FinalId

\* The state y of a batch after the snapshot and the updates up to the one
\* with the identifier id: all applied, or one of them rejected.
Reached(s, y, start, id, fs) ==
  /\ y \in BatchStates(s, fs)
  /\ \/ ~y.gap /\ y.sync = start /\ (ExactHyp => At(s, id, y.book))
     \/ y.gap /\ y.sync = InitSync /\ AllowRejects

LEMMA RejectedReached ==
  ASSUME NEW s, NEW fs, NEW x \in BatchStates(s, fs), AllowRejects,
         NEW start, NEW id
  PROVE  Reached(s, Rejected(x), start, id, fs)
  BY ExecuteRejected DEF Reached

LEMMA SnapshotReached ==
  ASSUME NEW s \in Symbols, Ready(s), NEW fs, NEW x \in BatchStates(s, fs),
         ~x.gap, NEW m \in Snapshots(s)
  PROVE  Reached(s, ExecuteAction(s, x, ApplySnapshot(m)), x.sync,
                 m.last_update_id, fs)
<1> DEFINE y == ExecuteAction(s, x, ApplySnapshot(m))
<1>0. m.valid \in BOOLEAN /\ (~AllowRejects => m.valid) /\ AllowRejects \in BOOLEAN
  BY MessagesValid, SessionAssumption
<1>1. CASE m.valid
  <2>1. /\ y \in BatchStates(s, fs)
        /\ y.sync = x.sync /\ y.book = m.levels /\ y.gap = x.gap
    BY <1>1, ExecuteApplySnapshot DEF Ready
  <2> HIDE DEF y
  <2> QED BY <2>1, SnapshotIsExact DEF Reached, y
<1>2. CASE ~m.valid
  <2>1. y = Rejected(x)
    BY <1>2, ExecuteNotValid
  <2> HIDE DEF y
  <2> QED BY <1>0, <1>2, <2>1, RejectedReached DEF y
<1> QED BY <1>0, <1>1, <1>2

LEMMA DeltaReached ==
  ASSUME NEW s \in Symbols, Ready(s), NEW fs, NEW x, NEW start, NEW id,
         Reached(s, x, start, id, fs), NEW d \in Depths(s),
         \/ IsContiguous(d, id)
         \/ \E sn : sn.last_update_id = id /\ BridgesSnapshot(d, sn)
  PROVE  Reached(s, ExecuteAction(s, x, ApplyDelta(d)), start, d.final_id, fs)
<1> DEFINE y == ExecuteAction(s, x, ApplyDelta(d))
<1>0. d.valid \in BOOLEAN /\ (~AllowRejects => d.valid) /\ AllowRejects \in BOOLEAN
  BY MessagesValid, SessionAssumption
<1>1. x \in BatchStates(s, fs)
  BY DEF Reached
<1>2. CASE d.valid
  <2>1. /\ y \in BatchStates(s, fs)
        /\ y.sync = x.sync /\ y.book = ApplyDeltaTo(x.book, d.levels)
        /\ y.gap = x.gap
    BY <1>1, <1>2, ExecuteApplyDelta DEF Ready
  <2> HIDE DEF y
  <2>2. ASSUME ExactHyp, At(s, id, x.book)
        PROVE  At(s, d.final_id, ApplyDeltaTo(x.book, d.levels))
    BY <2>2, DeltaIsExact DEF Ready
  <2> QED BY <2>1, <2>2 DEF Reached, y
<1>3. CASE ~d.valid
  <2>1. y = Rejected(x)
    BY <1>3, ExecuteNotValid
  <2> HIDE DEF y
  <2> QED BY <1>0, <1>1, <1>3, <2>1, RejectedReached DEF y
<1> QED BY <1>0, <1>2, <1>3

\* A snapshot and the n updates after it.
LEMMA BridgeRun ==
  ASSUME NEW s \in Symbols, Ready(s), NEW fs, NEW m \in Snapshots(s),
         NEW tail \in Seq(Depths(s)), NEW n \in 1 .. Len(tail),
         BridgesSnapshot(tail[1], m),
         \A i \in 2 .. n : IsContiguous(tail[i], tail[i - 1].final_id),
         NEW x \in BatchStates(s, fs), ~x.gap,
         NEW run, run[1] = ExecuteAction(s, x, ApplySnapshot(m)),
         \A k \in 1 .. n :
           run[k + 1] = ExecuteAction(s, run[k], ApplyDelta(tail[k]))
  PROVE  Reached(s, run[n + 1], x.sync, tail[n].final_id, fs)
<1> DEFINE Good(k) == Reached(s, run[k + 1], x.sync, tail[k].final_id, fs)
           S == {k \in Nat : k + 1 <= n => Good(k + 1)}
<1>1. \A k \in 1 .. n : tail[k] \in Depths(s)
  <2> DEFINE D == Depths(s)
  <2> HIDE DEF D
  <2>1. tail \in Seq(D)
    BY DEF D
  <2>2. \A k \in 1 .. n : tail[k] \in D
    BY <2>1
  <2> QED BY <2>2 DEF D
<1>2. Reached(s, run[1], x.sync, m.last_update_id, fs)
  BY SnapshotReached
<1>3. Good(1)
  <2>1. 1 \in 1 .. n
    OBVIOUS
  <2>2. tail[1] \in Depths(s)
        /\ run[1 + 1] = ExecuteAction(s, run[1], ApplyDelta(tail[1]))
    BY <1>1, <2>1
  <2> QED BY <1>2, <2>2, DeltaReached
<1>4. ASSUME NEW k \in Nat, k + 1 <= n, k # 0, Good(k) PROVE Good(k + 1)
  <2>1. k + 1 \in 1 .. n /\ k + 1 \in 2 .. n /\ (k + 1) - 1 = k
    BY <1>4
  <2>2. /\ tail[k + 1] \in Depths(s)
        /\ run[(k + 1) + 1] = ExecuteAction(s, run[k + 1], ApplyDelta(tail[k + 1]))
        /\ IsContiguous(tail[k + 1], tail[k].final_id)
    BY <1>1, <2>1
  <2> QED BY <1>4, <2>2, DeltaReached
<1> HIDE DEF Good
<1>5. 0 \in S
  <2>1. 0 + 1 = 1
    OBVIOUS
  <2> QED BY <1>3, <2>1
<1>6. ASSUME NEW k \in Nat, k \in S PROVE k + 1 \in S
  <2>1. (k + 1) + 1 <= n => k + 1 <= n /\ k + 1 # 0 /\ k + 1 \in Nat
    OBVIOUS
  <2> QED BY <1>4, <1>6, <2>1
<1>7. Nat \subseteq S
  <2> HIDE DEF S
  <2> QED BY <1>5, <1>6, SetInduction
<1>8. n - 1 \in S /\ (n - 1) + 1 = n
  <2> HIDE DEF S
  <2>1. n \in Nat /\ n >= 1
    OBVIOUS
  <2> QED BY <1>7, <2>1
<1>9. Good(n)
  <2>1. n <= n
    OBVIOUS
  <2> QED BY <1>8, <2>1
<1> QED BY <1>9 DEF Good

\* The batch on_snapshot returns when tail[1] bridges the snapshot: the
\* snapshot, the n updates that follow each other, and after a break a gap.
BridgeBatch(s, sy, m, tail, n, r) ==
  /\ \A i \in 2 .. n : IsContiguous(tail[i], tail[i - 1].final_id)
  /\ r.actions[1] = ApplySnapshot(m)
  /\ \A k \in 1 .. n : r.actions[k + 1] = ApplyDelta(tail[k])
  /\ \/ /\ n = Len(tail) /\ Len(r.actions) = n + 1
        /\ r.sync = [sy EXCEPT !.state = "Live", !.buffer = << >>,
                               !.last_final_id = tail[n].final_id]
     \/ /\ Len(r.actions) = n + 2 /\ r.actions[n + 2] = InvalidateVenue
        /\ \E rest \in Seq(Depths(s)) : r.sync = [InitSync EXCEPT !.buffer = rest]

LEMMA BridgeBatchIs ==
  ASSUME NEW s, NEW sy, NEW m, NEW tail \in Seq(Depths(s)), tail # << >>
  PROVE  \E n \in 1 .. Len(tail) :
           BridgeBatch(s, sy, m, tail, n, OnSnapshotWithBridge(sy, m, tail))
<1> DEFINE L == Len(tail)
           breaks == {i \in 2 .. L : ~IsContiguous(tail[i], tail[i - 1].final_id)}
           n == IF breaks = {} THEN L ELSE Min(breaks) - 1
           applied == IF breaks = {} THEN tail
                                     ELSE SubSeq(tail, 1, Min(breaks) - 1)
           deltas == [i \in 1 .. Len(applied) |-> ApplyDelta(applied[i])]
           first == << ApplySnapshot(m) >>
           last == << InvalidateVenue >>
           rest == SubSeq(tail, Len(applied) + 1, L)
           r == OnSnapshotWithBridge(sy, m, tail)
           A == {ApplySnapshot(m), InvalidateVenue}
                  \cup {ApplyDelta(tail[i]) : i \in 1 .. L}
<1>1. L \in Nat /\ L >= 1
  OBVIOUS
<1>2. breaks # {} => Min(breaks) \in breaks /\ \A y \in breaks : Min(breaks) <= y
  <2>1. breaks \subseteq Nat
    OBVIOUS
  <2> HIDE DEF breaks
  <2> QED BY <2>1, MinOfNats
<1>3. n \in 1 .. L /\ n \in Nat /\ (breaks = {} => n = L)
  BY <1>1, <1>2
<1>4. \A i \in 2 .. n : IsContiguous(tail[i], tail[i - 1].final_id)
  <2>1. ASSUME NEW i \in 2 .. n PROVE i \notin breaks
    <3>1. CASE breaks = {}
      BY <3>1
    <3>2. CASE breaks # {}
      <4>1. n = Min(breaks) - 1 /\ Min(breaks) \in Nat /\ i < Min(breaks)
        BY <1>2, <1>3, <3>2
      <4> HIDE DEF breaks, n
      <4> QED BY <1>2, <3>2, <4>1
    <3> QED BY <3>1, <3>2
  <2>2. \A i \in 2 .. n : i \in 2 .. L
    <3> HIDE DEF n, breaks
    <3> QED BY <1>1, <1>3
  <2> QED BY <2>1, <2>2
<1>5. /\ applied \in Seq(Depths(s)) /\ Len(applied) = n
      /\ \A k \in 1 .. n : applied[k] = tail[k]
  <2>1. CASE breaks = {}
    BY <2>1
  <2>2. CASE breaks # {}
    <3> DEFINE D == Depths(s)
               b == Min(breaks) - 1
    <3>1. b \in 1 .. L /\ n = b /\ applied = SubSeq(tail, 1, b) /\ tail \in Seq(D)
      BY <1>3, <2>2
    <3> HIDE DEF b, D, n, applied, breaks
    <3>2. SubSeq(tail, 1, b) \in Seq(D) /\ Len(SubSeq(tail, 1, b)) = b
          /\ \A k \in 1 .. b : SubSeq(tail, 1, b)[k] = tail[k]
      BY <1>1, <3>1
    <3> QED BY <3>1, <3>2 DEF D
  <2> QED BY <2>1, <2>2
<1> HIDE DEF n, applied
<1>6. /\ deltas \in Seq(A) /\ Len(deltas) = n
      /\ \A k \in 1 .. n : deltas[k] = ApplyDelta(tail[k])
  <2>1. deltas = [i \in 1 .. n |-> ApplyDelta(tail[i])]
    BY <1>5
  <2>2. \A i \in 1 .. n : ApplyDelta(tail[i]) \in A
    <3>1. \A i \in 1 .. n : i \in 1 .. L
      BY <1>1, <1>3
    <3> HIDE DEF L
    <3> QED BY <3>1
  <2> HIDE DEF deltas, A
  <2> QED BY <1>3, <2>1, <2>2
<1>7. /\ first \in Seq(A) /\ Len(first) = 1 /\ first[1] = ApplySnapshot(m)
      /\ last \in Seq(A) /\ Len(last) = 1 /\ last[1] = InvalidateVenue
  <2>1. ApplySnapshot(m) \in A /\ InvalidateVenue \in A
    OBVIOUS
  <2> HIDE DEF A
  <2> QED BY <2>1
<1>8. rest \in Seq(Depths(s))
  <2> DEFINE D == Depths(s)
  <2>1. tail \in Seq(D) /\ Len(applied) + 1 \in 1 .. L + 1
    BY <1>1, <1>3, <1>5
  <2> HIDE DEF D
  <2>2. SubSeq(tail, Len(applied) + 1, L) \in Seq(D)
    BY <1>1, <2>1
  <2> QED BY <2>2 DEF D
<1> DEFINE prefix == first \o deltas
<1>9. /\ prefix \in Seq(A) /\ Len(prefix) = n + 1
      /\ prefix[1] = ApplySnapshot(m)
      /\ \A k \in 1 .. n : prefix[k + 1] = ApplyDelta(tail[k])
  <2> HIDE DEF first, deltas, A
  <2>1. /\ prefix \in Seq(A) /\ Len(prefix) = 1 + n
        /\ \A i \in 1 .. 1 + n :
             prefix[i] = IF i <= 1 THEN first[i] ELSE deltas[i - 1]
    <3>1. /\ first \o deltas \in Seq(A)
          /\ Len(first \o deltas) = Len(first) + Len(deltas)
          /\ \A i \in 1 .. Len(first) + Len(deltas) : (first \o deltas)[i]
               = IF i <= Len(first) THEN first[i] ELSE deltas[i - Len(first)]
      BY <1>6, <1>7, ConcatProperties, Zenon
    <3> HIDE DEF prefix
    <3>2. prefix = first \o deltas
      BY DEF prefix
    <3> QED BY <1>6, <1>7, <3>1, <3>2, Zenon
  <2>2. \A k \in 1 .. n : k + 1 \in 1 .. 1 + n /\ ~(k + 1 <= 1) /\ (k + 1) - 1 = k
    BY <1>3
  <2>3. 1 \in 1 .. 1 + n
    BY <1>3
  <2> HIDE DEF prefix
  <2> QED BY <1>3, <1>6, <1>7, <2>1, <2>2, <2>3
<1>10. CASE breaks = {}
  <2>1. n = L /\ applied = tail
    BY <1>3, <1>10 DEF applied
  <2>2. r = [sync    |-> [sy EXCEPT !.state = "Live", !.buffer = << >>,
                            !.last_final_id = tail[L].final_id],
             actions |-> prefix]
    BY <1>10 DEF OnSnapshotWithBridge, applied
  <2> HIDE DEF r, prefix, breaks
  <2>3. BridgeBatch(s, sy, m, tail, n, r)
    BY <1>4, <1>9, <2>1, <2>2 DEF BridgeBatch
  <2> QED BY <1>3, <2>3 DEF r
<1>11. CASE breaks # {}
  <2>1. r = [sync |-> [InitSync EXCEPT !.buffer = rest], actions |-> prefix \o last]
    BY <1>11 DEF OnSnapshotWithBridge, HandleGap, applied
  <2>2. /\ Len(prefix \o last) = n + 2
        /\ (prefix \o last)[n + 2] = InvalidateVenue
        /\ \A i \in 1 .. n + 1 : (prefix \o last)[i] = prefix[i]
    <3> HIDE DEF prefix, last, A
    <3>1. /\ Len(prefix \o last) = (n + 1) + 1
          /\ \A i \in 1 .. (n + 1) + 1 : (prefix \o last)[i]
               = IF i <= n + 1 THEN prefix[i] ELSE last[i - (n + 1)]
      <4>1. /\ Len(prefix \o last) = Len(prefix) + Len(last)
            /\ \A i \in 1 .. Len(prefix) + Len(last) : (prefix \o last)[i]
                 = IF i <= Len(prefix) THEN prefix[i] ELSE last[i - Len(prefix)]
        BY <1>7, <1>9, ConcatProperties, Zenon
      <4> QED BY <1>7, <1>9, <4>1, Zenon
    <3>2. n + 2 \in 1 .. (n + 1) + 1 /\ ~(n + 2 <= n + 1) /\ (n + 2) - (n + 1) = 1
      BY <1>3
    <3>3. (prefix \o last)[n + 2] = last[1]
      <4>1. (prefix \o last)[n + 2]
              = IF n + 2 <= n + 1 THEN prefix[n + 2] ELSE last[(n + 2) - (n + 1)]
        BY <3>1, <3>2, Zenon
      <4> QED BY <3>2, <4>1, Zenon
    <3>4. \A i \in 1 .. n + 1 : i \in 1 .. (n + 1) + 1 /\ i <= n + 1
      BY <1>3
    <3>5. \A i \in 1 .. n + 1 : (prefix \o last)[i] = prefix[i]
      BY <3>1, <3>4
    <3>6. (n + 1) + 1 = n + 2
      BY <1>3
    <3> QED BY <1>7, <3>1, <3>3, <3>5, <3>6
  <2> DEFINE acts == prefix \o last
  <2> HIDE DEF r, prefix, breaks, rest, acts, last
  <2>3. r.sync = [InitSync EXCEPT !.buffer = rest] /\ r.actions = acts
    BY <2>1 DEF acts
  <2>4. 1 \in 1 .. n + 1 /\ \A k \in 1 .. n : k + 1 \in 1 .. n + 1
    BY <1>3
  <2>5. BridgeBatch(s, sy, m, tail, n, r)
    BY <1>4, <1>8, <1>9, <2>2, <2>3, <2>4 DEF BridgeBatch, acts
  <2> QED BY <1>3, <2>5 DEF r
<1> QED BY <1>10, <1>11

LEMMA BridgeOutcome ==
  ASSUME NEW s \in Symbols, Ready(s), NEW fs, NEW m \in Snapshots(s),
         NEW tail \in Seq(Depths(s)), tail # << >>, BridgesSnapshot(tail[1], m)
  PROVE  LET y == ExecuteActions(s, OnSnapshotWithBridge(sync[s], m, tail), fs)
         IN  /\ Settled(s, y, fs) /\ y.fetch = fs
             /\ y.sync.state = "Live" \/ y.gap
<1> DEFINE r == OnSnapshotWithBridge(sync[s], m, tail)
           y == ExecuteActions(s, r, fs)
           x0 == BatchStart(s, r, fs)
<1>1. PICK n \in 1 .. Len(tail) : BridgeBatch(s, sync[s], m, tail, n, r)
  BY BridgeBatchIs
<1>2. n \in Nat /\ n >= 1
  OBVIOUS
<1>3. tail[n] \in Depths(s) /\ tail[n].final_id \in Nat
  <2> DEFINE D == Depths(s)
  <2> HIDE DEF D
  <2>1. tail \in Seq(D)
    BY DEF D
  <2>2. tail[n] \in D
    BY <2>1
  <2> QED BY <2>2, FinalIdTyped DEF D, Ready
<1> HIDE DEF r
<1> DEFINE Quiet == n = Len(tail) /\ Len(r.actions) = n + 1
                    /\ r.sync = [sync[s] EXCEPT !.state = "Live", !.buffer = << >>,
                                                !.last_final_id = tail[n].final_id]
           Broken == Len(r.actions) = n + 2 /\ r.actions[n + 2] = InvalidateVenue
                     /\ \E rest \in Seq(Depths(s)) :
                          r.sync = [InitSync EXCEPT !.buffer = rest]
<1>4. Quiet \/ Broken
  BY <1>1 DEF BridgeBatch
<1>5. Quiet => /\ r.sync \in SyncStates(s) /\ r.sync.state = "Live"
               /\ r.sync.buffer = << >> /\ r.sync.last_final_id = tail[n].final_id
  <2> DEFINE D == Seq(Depths(s))
  <2>1. << >> \in D
    OBVIOUS
  <2> HIDE DEF D
  <2> QED BY <1>3, <2>1 DEF Ready, SyncStates, D
<1>6. Broken => /\ r.sync \in SyncStates(s) /\ r.sync.state = "Buffering"
                /\ ~r.sync.snapshot_requested
  BY InitSyncTyped
<1>7. /\ x0 \in BatchStates(s, fs) /\ x0.sync = r.sync /\ ~x0.gap
  <2>1. r.sync \in SyncStates(s)
    <3> HIDE DEF Quiet, Broken
    <3> QED BY <1>4, <1>5, <1>6
  <2> HIDE DEF Quiet, Broken
  <2> QED BY <2>1, BatchStartTyped
<1>8. Len(r.actions) \in Nat /\ Len(r.actions) >= n + 1
  BY <1>2, <1>4
<1>9. PICK run : /\ IsRun(run, s, x0, r.actions)
                 /\ ExecuteActions(s, r, fs) = run[Len(r.actions)]
  BY <1>8, ExecuteRuns
<1> HIDE DEF x0
<1>10. /\ run[0] = x0
       /\ \A k \in 1 .. Len(r.actions) :
            run[k] = ExecuteAction(s, run[k - 1], r.actions[k])
  BY <1>9 DEF IsRun
<1>11. run[1] = ExecuteAction(s, x0, ApplySnapshot(m))
  <2>1. 1 \in 1 .. Len(r.actions) /\ 1 - 1 = 0
    BY <1>2, <1>8
  <2>2. r.actions[1] = ApplySnapshot(m)
    BY <1>1 DEF BridgeBatch
  <2> QED BY <1>10, <2>1, <2>2
<1>12. \A k \in 1 .. n : run[k + 1] = ExecuteAction(s, run[k], ApplyDelta(tail[k]))
  <2>1. ASSUME NEW k \in 1 .. n
        PROVE  run[k + 1] = ExecuteAction(s, run[k], ApplyDelta(tail[k]))
    <3>1. k + 1 \in 1 .. Len(r.actions) /\ (k + 1) - 1 = k
      BY <1>2, <1>8
    <3>2. r.actions[k + 1] = ApplyDelta(tail[k])
      BY <1>1 DEF BridgeBatch
    <3> QED BY <1>10, <3>1, <3>2
  <2> QED BY <2>1
<1>13. Reached(s, run[n + 1], x0.sync, tail[n].final_id, fs)
  <2>1. \A i \in 2 .. n : IsContiguous(tail[i], tail[i - 1].final_id)
    BY <1>1 DEF BridgeBatch
  <2> QED BY <1>7, <1>11, <1>12, <2>1, BridgeRun
<1> HIDE DEF Quiet, Broken
<1> DEFINE z == run[n + 1]
<1> HIDE DEF z
<1>14. /\ z \in BatchStates(s, fs) /\ z.fetch = fs
       /\ z.sync \in SyncStates(s) /\ z.book \in Books /\ z.gap \in BOOLEAN
       /\ \/ ~z.gap /\ z.sync = r.sync
             /\ (ExactHyp => At(s, tail[n].final_id, z.book))
          \/ z.gap /\ z.sync = InitSync /\ AllowRejects
  <2>1. Reached(s, z, r.sync, tail[n].final_id, fs)
    BY <1>7, <1>13 DEF z
  <2> QED BY <2>1 DEF Reached, BatchStates
<1>15. InitSync.state = "Buffering" /\ ~InitSync.snapshot_requested
  BY DEF InitSync
<1>16. CASE Quiet
  <2>1. y = z
    <3>1. Len(r.actions) = n + 1
      BY <1>16 DEF Quiet
    <3> QED BY <1>9, <3>1 DEF z
  <2> HIDE DEF y
  <2>2. CASE ~z.gap
    BY <1>5, <1>14, <1>16, <2>1, <2>2 DEF Settled, y, r
  <2>3. CASE z.gap
    BY <1>14, <1>15, <2>1, <2>3 DEF Settled, y, r
  <2> QED BY <1>14, <2>2, <2>3
<1>17. CASE Broken
  <2>1. y = ExecuteAction(s, z, InvalidateVenue)
    <3>1. Len(r.actions) = n + 2 /\ r.actions[n + 2] = InvalidateVenue
      BY <1>17 DEF Broken
    <3>2. n + 2 \in 1 .. Len(r.actions) /\ (n + 2) - 1 = n + 1
      BY <1>2, <3>1
    <3>3. run[n + 2] = ExecuteAction(s, run[(n + 2) - 1], r.actions[n + 2])
      BY <1>10, <3>2
    <3> QED BY <1>9, <3>1, <3>2, <3>3 DEF z
  <2> HIDE DEF y
  <2>2. /\ y \in BatchStates(s, fs)
        /\ y.sync = z.sync /\ y.book = NoBook /\ y.gap /\ y.fetch = fs
    BY <1>14, <2>1, ExecuteInvalidate
  <2>3. y.sync \in SyncStates(s) /\ y.book \in Books /\ y.gap \in BOOLEAN
    BY <2>2 DEF BatchStates
  <2>4. y.sync.state = "Buffering" /\ ~y.sync.snapshot_requested
    BY <1>6, <1>14, <1>15, <1>17, <2>2
  <2> QED BY <2>2, <2>3, <2>4 DEF Settled, y, r
<1> QED BY <1>4, <1>16, <1>17 DEF Quiet, Broken

LEMMA SnapshotOutcome ==
  ASSUME NEW s \in Symbols, Ready(s), NEW fs, NEW m \in Snapshots(s)
  PROVE  AfterSnapshot(s, ExecuteActions(s, OnSnapshot(sync[s], m), fs), fs)
<1> DEFINE buf == sync[s].buffer
           keep == {i \in DOMAIN buf : ~ShouldDropBuffered(buf[i], m)}
           sv == AtIndices(buf, keep)
           bridges == {i \in 1 .. Len(sv) : BridgesSnapshot(sv[i], m)}
           r == OnSnapshot(sync[s], m)
           y == ExecuteActions(s, r, fs)
<1>1. /\ buf \in Seq(Depths(s)) /\ sync[s].state \in {"Buffering", "Live"}
      /\ (sync[s].state = "Live" => buf = << >>)
  <2> DEFINE D == Seq(Depths(s))
  <2> HIDE DEF D
  <2> QED BY DEF Ready, SyncStates, D
<1>2. /\ sv \in Seq(Depths(s))
      /\ \A k \in DOMAIN sv : \E i \in DOMAIN buf : i \in keep
  <2> DEFINE D == Depths(s)
  <2> HIDE DEF D, buf, keep
  <2>1. buf \in Seq(D)
    BY <1>1 DEF D
  <2> QED BY <2>1, AtIndicesProperties DEF D
<1>3. buf = << >> => sv = << >> /\ bridges = {}
  <2>1. SUFFICES ASSUME buf = << >> PROVE sv = << >> /\ bridges = {}
    OBVIOUS
  <2>2. DOMAIN buf = {}
    BY <2>1
  <2> HIDE DEF sv, buf, keep
  <2>3. DOMAIN sv = {}
    BY <1>2, <2>2
  <2>4. sv = << >>
    <3> DEFINE D == Depths(s)
    <3>1. sv \in Seq(D)
      BY <1>2
    <3> HIDE DEF D
    <3>2. Len(sv) = 0
      BY <2>3, <3>1
    <3> QED BY <3>1, <3>2
  <2> QED BY <2>4
<1>4. r = IF bridges = {} THEN OnSnapshotWithoutBridge(sync[s], m, sv)
          ELSE OnSnapshotWithBridge(sync[s], m, SubSeq(sv, Min(bridges), Len(sv)))
  BY DEF OnSnapshot
<1>5. kSnapshotViaRest = ~kTrustsConnectionOrder
  BY SessionAssumption
<1> HIDE DEF r, sv
<1>6. CASE bridges # {}
  <2> DEFINE b == Min(bridges)
             tail == SubSeq(sv, b, Len(sv))
             D == Depths(s)
  <2>1. b \in bridges
    <3>1. bridges \subseteq Nat
      OBVIOUS
    <3> HIDE DEF bridges
    <3> QED BY <1>6, <3>1, MinOfNats
  <2>2. b \in 1 .. Len(sv) /\ BridgesSnapshot(sv[b], m)
    <3> HIDE DEF b
    <3> QED BY <2>1
  <2> HIDE DEF b
  <2>3. tail \in Seq(Depths(s)) /\ tail # << >> /\ tail[1] = sv[b]
    <3>1. sv \in Seq(D)
      BY <1>2
    <3> HIDE DEF D
    <3>2. /\ tail \in Seq(D) /\ Len(tail) = (Len(sv) - b) + 1
          /\ tail[1] = sv[b]
      BY <2>2, <3>1
    <3>3. Len(tail) # 0
      BY <2>2, <3>1, <3>2
    <3> HIDE DEF tail
    <3>4. tail # << >>
      BY <3>3
    <3> QED BY <3>2, <3>4 DEF D
  <2>4. r = OnSnapshotWithBridge(sync[s], m, tail)
    BY <1>4, <1>6 DEF b
  <2> HIDE DEF tail
  <2>5. Settled(s, y, fs) /\ y.fetch = fs /\ (y.sync.state = "Live" \/ y.gap)
    BY <2>2, <2>3, <2>4, BridgeOutcome
  <2> HIDE DEF y
  <2>6. sync[s].state # "Live" /\ buf # << >>
    BY <1>1, <1>3, <1>6
  <2> QED BY <2>5, <2>6 DEF AfterSnapshot, y, r
<1>7. CASE bridges = {} /\ ~kTrustsConnectionOrder
  <2> DEFINE x0 == BatchStart(s, r, fs)
  <2>1. r = [sync |-> [sync[s] EXCEPT !.buffer = sv],
             actions |-> << RequestSnapshot >>]
    BY <1>4, <1>7 DEF OnSnapshotWithoutBridge
  <2>2. /\ r.sync \in SyncStates(s) /\ r.sync.state = sync[s].state
        /\ r.sync.buffer = sv
        /\ r.sync.last_final_id = sync[s].last_final_id
    <3> DEFINE D == Seq(Depths(s))
    <3>1. sv \in D /\ r.sync = [sync[s] EXCEPT !.buffer = sv]
      BY <1>2, <2>1
    <3> HIDE DEF D
    <3> QED BY <3>1 DEF Ready, SyncStates, D
  <2>3. y = ExecuteAction(s, x0, RequestSnapshot)
    <3>1. r.actions = << RequestSnapshot >>
      BY <2>1
    <3> QED BY <3>1, SingleBatch
  <2>4. /\ x0 \in BatchStates(s, fs) /\ x0.sync = r.sync /\ x0.book = book[s]
        /\ ~x0.gap
    BY <2>2, BatchStartTyped
  <2> HIDE DEF x0, y
  <2>5. /\ y.sync = r.sync /\ y.book = book[s] /\ y.gap = x0.gap
        /\ y.fetch = IF stopping THEN fs ELSE SpawnFetch(fs, s)
    BY <2>3, <2>4, ExecuteRequest
  <2>6. y.gap = FALSE
    BY <2>4, <2>5 DEF BatchStates
  <2>7. y.sync \in SyncStates(s) /\ y.book \in Books
    BY <2>2, <2>5 DEF Ready
  <2>8. Settled(s, y, fs)
    BY <1>1, <1>3, <2>2, <2>5, <2>6, <2>7 DEF Settled, ExactAt, AbsentAt
  <2>9. ASSUME buf = << >> PROVE y.sync = sync[s]
    <3> DEFINE D == Seq(Depths(s))
    <3> HIDE DEF D
    <3>1. sync[s].buffer = sv /\ r.sync = [sync[s] EXCEPT !.buffer = sv]
      BY <1>3, <2>1, <2>9
    <3>2. [sync[s] EXCEPT !.buffer = sync[s].buffer] = sync[s]
      BY DEF Ready, SyncStates, D
    <3> QED BY <2>5, <3>1, <3>2
  <2> QED BY <1>5, <1>7, <2>2, <2>5, <2>6, <2>8, <2>9 DEF AfterSnapshot, y, r
<1>8. CASE bridges = {} /\ kTrustsConnectionOrder /\ buf = << >>
  <2> DEFINE x0 == BatchStart(s, r, fs)
  <2>1. r = [sync    |-> [sync[s] EXCEPT !.state = "Live",
                                  !.last_final_id = m.last_update_id],
             actions |-> << ApplySnapshot(m) >>]
    BY <1>4, <1>8 DEF OnSnapshotWithoutBridge
  <2>2. m.last_update_id \in Nat
    <3>1. PICK c \in 1 .. Len(hist[s]) :
                 \E v \in Validity : m = SnapshotMessage(s, c, v)
      BY SnapshotsAre
    <3>2. m.last_update_id = hist[s][c].id
      BY <3>1, SnapshotFields
    <3> QED BY <3>2, EntryTyped DEF Ready
  <2>3. /\ r.sync \in SyncStates(s) /\ r.sync.state = "Live"
        /\ r.sync.buffer = << >> /\ r.sync.last_final_id = m.last_update_id
    <3> DEFINE D == Seq(Depths(s))
    <3>1. r.sync = [sync[s] EXCEPT !.state = "Live",
                                   !.last_final_id = m.last_update_id]
      BY <2>1
    <3> HIDE DEF D
    <3> QED BY <1>8, <2>2, <3>1 DEF Ready, SyncStates, D
  <2>4. y = ExecuteAction(s, x0, ApplySnapshot(m))
    <3>1. r.actions = << ApplySnapshot(m) >>
      BY <2>1
    <3> QED BY <3>1, SingleBatch
  <2>5. x0 \in BatchStates(s, fs) /\ x0.sync = r.sync /\ ~x0.gap
    BY <2>3, BatchStartTyped
  <2> HIDE DEF x0, y
  <2>6. Reached(s, y, r.sync, m.last_update_id, fs)
    BY <2>4, <2>5, SnapshotReached
  <2>7. /\ y.fetch = fs
        /\ y.sync \in SyncStates(s) /\ y.book \in Books /\ y.gap \in BOOLEAN
    BY <2>6 DEF Reached, BatchStates
  <2>8. InitSync.state = "Buffering" /\ ~InitSync.snapshot_requested
    BY DEF InitSync
  <2>9. Settled(s, y, fs) /\ (y.sync.state = "Live" \/ y.gap)
    BY <2>3, <2>6, <2>7, <2>8 DEF Settled, Reached
  <2> QED BY <1>5, <1>8, <2>7, <2>9 DEF AfterSnapshot, y, r
<1>9. CASE bridges = {} /\ kTrustsConnectionOrder /\ buf # << >>
  <2>1. r = HandleGap(sync[s], sv)
    BY <1>4, <1>9 DEF OnSnapshotWithoutBridge
  <2>2. Settled(s, y, fs) /\ y.gap /\ y.fetch = fs
    BY <1>2, <2>1, GapSettles
  <2> HIDE DEF y
  <2> QED BY <1>5, <1>9, <2>2 DEF AfterSnapshot, y, r
<1> QED BY <1>6, <1>7, <1>8, <1>9, TrustsAssumption

-----------------------------------------------------------------------------
(* The exchange's history only grows.                                      *)

Extends ==
  \A s \in Symbols :
    /\ Len(hist[s]) <= Len(hist[s])'
    /\ \A i \in 1 .. Len(hist[s]) : hist[s][i]' = hist[s][i]

\* What was a message, or the book of an identifier, remains one.
Grows ==
  \A s \in Symbols :
    /\ Depths(s) \subseteq Depths(s)'
    /\ Snapshots(s) \subseteq Snapshots(s)'
    /\ \A id, b : At(s, id, b) => At(s, id, b)'

LEMMA SameHistory ==
  ASSUME UNCHANGED hist
  PROVE  Grows
  BY DEF Grows, Depths, Snapshots, At, DepthUpdate, SnapshotMessage, BookAt

LEMMA SameMessages ==
  ASSUME Extends, HistInv, HistInv', NEW s \in Symbols
  PROVE  /\ \A c \in 1 .. Len(hist[s]) :
              /\ BookAt(s, c)' = BookAt(s, c)
              /\ \A v : SnapshotMessage(s, c, v)' = SnapshotMessage(s, c, v)
         /\ \A hi \in 1 .. Len(hist[s]) : \A lo \in 1 .. hi : \A v :
              DepthUpdate(s, lo, hi, v)' = DepthUpdate(s, lo, hi, v)
<1>1. Len(hist[s]) \in Nat /\ \A i \in 1 .. Len(hist[s]) : hist[s][i]' = hist[s][i]
  BY DEF Extends, HistInv
<1>2. ASSUME NEW c \in 1 .. Len(hist[s]) PROVE BookAt(s, c)' = BookAt(s, c)
  <2>1. ASSUME NEW p
        PROVE  {i \in 1 .. c : hist[s][i].px = p}'
                 = {i \in 1 .. c : hist[s][i].px = p}
    <3>1. \A i \in 1 .. c : i \in 1 .. Len(hist[s])
      BY <1>1
    <3>2. \A i \in 1 .. c : hist'[s][i] = hist[s][i]
      BY <1>1, <3>1
    <3> QED BY <3>2
  <2> QED BY <2>1 DEF BookAt
<1>3. ASSUME NEW c \in 1 .. Len(hist[s]), NEW v
      PROVE  SnapshotMessage(s, c, v)' = SnapshotMessage(s, c, v)
  <2>1. hist'[s][c] = hist[s][c]
    BY <1>1
  <2> QED BY <1>2, <2>1 DEF SnapshotMessage
<1>4. ASSUME NEW hi \in 1 .. Len(hist[s]), NEW lo \in 1 .. hi, NEW v
      PROVE  DepthUpdate(s, lo, hi, v)' = DepthUpdate(s, lo, hi, v)
  <2> DEFINE k == Min({lo + 1, hi})
  <2>1. hi \in Nat /\ lo \in Nat /\ lo \in 1 .. Len(hist[s])
        /\ \A i \in lo + 1 .. hi : i \in 1 .. Len(hist[s])
    BY <1>1
  <2>2. k \in {lo + 1, hi} /\ \A y \in {lo + 1, hi} : k <= y
    <3>1. {lo + 1, hi} \subseteq Nat
      BY <2>1
    <3> QED BY <3>1, MinOfNats
  <2>3. k \in 1 .. Len(hist[s])
    <3> HIDE DEF k
    <3> QED BY <1>1, <2>1, <2>2
  <2> HIDE DEF k
  <2>4. hist'[s][k] = hist[s][k] /\ hist'[s][hi] = hist[s][hi]
        /\ hist'[s][lo] = hist[s][lo]
    BY <1>1, <2>1, <2>3
  <2>5. \A i \in lo + 1 .. hi : hist'[s][i] = hist[s][i]
    BY <1>1, <2>1
  <2>6. {hist'[s][i].px : i \in lo + 1 .. hi} = {hist[s][i].px : i \in lo + 1 .. hi}
    BY <2>5
  <2>7. BookAt(s, hi)' = BookAt(s, hi)
    BY <1>2
  <2>8. DepthUpdate(s, lo, hi, v) =
          [kind |-> "depth", sym |-> s,
           first_id |->
             ParseIds(hist[s][k].id, hist[s][hi].id, hist[s][lo].id).first_id,
           final_id |->
             ParseIds(hist[s][k].id, hist[s][hi].id, hist[s][lo].id).final_id,
           prev_final_id |->
             ParseIds(hist[s][k].id, hist[s][hi].id, hist[s][lo].id).prev_final_id,
           levels |->
             [p \in {hist[s][i].px : i \in lo + 1 .. hi} |-> BookAt(s, hi)[p]],
           valid |-> v]
    BY DEF DepthUpdate, k
  <2>9. DepthUpdate(s, lo, hi, v)' =
          [kind |-> "depth", sym |-> s,
           first_id |->
             ParseIds(hist'[s][k].id, hist'[s][hi].id, hist'[s][lo].id).first_id,
           final_id |->
             ParseIds(hist'[s][k].id, hist'[s][hi].id, hist'[s][lo].id).final_id,
           prev_final_id |->
             ParseIds(hist'[s][k].id, hist'[s][hi].id, hist'[s][lo].id).prev_final_id,
           levels |->
             [p \in {hist'[s][i].px : i \in lo + 1 .. hi} |-> BookAt(s, hi)'[p]],
           valid |-> v]
    BY DEF DepthUpdate, k
  <2> QED BY <2>4, <2>6, <2>7, <2>8, <2>9
<1> QED BY <1>2, <1>3, <1>4

LEMMA ExtendingGrows ==
  ASSUME Extends, HistInv, HistInv'
  PROVE  Grows
<1> SUFFICES ASSUME NEW s \in Symbols
             PROVE  /\ Depths(s) \subseteq Depths(s)'
                    /\ Snapshots(s) \subseteq Snapshots(s)'
                    /\ \A id, b : At(s, id, b) => At(s, id, b)'
  BY DEF Grows
<1>1. /\ Len(hist[s]) \in Nat /\ Len(hist[s])' \in Nat
      /\ Len(hist[s]) <= Len(hist[s])'
      /\ \A i \in 1 .. Len(hist[s]) : hist'[s][i] = hist[s][i]
  BY DEF Extends, HistInv
<1>2. \A i \in 1 .. Len(hist[s]) : i \in 1 .. Len(hist'[s])
  BY <1>1
<1>3. ASSUME NEW m \in Depths(s) PROVE m \in Depths(s)'
  <2>1. PICK hi \in 1 .. Len(hist[s]) : \E lo \in 1 .. hi : \E v \in Validity :
               IsSpan(lo, hi) /\ m = DepthUpdate(s, lo, hi, v)
    BY DepthsAre
  <2>2. PICK lo \in 1 .. hi, v \in Validity :
               IsSpan(lo, hi) /\ m = DepthUpdate(s, lo, hi, v)
    BY <2>1
  <2>3. m = DepthUpdate(s, lo, hi, v)' /\ hi \in 1 .. Len(hist'[s])
    BY <1>2, <2>2, SameMessages
  <2>4. \E h \in 1 .. Len(hist'[s]) : \E l \in 1 .. h : \E w \in Validity :
          IsSpan(l, h) /\ m = DepthUpdate(s, l, h, w)'
    BY <2>2, <2>3
  <2> QED BY <2>4 DEF Depths
<1>4. ASSUME NEW m \in Snapshots(s) PROVE m \in Snapshots(s)'
  <2>1. PICK c \in 1 .. Len(hist[s]), v \in Validity : m = SnapshotMessage(s, c, v)
    BY SnapshotsAre
  <2>2. m = SnapshotMessage(s, c, v)' /\ c \in 1 .. Len(hist'[s])
    BY <1>2, <2>1, SameMessages
  <2> QED BY <2>2 DEF Snapshots
<1>5. ASSUME NEW id, NEW b, At(s, id, b) PROVE At(s, id, b)'
  <2>1. PICK c \in 1 .. Len(hist[s]) : hist[s][c].id = id /\ b = BookAt(s, c)
    BY <1>5 DEF At
  <2>2. b = BookAt(s, c)' /\ c \in 1 .. Len(hist'[s]) /\ hist'[s][c].id = id
    BY <1>1, <1>2, <2>1, SameMessages
  <2> QED BY <2>2 DEF At
<1> QED BY <1>3, <1>4, <1>5

LEMMA ChangeHist ==
  ASSUME HistInv, NEW s \in Symbols, Change(s)
  PROVE  HistInv' /\ Extends
<1>1. PICK p \in Price, id \in NextIds(Last(hist[s]).id) :
        hist' = [hist EXCEPT ![s] = Append(@, [px |-> p, id |-> id])]
  BY DEF Change
<1> DEFINE e == [px |-> p, id |-> id]
           h == hist[s]
           n == Len(h)
<1>2. /\ hist \in [Symbols -> Seq(Entries)] /\ pub \in [Symbols -> Nat]
      /\ h \in Seq(Entries) /\ n \in Nat /\ n >= 1 /\ n < MaxChanges
      /\ n - pub[s] < MaxSpan /\ pub[s] \in 1 .. n /\ pub' = pub
      /\ MaxChanges \in Nat /\ MaxSpan \in Nat
      /\ (~AllowReset => Ledger(h))
  BY SessionAssumption DEF HistInv, Change
<1>3. h[n] \in Entries /\ h[n].id \in Nat /\ Last(h) = h[n]
  BY <1>2, EntryTyped DEF Last
<1>4. id \in Nat /\ (~AllowReset => \E k \in IdSteps : id = h[n].id + k)
  BY <1>3, SessionAssumption DEF NextIds
<1>5. e \in Entries /\ e.id = id
  BY <1>4 DEF Entries
<1> HIDE DEF e, h
<1>6. /\ Append(h, e) \in Seq(Entries) /\ Len(Append(h, e)) = n + 1
      /\ \A i \in 1 .. n : Append(h, e)[i] = h[i]
      /\ Append(h, e)[n + 1] = e
  BY <1>2, <1>5, AppendProperties
<1>7. /\ hist' \in [Symbols -> Seq(Entries)] /\ hist'[s] = Append(h, e)
      /\ \A t \in Symbols \ {s} : hist'[t] = hist[t]
  BY <1>1, <1>2, <1>6 DEF e, h
<1>8. ~AllowReset => Ledger(Append(h, e))
  <2> SUFFICES ASSUME ~AllowReset PROVE Ledger(Append(h, e))
    OBVIOUS
  <2>1. Ledger(h)
    BY <1>2
  <2>2. Append(h, e)[1].id = 1
    BY <1>2, <1>6, <2>1 DEF Ledger
  <2>3. ASSUME NEW i \in 1 .. (n + 1) - 1
        PROVE  \E k \in IdSteps : Append(h, e)[i + 1].id = Append(h, e)[i].id + k
    <3>1. CASE i = n
      BY <1>2, <1>4, <1>5, <1>6, <3>1
    <3>2. CASE i # n
      <4>1. i \in 1 .. n - 1 /\ i \in 1 .. n /\ i + 1 \in 1 .. n
        BY <1>2, <3>2
      <4>2. \E k \in IdSteps : h[i + 1].id = h[i].id + k
        BY <2>1, <4>1 DEF Ledger, n
      <4> QED BY <1>6, <4>1, <4>2
    <3> QED BY <3>1, <3>2
  <2>4. Append(h, e) # << >>
    BY <1>2, <1>5, AppendProperties
  <2> HIDE DEF n
  <2> QED BY <1>6, <2>2, <2>3, <2>4 DEF Ledger
<1> HIDE DEF n
<1>9. HistInv'
  <2>1. ASSUME NEW t \in Symbols
        PROVE  /\ Len(hist'[t]) <= MaxChanges
               /\ pub'[t] \in 1 .. Len(hist'[t])
               /\ Len(hist'[t]) - pub'[t] <= MaxSpan
               /\ ~AllowReset => Ledger(hist'[t])
    <3>1. CASE t = s
      <4>1. Len(hist'[t]) = n + 1 /\ pub'[t] = pub[s]
        BY <1>2, <1>6, <1>7, <3>1
      <4>2. ~AllowReset => Ledger(hist'[t])
        BY <1>7, <1>8, <3>1
      <4> QED BY <1>2, <4>1, <4>2
    <3>2. CASE t # s
      BY <1>2, <1>7, <3>2 DEF HistInv
    <3> QED BY <3>1, <3>2
  <2>2. pub' \in [Symbols -> Nat]
    BY <1>2
  <2> QED BY <1>7, <2>1, <2>2 DEF HistInv
<1>10. Extends
  <2>1. ASSUME NEW t \in Symbols
        PROVE  /\ Len(hist[t]) <= Len(hist'[t])
               /\ \A i \in 1 .. Len(hist[t]) : hist'[t][i] = hist[t][i]
    <3>1. CASE t = s
      BY <1>2, <1>6, <1>7, <3>1 DEF h, n
    <3>2. CASE t # s
      BY <1>2, <1>7, <3>2
    <3> QED BY <3>1, <3>2
  <2> QED BY <2>1 DEF Extends
<1> QED BY <1>9, <1>10

-----------------------------------------------------------------------------
(* What a step that leaves part of the state alone preserves.              *)

LEMMA SeqGrows ==
  ASSUME NEW D, NEW E, D \subseteq E, NEW q \in Seq(D)
  PROVE  q \in Seq(E)
  OBVIOUS

LEMMA SyncStatesGrow ==
  ASSUME Grows, NEW s \in Symbols
  PROVE  SyncStates(s) \subseteq SyncStates(s)'
<1>1. \A q : q \in Seq(Depths(s)) => q \in Seq(Depths(s))'
  <2> DEFINE D == Depths(s)
             E == Depths(s)'
  <2>1. D \subseteq E
    BY DEF Grows
  <2>2. \A q : q \in Seq(D) => q \in Seq(E)
    <3> HIDE DEF D, E
    <3> QED BY <2>1, SeqGrows
  <2> QED BY <2>2
<1> DEFINE D == Seq(Depths(s))
           E == Seq(Depths(s))'
<1>2. D \subseteq E
  BY <1>1
<1>3. SyncStates(s) = [state : {"Buffering", "Live"}, buffer : D,
                       last_final_id : Nat, snapshot_requested : BOOLEAN]
  BY DEF SyncStates
<1>4. SyncStates(s)' = [state : {"Buffering", "Live"}, buffer : E,
                        last_final_id : Nat, snapshot_requested : BOOLEAN]
  BY DEF SyncStates
<1> HIDE DEF D, E
<1> QED BY <1>2, <1>3, <1>4

LEMMA MessagesGrow ==
  ASSUME Grows
  PROVE  \A q \in Seq(Messages) : q \in Seq(Messages)'
<1> DEFINE M == Messages
           N == Messages'
<1>1. M \subseteq N
  <2>1. ASSUME NEW m \in M PROVE m \in N
    <3>1. PICK s \in Symbols :
            m \in Depths(s) \cup (IF kSnapshotViaRest THEN {} ELSE Snapshots(s))
      BY DEF Messages
    <3>2. m \in Depths(s)' \cup (IF kSnapshotViaRest THEN {} ELSE Snapshots(s)')
      BY <3>1 DEF Grows
    <3> QED BY <3>2 DEF Messages
  <2> QED BY <2>1
<1>2. \A q : q \in Seq(M) => q \in Seq(N)
  <2> HIDE DEF M, N
  <2> QED BY <1>1, SeqGrows
<1> QED BY <1>2

LEMMA FetchStatesGrow ==
  ASSUME Grows
  PROVE  FetchStates \subseteq FetchStates'
<1>1. \A s \in Symbols : Answered(s) \subseteq Answered(s)'
  BY DEF Grows, Answered
<1> QED BY <1>1 DEF FetchStates

LEMMA QuietSync ==
  ASSUME IInv, Grows, UNCHANGED << sync, book >>
  PROVE  SyncInv' /\ ExactInv' /\ UnsyncedInv'
<1> USE DEF IInv
<1>1. SyncInv'
  <2>1. \A s \in Symbols : sync'[s] \in SyncStates(s)'
    BY SyncStatesGrow DEF SyncInv
  <2> QED BY <2>1 DEF SyncInv, Books
<1>2. ExactInv'
  <2>1. ASSUME ExactHyp, NEW s \in Symbols, sync'[s].state = "Live"
        PROVE  At(s, sync[s].last_final_id, book[s])'
    <3>1. At(s, sync[s].last_final_id, book[s])
      BY <2>1 DEF ExactInv
    <3> DEFINE id == sync[s].last_final_id
               b == book[s]
    <3>2. At(s, id, b)'
      <4>1. \A i, c : At(s, i, c) => At(s, i, c)'
        BY DEF Grows
      <4>2. \E c \in 1 .. Len(hist'[s]) :
              hist'[s][c].id = id /\ b = BookAt(s, c)'
        BY <3>1, <4>1 DEF At
      <4> QED BY <4>2 DEF At
    <3> QED BY <3>2
  <2> QED BY <2>1 DEF ExactInv, ExactHyp
<1>3. UnsyncedInv'
  BY DEF UnsyncedInv, UnsyncedBookIsAbsent
<1> QED BY <1>1, <1>2, <1>3

\* run() or stop() move on, and nothing else changes.
LEMMA PhaseOnly ==
  ASSUME IInv, UNCHANGED << exchangeVars, connects, sync, book, fetch >>,
         phase' = "reading" <=> phase = "reading",
         stopping => stopping', PhaseInv'
  PROVE  IInv'
<1> USE DEF IInv, exchangeVars
<1>1. Grows /\ HistInv'
  BY SameHistory DEF HistInv
<1>2. SyncInv' /\ ExactInv' /\ UnsyncedInv'
  BY <1>1, QuietSync
<1>3. OfflineInv'
  BY DEF OfflineInv
<1>4. CountInv'
  BY DEF CountInv, FetchesBounded, Alive
<1>5. ComingInv'
  BY DEF ComingInv, ComingHyp, BufferingHasSnapshotComing, Alive
<1> QED BY <1>1, <1>2, <1>3, <1>4, <1>5

LEMMA PhaseInvKept ==
  ASSUME PhaseInv, Grows, UNCHANGED << connects, fetch, pushed, wire >>
  PROVE  /\ connects' \in 0 .. MaxConnects
         /\ wire' \in Seq(Messages)' /\ pushed' \in [Symbols -> Nat]
         /\ fetch' \in [FetchSlots -> FetchStates]'
  BY MessagesGrow, FetchStatesGrow DEF PhaseInv, FetchSlots

LEMMA StartStep ==
  ASSUME IInv, Start PROVE IInv'
<1>1. Grows
  BY SameHistory DEF Start, exchangeVars
<1>2. PhaseInv'
  BY <1>1, PhaseInvKept DEF Start, exchangeVars, IInv, PhaseInv, Free, FetchSlots
<1> QED BY <1>2, PhaseOnly DEF Start

LEMMA ReconnectStep ==
  ASSUME IInv, Reconnect PROVE IInv'
<1>1. Grows
  BY SameHistory DEF Reconnect, exchangeVars
<1>2. PhaseInv'
  BY <1>1, PhaseInvKept DEF Reconnect, exchangeVars, IInv, PhaseInv
<1> QED BY <1>2, PhaseOnly DEF Reconnect

LEMMA StopStep ==
  ASSUME IInv, Stop PROVE IInv'
<1>1. Grows
  BY SameHistory DEF Stop, exchangeVars
<1>2. PhaseInv'
  BY <1>1, PhaseInvKept DEF Stop, exchangeVars, IInv, PhaseInv, Free, FetchSlots
<1> QED BY <1>2, PhaseOnly DEF Stop

LEMMA DrainedStep ==
  ASSUME IInv, Drained PROVE IInv'
<1>1. Grows
  BY SameHistory DEF Drained, exchangeVars
<1>2. PhaseInv'
  BY <1>1, PhaseInvKept DEF Drained, exchangeVars, IInv, PhaseInv, Free, FetchSlots
<1> QED BY <1>2, PhaseOnly DEF Drained

-----------------------------------------------------------------------------
(* Counting fetches.                                                       *)

LEMMA FetchSetsFinite ==
  ASSUME NEW A, A \subseteq FetchSlots
  PROVE  IsFiniteSet(A) /\ Cardinality(A) \in Nat
<1>1. IsFiniteSet(FetchSlots)
  <2>1. 1 \in Int /\ MaxFetch \in Int
    BY SessionAssumption
  <2> QED BY <2>1, FS_Interval DEF FetchSlots
<1>2. IsFiniteSet(A)
  BY <1>1, FS_Subset
<1> QED BY <1>2, FS_CardinalityType

LEMMA FetchSetsCount ==
  ASSUME NEW A, A \subseteq FetchSlots, NEW B, B \subseteq A, NEW f
  PROVE  /\ Cardinality(A) \in Nat /\ Cardinality(B) \in Nat
         /\ Cardinality(B) <= Cardinality(A)
         /\ f \in A /\ f \notin B => Cardinality(B) + 1 <= Cardinality(A)
         /\ Cardinality(B \cup {f}) <= Cardinality(A) + 1
<1>1. /\ IsFiniteSet(A) /\ Cardinality(A) \in Nat
      /\ IsFiniteSet(B) /\ Cardinality(B) \in Nat
  BY FetchSetsFinite
<1>2. Cardinality(B) <= Cardinality(A)
  BY <1>1, FS_Subset
<1>3. IsFiniteSet(B \cup {f})
      /\ Cardinality(B \cup {f})
           = IF f \in B THEN Cardinality(B) ELSE Cardinality(B) + 1
  BY <1>1, FS_AddElement
<1>4. f \in A => Cardinality(B \cup {f}) <= Cardinality(A)
  <2>1. f \in A => B \cup {f} \subseteq A
    OBVIOUS
  <2> QED BY <1>1, <2>1, FS_Subset
<1> QED BY <1>1, <1>2, <1>3, <1>4

LEMMA FetchSetsGrow ==
  ASSUME NEW A, A \subseteq FetchSlots, NEW B, B \subseteq FetchSlots,
         NEW f, B \subseteq A \cup {f}
  PROVE  Cardinality(B) \in Nat /\ Cardinality(B) <= Cardinality(A) + 1
<1>1. IsFiniteSet(A) /\ Cardinality(A) \in Nat /\ Cardinality(B) \in Nat
  BY FetchSetsFinite
<1> DEFINE C == A \cup {f}
<1>2. IsFiniteSet(C)
      /\ Cardinality(C) = IF f \in A THEN Cardinality(A) ELSE Cardinality(A) + 1
  BY <1>1, FS_AddElement
<1> HIDE DEF C
<1>3. Cardinality(B) <= Cardinality(C)
  BY <1>2, FS_Subset DEF C
<1> QED BY <1>1, <1>2, <1>3

LEMMA AliveIsFetch ==
  ASSUME NEW s
  PROVE  Alive(s) \subseteq FetchSlots /\ Alive(s)' \subseteq FetchSlots
  BY DEF Alive, FetchSlots

LEMMA CountsKept ==
  ASSUME IInv, UNCHANGED connects,
         \A s \in Symbols : Alive(s)' \subseteq Alive(s),
         \A s \in Symbols : sync'[s].state = "Live" => sync[s].state = "Live",
         phase' = "reading" => phase = "reading"
  PROVE  CountInv'
<1>1. ASSUME NEW s \in Symbols
      PROVE  Cardinality(Alive(s)') + (IF sync'[s].state = "Live" THEN 1 ELSE 0)
               <= connects'
  <2> DEFINE A == Alive(s)
             B == Alive(s)'
  <2>1. /\ Cardinality(A) \in Nat /\ Cardinality(B) \in Nat
        /\ Cardinality(B) <= Cardinality(A)
    <3>1. A \subseteq FetchSlots /\ B \subseteq A
      BY AliveIsFetch
    <3> HIDE DEF A, B
    <3> QED BY <3>1, FetchSetsCount
  <2>2. Cardinality(A) + (IF sync[s].state = "Live" THEN 1 ELSE 0) <= connects
    BY DEF IInv, CountInv, FetchesBounded
  <2>3. connects \in Nat
    BY SessionAssumption DEF IInv, PhaseInv
  <2> HIDE DEF A, B
  <2>4. Cardinality(B) + (IF sync'[s].state = "Live" THEN 1 ELSE 0) <= connects'
    BY <2>1, <2>2, <2>3
  <2> QED BY <2>4 DEF B
<1>2. FetchesBounded'
  BY <1>1 DEF FetchesBounded
<1>3. phase' = "reading" => connects' >= 1
  BY DEF IInv, CountInv
<1> QED BY <1>2, <1>3 DEF CountInv

\* on_disconnected() for every symbol.
LEMMA ResetStep ==
  ASSUME IInv, NEW next \in {"backoff", "draining"}, InvalidateAll(next),
         next = "draining" => stopping,
         UNCHANGED << hist, pub, stopping, connects, fetch >>
  PROVE  IInv'
<1> USE DEF IInv
<1>1. Grows /\ HistInv'
  BY SameHistory DEF HistInv
<1>2. /\ sync' = [s \in Symbols |-> InitSync]
      /\ book' = [s \in Symbols |-> NoBook] /\ phase' = next
      /\ wire' = << >> /\ pushed' = [s \in Symbols |-> 0]
  BY DEF InvalidateAll, OnDisconnected
<1>3. InitSync.state = "Buffering" /\ InitSync.buffer = << >>
  BY DEF InitSync
<1>4. SyncInv'
  <2>1. \A s \in Symbols : sync'[s] \in SyncStates(s)'
    <3>1. ASSUME NEW s \in Symbols PROVE InitSync \in SyncStates(s)'
      <4>1. InitSync \in SyncStates(s)
        BY InitSyncTyped
      <4> QED BY <1>1, <4>1, SyncStatesGrow
    <3> QED BY <1>2, <3>1
  <2> QED BY <1>2, <1>3, <2>1 DEF SyncInv, Books
<1>5. PhaseInv'
  <2>1. wire' \in Seq(Messages)' /\ pushed' \in [Symbols -> Nat]
    BY <1>2
  <2>2. fetch' \in [FetchSlots -> FetchStates]'
    BY <1>1, FetchStatesGrow DEF PhaseInv, FetchSlots
  <2> QED BY <1>2, <2>1, <2>2 DEF PhaseInv
<1>6. OfflineInv' /\ ExactInv' /\ UnsyncedInv'
  BY <1>2, <1>3 DEF OfflineInv, ExactInv, UnsyncedInv, UnsyncedBookIsAbsent
<1>7. CountInv'
  <2>1. \A s \in Symbols : Alive(s)' \subseteq Alive(s)
    BY DEF Alive, FetchSlots
  <2> QED BY <1>2, <1>3, <2>1, CountsKept
<1>8. ComingInv'
  BY <1>2 DEF ComingInv, BufferingHasSnapshotComing
<1> QED BY <1>1, <1>4, <1>5, <1>6, <1>7, <1>8

LEMMA DisconnectStep ==
  ASSUME IInv, Disconnect PROVE IInv'
  BY ResetStep DEF Disconnect

LEMMA RunCancelledStep ==
  ASSUME IInv, RunCancelled PROVE IInv'
<1>1. CASE InvalidateAll("draining")
  BY <1>1, ResetStep DEF RunCancelled
<1>2. CASE phase = "backoff" /\ phase' = "draining"
           /\ UNCHANGED << wire, pushed, sync, book >>
  <2>1. Grows
    BY SameHistory DEF RunCancelled
  <2>2. PhaseInv'
    BY <1>2, <2>1, PhaseInvKept DEF RunCancelled, IInv, PhaseInv
  <2> QED BY <1>2, <2>2, PhaseOnly DEF RunCancelled, exchangeVars
<1> QED BY <1>1, <1>2 DEF RunCancelled

-----------------------------------------------------------------------------
(* The exchange's steps.                                                   *)

\* A snapshot of s is still to be sent on this connection, or to be read.
PushComing(s) ==
  \/ pushed[s] = 0
  \/ \E i \in 1 .. Len(wire) : wire[i].kind = "snapshot" /\ wire[i].sym = s

LEMMA ExchangeStep ==
  ASSUME IInv, HistInv', Grows, UNCHANGED sessionVars,
         wire' \in Seq(Messages)', pushed' \in [Symbols -> Nat],
         phase # "reading" => UNCHANGED pushed,
         ~kSnapshotViaRest /\ ~AllowLoss =>
           \A s \in Symbols : PushComing(s) => PushComing(s)'
  PROVE  IInv'
<1> USE DEF IInv, sessionVars
<1>1. SyncInv' /\ ExactInv' /\ UnsyncedInv'
  BY QuietSync
<1>2. PhaseInv'
  <2>1. fetch' \in [FetchSlots -> FetchStates]'
    BY FetchStatesGrow DEF PhaseInv, FetchSlots
  <2> QED BY <2>1 DEF PhaseInv, Free, FetchSlots
<1>3. OfflineInv'
  BY DEF OfflineInv
<1>4. CountInv'
  BY DEF CountInv, FetchesBounded, Alive
<1>5. ComingInv'
  <2> SUFFICES ASSUME ComingHyp, phase = "reading", ~stopping,
                      NEW s \in Symbols, sync[s].state = "Buffering"
               PROVE  IF kSnapshotViaRest THEN Alive(s)' # {} ELSE PushComing(s)'
    BY DEF ComingInv, BufferingHasSnapshotComing, ComingHyp, PushComing
  <2>1. IF kSnapshotViaRest THEN Alive(s) # {} ELSE PushComing(s)
    BY DEF ComingInv, BufferingHasSnapshotComing, PushComing
  <2>2. CASE kSnapshotViaRest
    BY <2>1, <2>2 DEF Alive
  <2>3. CASE ~kSnapshotViaRest
    BY <2>1, <2>3 DEF ComingHyp
  <2> QED BY <2>2, <2>3
<1> QED BY <1>1, <1>2, <1>3, <1>4, <1>5

LEMMA ChangeStep ==
  ASSUME IInv, NEW s \in Symbols, Change(s) PROVE IInv'
<1>1. HistInv' /\ Extends
  BY ChangeHist DEF IInv
<1>2. Grows
  BY <1>1, ExtendingGrows DEF IInv
<1>3. UNCHANGED << wire, pushed >> /\ UNCHANGED sessionVars
  BY DEF Change
<1>4. wire' \in Seq(Messages)' /\ pushed' \in [Symbols -> Nat]
  BY <1>2, <1>3, MessagesGrow DEF IInv, PhaseInv
<1>5. \A t \in Symbols : PushComing(t) => PushComing(t)'
  BY <1>3 DEF PushComing
<1> QED BY <1>1, <1>2, <1>3, <1>4, <1>5, ExchangeStep

\* What is on the wire stays there when a message is added.
LEMMA WireGrows ==
  ASSUME IInv, UNCHANGED hist, NEW m \in Messages, wire' = Append(wire, m)
  PROVE  /\ wire' \in Seq(Messages)'
         /\ Len(wire') = Len(wire) + 1 /\ Len(wire) \in Nat
         /\ \A i \in 1 .. Len(wire) : wire'[i] = wire[i]
         /\ wire'[Len(wire) + 1] = m
<1> DEFINE M == Messages
<1>1. wire \in Seq(M) /\ m \in M
  BY DEF IInv, PhaseInv
<1>2. \A q \in Seq(M) : q \in Seq(Messages)'
  BY SameHistory, MessagesGrow
<1> HIDE DEF M
<1>3. /\ Append(wire, m) \in Seq(M) /\ Len(Append(wire, m)) = Len(wire) + 1
      /\ Len(wire) \in Nat
      /\ \A i \in 1 .. Len(wire) : Append(wire, m)[i] = wire[i]
      /\ Append(wire, m)[Len(wire) + 1] = m
  BY <1>1, AppendProperties
<1>4. Append(wire, m) \in Seq(Messages)'
  BY <1>2, <1>3
<1> QED BY <1>3, <1>4, Zenon

LEMMA PublishStep ==
  ASSUME IInv, NEW s \in Symbols, Publish(s) PROVE IInv'
<1>1. UNCHANGED << hist, pushed >> /\ UNCHANGED sessionVars
      /\ pub' = [pub EXCEPT ![s] = Len(hist[s])]
  BY DEF Publish
<1>2. Grows
  BY <1>1, SameHistory
<1>3. Len(hist[s]) \in Nat /\ pub[s] \in 1 .. Len(hist[s]) /\ pub \in [Symbols -> Nat]
      /\ Len(hist[s]) - pub[s] <= MaxSpan /\ MaxSpan \in Nat
  BY SessionAssumption DEF IInv, HistInv
<1>4. HistInv'
  <2>1. pub' \in [Symbols -> Nat] /\ pub'[s] = Len(hist[s])
        /\ \A t \in Symbols \ {s} : pub'[t] = pub[t]
    BY <1>1, <1>3
  <2>2. ASSUME NEW t \in Symbols
        PROVE  pub'[t] \in 1 .. Len(hist'[t]) /\ Len(hist'[t]) - pub'[t] <= MaxSpan
    <3>1. CASE t = s
      BY <1>1, <1>3, <2>1, <3>1
    <3>2. CASE t # s
      BY <1>1, <2>1, <3>2 DEF IInv, HistInv
    <3> QED BY <3>1, <3>2
  <2> QED BY <1>1, <2>1, <2>2 DEF IInv, HistInv
<1>5. PICK v \in Validity :
        wire' = IF Streams(s)
                  THEN Append(wire, DepthUpdate(s, pub[s], Len(hist[s]), v))
                  ELSE wire
  BY DEF Publish
<1>6. CASE Streams(s)
  <2> DEFINE m == DepthUpdate(s, pub[s], Len(hist[s]), v)
  <2>1. IsSpan(pub[s], Len(hist[s]))
    <3>1. pub[s] = Len(hist[s]) => AllowHeartbeat
      BY <1>3 DEF Publish
    <3> QED BY <1>3, <3>1 DEF IsSpan
  <2>2. m \in Depths(s)
    <3>1. Len(hist[s]) \in 1 .. Len(hist[s])
      BY <1>3
    <3> QED BY <1>3, <2>1, <3>1, DepthsAre
  <2>3. m \in Messages
    BY <2>2 DEF Messages
  <2>4. wire' = Append(wire, m)
    BY <1>5, <1>6
  <2> HIDE DEF m
  <2>5. /\ wire' \in Seq(Messages)'
        /\ Len(wire') = Len(wire) + 1 /\ Len(wire) \in Nat
        /\ \A i \in 1 .. Len(wire) : wire'[i] = wire[i]
    BY <1>1, <2>3, <2>4, WireGrows
  <2>6. \A t \in Symbols : PushComing(t) => PushComing(t)'
    <3>1. \A i \in 1 .. Len(wire) : i \in 1 .. Len(wire')
      BY <2>5
    <3> QED BY <1>1, <2>5, <3>1 DEF PushComing
  <2>7. pushed' \in [Symbols -> Nat]
    BY <1>1 DEF IInv, PhaseInv
  <2> QED BY <1>1, <1>2, <1>4, <2>5, <2>6, <2>7, ExchangeStep
<1>7. CASE ~Streams(s)
  <2>1. wire' = wire
    BY <1>5, <1>7
  <2>2. wire' \in Seq(Messages)' /\ pushed' \in [Symbols -> Nat]
    BY <1>1, <1>2, <2>1, MessagesGrow DEF IInv, PhaseInv
  <2>3. \A t \in Symbols : PushComing(t) => PushComing(t)'
    BY <1>1, <2>1 DEF PushComing
  <2> QED BY <1>1, <1>2, <1>4, <2>2, <2>3, ExchangeStep
<1> QED BY <1>6, <1>7

LEMMA PushSnapshotStep ==
  ASSUME IInv, NEW s \in Symbols, PushSnapshot(s) PROVE IInv'
<1>1. /\ UNCHANGED << hist, pub >> /\ UNCHANGED sessionVars
      /\ ~kSnapshotViaRest /\ phase = "reading"
      /\ pushed' = [pushed EXCEPT ![s] = @ + 1]
  BY DEF PushSnapshot
<1>2. Grows /\ HistInv'
  BY <1>1, SameHistory DEF IInv, HistInv
<1>3. PICK c \in 1 .. pub[s], v \in Validity :
        wire' = Append(wire, SnapshotMessage(s, c, v))
  BY DEF PushSnapshot
<1> DEFINE m == SnapshotMessage(s, c, v)
<1>4. m \in Messages /\ m.kind = "snapshot" /\ m.sym = s
  <2>1. c \in 1 .. Len(hist[s])
    BY DEF IInv, HistInv
  <2>2. m \in Snapshots(s)
    BY <2>1, SnapshotsAre
  <2> QED BY <1>1, <2>2, SnapshotFields DEF Messages
<1> HIDE DEF m
<1>5. /\ wire' \in Seq(Messages)'
      /\ Len(wire') = Len(wire) + 1 /\ Len(wire) \in Nat
      /\ \A i \in 1 .. Len(wire) : wire'[i] = wire[i]
      /\ wire'[Len(wire) + 1] = m
  BY <1>1, <1>3, <1>4, WireGrows DEF m
<1>6. /\ pushed' \in [Symbols -> Nat]
      /\ \A t \in Symbols \ {s} : pushed'[t] = pushed[t]
  BY <1>1 DEF IInv, PhaseInv
<1>7. \A t \in Symbols : PushComing(t) => PushComing(t)'
  <2>1. \A i \in 1 .. Len(wire) : i \in 1 .. Len(wire')
    BY <1>5
  <2>2. Len(wire) + 1 \in 1 .. Len(wire')
    BY <1>5
  <2>3. ASSUME NEW t \in Symbols, PushComing(t) PROVE PushComing(t)'
    <3>1. CASE t = s
      BY <1>4, <1>5, <2>2, <3>1 DEF PushComing
    <3>2. CASE t # s
      BY <1>5, <1>6, <2>1, <2>3, <3>2 DEF PushComing
    <3> QED BY <3>1, <3>2
  <2> QED BY <2>3
<1> QED BY <1>1, <1>2, <1>5, <1>6, <1>7, ExchangeStep

LEMMA ReadMalformedStep ==
  ASSUME IInv, ReadMalformed PROVE IInv'
<1>1. UNCHANGED << hist, pub, pushed >> /\ UNCHANGED sessionVars
      /\ AllowLoss /\ wire # << >> /\ wire' = Tail(wire)
  BY DEF ReadMalformed
<1>2. Grows /\ HistInv'
  BY <1>1, SameHistory DEF IInv, HistInv
<1>3. wire' \in Seq(Messages)'
  <2> DEFINE M == Messages
  <2>1. wire \in Seq(M)
    BY DEF IInv, PhaseInv
  <2>2. \A q \in Seq(M) : q \in Seq(Messages)'
    BY <1>2, MessagesGrow
  <2> HIDE DEF M
  <2> QED BY <1>1, <2>1, <2>2, HeadTailProperties
<1>4. pushed' \in [Symbols -> Nat]
  BY <1>1 DEF IInv, PhaseInv
<1> QED BY <1>1, <1>2, <1>3, <1>4, ExchangeStep

-----------------------------------------------------------------------------
(* Fetches.                                                                *)

LEMMA FetchFields ==
  ASSUME NEW v \in FetchStates
  PROVE  /\ v.st \in {"free", "flying", "backoff", "answered", "finished"}
         /\ v.st \in {"flying", "backoff", "answered"} =>
              kSnapshotViaRest /\ v.sym \in Symbols
         /\ v.st \in {"flying", "backoff"} => v = [st |-> v.st, sym |-> v.sym]
         /\ v.st = "answered" => v.msg \in Snapshots(v.sym)
<1>1. CASE v \in {FreeFetch, [st |-> "finished"]}
  BY <1>1 DEF FreeFetch
<1>2. CASE kSnapshotViaRest /\ v \in [st : {"flying", "backoff"}, sym : Symbols]
  BY <1>2
<1>3. ASSUME kSnapshotViaRest, NEW s \in Symbols, v \in Answered(s)
      PROVE  v.st = "answered" /\ v.sym = s /\ v.msg \in Snapshots(s)
  BY <1>3 DEF Answered
<1> QED BY <1>1, <1>2, <1>3 DEF FetchStates

LEMMA FetchStatesAre ==
  /\ FreeFetch \in FetchStates /\ [st |-> "finished"] \in FetchStates
  /\ \A s \in Symbols : kSnapshotViaRest =>
       /\ [st |-> "flying", sym |-> s] \in FetchStates
       /\ [st |-> "backoff", sym |-> s] \in FetchStates
       /\ \A m \in Snapshots(s) :
            [st |-> "answered", sym |-> s, msg |-> m] \in FetchStates
<1>1. ASSUME NEW s \in Symbols, NEW m \in Snapshots(s)
      PROVE  [st |-> "answered", sym |-> s, msg |-> m] \in Answered(s)
  BY DEF Answered
<1> QED BY <1>1 DEF FetchStates

\* A fetch in the state v may still deliver a snapshot of s.
AliveState(v, s) == v.st \in {"flying", "backoff", "answered"} /\ v.sym = s

LEMMA AliveAre ==
  ASSUME NEW s
  PROVE  /\ Alive(s) = {f \in FetchSlots : AliveState(fetch[f], s)}
         /\ Alive(s)' = {f \in FetchSlots : AliveState(fetch'[f], s)}
  BY DEF Alive, AliveState, FetchSlots

\* One fetch moves on; nothing is applied.
LEMMA FetchStep ==
  ASSUME IInv, NEW f \in FetchSlots, NEW v \in FetchStates,
         fetch' = [fetch EXCEPT ![f] = v], fetch[f].st # "free",
         UNCHANGED << exchangeVars, phase, stopping, connects, sync, book >>,
         \A s \in Symbols : AliveState(v, s) => AliveState(fetch[f], s),
         stopping \/ AllowBadBody \/
           \A s \in Symbols : AliveState(fetch[f], s) => AliveState(v, s)
  PROVE  IInv'
<1> USE DEF IInv, exchangeVars
<1>1. Grows /\ HistInv'
  BY SameHistory DEF HistInv
<1>2. SyncInv' /\ ExactInv' /\ UnsyncedInv'
  BY <1>1, QuietSync
<1>3. /\ fetch \in [FetchSlots -> FetchStates]
      /\ fetch'[f] = v
      /\ \A g \in FetchSlots \ {f} : fetch'[g] = fetch[g]
  BY DEF PhaseInv
<1>4. PhaseInv'
  <2>1. fetch' \in [FetchSlots -> FetchStates]
    BY <1>3
  <2>2. fetch' \in [FetchSlots -> FetchStates]'
    BY <1>1, <2>1, FetchStatesGrow DEF FetchSlots
  <2>3. wire' \in Seq(Messages)'
    BY <1>1, MessagesGrow DEF PhaseInv
  <2>4. phase \notin {"idle", "done"}
    BY DEF PhaseInv, Free
  <2> QED BY <2>2, <2>3, <2>4 DEF PhaseInv
<1>5. OfflineInv'
  BY DEF OfflineInv
<1>6. CountInv'
  <2>1. ASSUME NEW s \in Symbols, NEW g \in Alive(s)' PROVE g \in Alive(s)
    <3>1. g \in FetchSlots /\ AliveState(fetch'[g], s)
      BY AliveAre
    <3>2. AliveState(fetch[g], s)
      <4>1. CASE g = f
        BY <1>3, <3>1, <4>1
      <4>2. CASE g # f
        BY <1>3, <3>1, <4>2
      <4> QED BY <4>1, <4>2
    <3> QED BY <3>1, <3>2, AliveAre
  <2> QED BY <2>1, CountsKept
<1>7. ComingInv'
  <2> SUFFICES ASSUME ComingHyp, phase = "reading", ~stopping,
                      NEW s \in Symbols, sync[s].state = "Buffering"
               PROVE  IF kSnapshotViaRest THEN Alive(s)' # {} ELSE PushComing(s)'
    BY DEF ComingInv, BufferingHasSnapshotComing, ComingHyp, PushComing
  <2>1. IF kSnapshotViaRest THEN Alive(s) # {} ELSE PushComing(s)
    BY DEF ComingInv, BufferingHasSnapshotComing, PushComing
  <2>2. CASE kSnapshotViaRest
    <3>1. PICK g \in FetchSlots : AliveState(fetch[g], s)
      BY <2>1, <2>2, AliveAre
    <3>2. AliveState(fetch'[g], s)
      <4>1. CASE g = f
        BY <1>3, <3>1, <4>1 DEF ComingHyp
      <4>2. CASE g # f
        BY <1>3, <3>1, <4>2
      <4> QED BY <4>1, <4>2
    <3>3. g \in Alive(s)'
      BY <3>2, AliveAre
    <3> QED BY <2>2, <3>3
  <2>3. CASE ~kSnapshotViaRest
    BY <2>1, <2>3 DEF PushComing
  <2> QED BY <2>2, <2>3
<1> QED BY <1>1, <1>2, <1>4, <1>5, <1>6, <1>7

LEMMA FetchTyped ==
  ASSUME IInv, NEW f \in FetchSlots
  PROVE  fetch[f] \in FetchStates /\ fetch \in [FetchSlots -> FetchStates]
  BY DEF IInv, PhaseInv

LEMMA FinishedIsNotAlive == \A s : ~AliveState([st |-> "finished"], s)
  BY DEF AliveState

LEMMA FreeIsNotAlive == \A s : ~AliveState(FreeFetch, s)
  BY DEF AliveState, FreeFetch

LEMMA FetchAnswerStep ==
  ASSUME IInv, NEW f \in FetchSlots, FetchAnswer(f) PROVE IInv'
<1>1. fetch[f] \in FetchStates /\ fetch[f].st = "flying"
  BY FetchTyped DEF FetchAnswer
<1>2. kSnapshotViaRest /\ fetch[f].sym \in Symbols
  BY <1>1, FetchFields
<1> DEFINE s == fetch[f].sym
<1>3. PICK valid \in Validity :
        fetch' = [fetch EXCEPT ![f] =
          [st |-> "answered", sym |-> s,
           msg |-> SnapshotMessage(s, Len(hist[s]), valid)]]
  BY DEF FetchAnswer
<1> DEFINE m == SnapshotMessage(s, Len(hist[s]), valid)
           v == [st |-> "answered", sym |-> s, msg |-> m]
<1>4. m \in Snapshots(s)
  <2>1. Len(hist[s]) \in 1 .. Len(hist[s])
    BY <1>2 DEF IInv, HistInv
  <2> QED BY <2>1, SnapshotsAre
<1>5. v \in FetchStates
  BY <1>2, <1>4, FetchStatesAre
<1>6. \A t : AliveState(v, t) <=> AliveState(fetch[f], t)
  BY <1>1 DEF AliveState
<1>7. fetch' = [fetch EXCEPT ![f] = v]
  BY <1>3
<1> HIDE DEF v
<1>8. UNCHANGED << exchangeVars, phase, stopping, connects, sync, book >>
  BY DEF FetchAnswer
<1> QED BY <1>1, <1>5, <1>6, <1>7, <1>8, FetchStep

LEMMA FetchFailStep ==
  ASSUME IInv, NEW f \in FetchSlots, FetchFail(f) PROVE IInv'
<1>1. fetch[f] \in FetchStates /\ fetch[f].st = "flying"
  BY FetchTyped DEF FetchFail
<1>2. kSnapshotViaRest /\ fetch[f].sym \in Symbols
      /\ fetch[f] = [st |-> "flying", sym |-> fetch[f].sym]
  BY <1>1, FetchFields
<1> DEFINE v == [st |-> "backoff", sym |-> fetch[f].sym]
<1>3. [fetch[f] EXCEPT !.st = "backoff"] = v
  BY <1>2
<1>4. fetch' = [fetch EXCEPT ![f] = v]
  BY <1>3 DEF FetchFail
<1>5. v \in FetchStates
  BY <1>2, FetchStatesAre
<1>6. \A t : AliveState(v, t) <=> AliveState(fetch[f], t)
  BY <1>1 DEF AliveState
<1> HIDE DEF v
<1>7. UNCHANGED << exchangeVars, phase, stopping, connects, sync, book >>
  BY DEF FetchFail
<1> QED BY <1>1, <1>4, <1>5, <1>6, <1>7, FetchStep

LEMMA FetchRetryStep ==
  ASSUME IInv, NEW f \in FetchSlots, FetchRetry(f) PROVE IInv'
<1>1. fetch[f] \in FetchStates /\ fetch[f].st = "backoff"
  BY FetchTyped DEF FetchRetry
<1>2. kSnapshotViaRest /\ fetch[f].sym \in Symbols
      /\ fetch[f] = [st |-> "backoff", sym |-> fetch[f].sym]
  BY <1>1, FetchFields
<1> DEFINE v == [st |-> "flying", sym |-> fetch[f].sym]
<1>3. [fetch[f] EXCEPT !.st = "flying"] = v
  BY <1>2
<1>4. fetch' = [fetch EXCEPT ![f] = v]
  BY <1>3 DEF FetchRetry
<1>5. v \in FetchStates
  BY <1>2, FetchStatesAre
<1>6. \A t : AliveState(v, t) <=> AliveState(fetch[f], t)
  BY <1>1 DEF AliveState
<1> HIDE DEF v
<1>7. UNCHANGED << exchangeVars, phase, stopping, connects, sync, book >>
  BY DEF FetchRetry
<1> QED BY <1>1, <1>4, <1>5, <1>6, <1>7, FetchStep

LEMMA FetchCancelledStep ==
  ASSUME IInv, NEW f \in FetchSlots, FetchCancelled(f) PROVE IInv'
<1> DEFINE v == [st |-> "finished"]
<1>1. v \in FetchStates /\ \A t : ~AliveState(v, t)
  BY FetchStatesAre, FinishedIsNotAlive
<1>2. fetch' = [fetch EXCEPT ![f] = v] /\ stopping /\ fetch[f].st # "free"
      /\ UNCHANGED << exchangeVars, phase, stopping, connects, sync, book >>
  BY DEF FetchCancelled
<1> HIDE DEF v
<1> QED BY <1>1, <1>2, FetchStep

LEMMA EraseSignalStep ==
  ASSUME IInv, NEW f \in FetchSlots, EraseSignal(f) PROVE IInv'
<1> DEFINE v == FreeFetch
<1>1. v \in FetchStates /\ \A t : ~AliveState(v, t)
  BY FetchStatesAre, FreeIsNotAlive
<1>2. fetch' = [fetch EXCEPT ![f] = v] /\ fetch[f].st = "finished"
      /\ UNCHANGED << exchangeVars, phase, stopping, connects, sync, book >>
  BY DEF EraseSignal
<1>3. \A t : ~AliveState(fetch[f], t)
  BY <1>2 DEF AliveState
<1> HIDE DEF v
<1> QED BY <1>1, <1>2, <1>3, FetchStep

\* A body that does not parse, or an answer after stop(): nothing applied.
LEMMA FetchDroppedStep ==
  ASSUME IInv, NEW f \in FetchSlots, FetchResume(f), stopping \/ AllowBadBody,
         fetch' = [fetch EXCEPT ![f] = [st |-> "finished"]],
         UNCHANGED << sync, book >>
  PROVE  IInv'
<1> DEFINE v == [st |-> "finished"]
<1>1. v \in FetchStates /\ \A t : ~AliveState(v, t)
  BY FetchStatesAre, FinishedIsNotAlive
<1>2. fetch' = [fetch EXCEPT ![f] = v] /\ fetch[f].st # "free"
      /\ UNCHANGED << exchangeVars, phase, stopping, connects, sync, book >>
  BY DEF FetchResume
<1> HIDE DEF v
<1> QED BY <1>1, <1>2, FetchStep

LEMMA NewFetchIs ==
  ASSUME NEW s \in Symbols
  PROVE  /\ NewFetch(s) \in FetchStates
         /\ NewFetch(s).st # "free"
         /\ kSnapshotViaRest => AliveState(NewFetch(s), s)
         /\ \A t : AliveState(NewFetch(s), t) => kSnapshotViaRest /\ t = s
<1>0. kSnapshotViaRest \in BOOLEAN
  BY SessionAssumption
<1>1. CASE kSnapshotViaRest
  <2>1. NewFetch(s) = [st |-> "flying", sym |-> s]
    BY <1>1 DEF NewFetch
  <2>2. NewFetch(s) \in FetchStates
    BY <1>1, <2>1, FetchStatesAre
  <2> QED BY <1>1, <2>1, <2>2 DEF AliveState
<1>2. CASE ~kSnapshotViaRest
  <2>1. NewFetch(s) = [st |-> "finished"]
    BY <1>2 DEF NewFetch
  <2>2. NewFetch(s) \in FetchStates
    BY <2>1, FetchStatesAre
  <2> QED BY <1>2, <2>1, <2>2 DEF AliveState
<1> QED BY <1>0, <1>1, <1>2

LEMMA SpawnIs ==
  ASSUME NEW fs \in [FetchSlots -> FetchStates], Free(fs) # {},
         NEW s \in Symbols
  PROVE  \E g \in Free(fs) : SpawnFetch(fs, s) = [fs EXCEPT ![g] = NewFetch(s)]
<1>1. Min(Free(fs)) \in Free(fs)
  <2>1. Free(fs) \subseteq Nat
    BY SessionAssumption DEF Free, FetchSlots
  <2> QED BY <2>1, MinOfNats
<1> QED BY <1>1 DEF SpawnFetch

-----------------------------------------------------------------------------
(* A batch assigned to the state.                                          *)

Fits(s, y) ==
  /\ y.sync \in SyncStates(s) /\ y.book \in Books
  /\ y.sync.state = "Live" => y.sync.buffer = << >>
  /\ ExactHyp => (y.sync.state = "Live" => At(s, y.sync.last_final_id, y.book))
  /\ ~AllowRejects => (y.sync.state = "Buffering" => y.book = NoBook)

LEMMA IsReady ==
  ASSUME IInv, KeepsFinalId, NEW s \in Symbols
  PROVE  Ready(s) /\ (ExactHyp => ExactAt(s)) /\ (~AllowRejects => AbsentAt(s))
  BY DEF IInv, Ready, SyncInv, ExactInv, ExactAt, UnsyncedInv,
         UnsyncedBookIsAbsent, AbsentAt

LEMMA ResyncFits ==
  ASSUME IInv, KeepsFinalId, NEW s \in Symbols, NEW fs, NEW x,
         Settled(s, x, fs), x.gap
  PROVE  LET y == ResyncAfterGap(s, x)
         IN  /\ Fits(s, y) /\ y.sync.state = "Buffering"
             /\ y.fetch = IF stopping THEN fs ELSE SpawnFetch(fs, s)
<1> DEFINE r == OnConnected(x.sync)
           y == ResyncAfterGap(s, x)
           D == Seq(Depths(s))
<1>1. /\ x \in BatchStates(s, fs) /\ x.fetch = fs
      /\ x.sync.state = "Buffering" /\ ~x.sync.snapshot_requested
      /\ x.sync \in SyncStates(s) /\ x.book \in Books
      /\ (~AllowRejects => x.book = NoBook)
  BY IsReady DEF Settled
<1>2. r = [sync    |-> [x.sync EXCEPT !.snapshot_requested = TRUE],
           actions |-> << RequestSnapshot >>]
  BY <1>1 DEF OnConnected
<1>3. r.sync \in SyncStates(s) /\ r.sync.state = "Buffering" /\ r.actions # << >>
  <2>1. r.sync = [x.sync EXCEPT !.snapshot_requested = TRUE]
        /\ r.actions # << >>
    BY <1>2
  <2> HIDE DEF D, r
  <2> QED BY <1>1, <2>1 DEF SyncStates, D
<1> HIDE DEF r
<1>4. y = [x EXCEPT !.sync = r.sync,
                    !.fetch = IF stopping THEN fs ELSE SpawnFetch(fs, s)]
  BY <1>1, <1>3 DEF ResyncAfterGap, r
<1> HIDE DEF y
<1>5. /\ y.sync = r.sync /\ y.book = x.book
      /\ y.fetch = IF stopping THEN fs ELSE SpawnFetch(fs, s)
  BY <1>1, <1>4 DEF BatchStates
<1> QED BY <1>1, <1>3, <1>5 DEF Fits, y

LEMMA SettledFits ==
  ASSUME IInv, KeepsFinalId, NEW s \in Symbols, NEW fs, NEW x, Settled(s, x, fs)
  PROVE  Fits(s, x)
  BY IsReady DEF Settled, Fits

LEMMA AssignSync ==
  ASSUME IInv, NEW s \in Symbols, NEW y, Fits(s, y), Assign(s, y),
         UNCHANGED hist
  PROVE  /\ SyncInv' /\ ExactInv' /\ UnsyncedInv'
         /\ sync'[s] = y.sync /\ book'[s] = y.book /\ fetch' = y.fetch
         /\ \A t \in Symbols \ {s} : sync'[t] = sync[t] /\ book'[t] = book[t]
<1> USE DEF IInv
<1>1. /\ sync'[s] = y.sync /\ book'[s] = y.book /\ fetch' = y.fetch
      /\ \A t \in Symbols \ {s} : sync'[t] = sync[t] /\ book'[t] = book[t]
      /\ sync' = [t \in Symbols |-> sync'[t]]
      /\ book' \in [Symbols -> Books]
  BY DEF Assign, SyncInv, Fits
<1>2. Grows
  BY SameHistory
<1>3. \A t \in Symbols : sync'[t] \in SyncStates(t)'
  <2>1. \A t \in Symbols : sync'[t] \in SyncStates(t)
    BY <1>1 DEF SyncInv, Fits
  <2> QED BY <1>2, <2>1, SyncStatesGrow
<1>4. SyncInv'
  BY <1>1, <1>3 DEF SyncInv, Fits, Books
<1>5. ExactInv'
  <2>1. ASSUME ExactHyp, NEW t \in Symbols, sync'[t].state = "Live"
        PROVE  At(t, sync[t].last_final_id, book[t])'
    <3> DEFINE id == sync'[t].last_final_id
               b == book'[t]
    <3>1. At(t, id, b)
      <4>1. CASE t = s
        BY <1>1, <2>1, <4>1 DEF Fits
      <4>2. CASE t # s
        BY <1>1, <2>1, <4>2 DEF ExactInv
      <4> QED BY <4>1, <4>2
    <3> HIDE DEF id, b
    <3>2. \E c \in 1 .. Len(hist[t]) : hist[t][c].id = id /\ b = BookAt(t, c)
      BY <3>1 DEF At
    <3>3. \E c \in 1 .. Len(hist'[t]) : hist'[t][c].id = id /\ b = BookAt(t, c)'
      BY <3>2 DEF BookAt
    <3> QED BY <3>3 DEF At, id, b
  <2> QED BY <2>1 DEF ExactInv, ExactHyp
<1>6. UnsyncedInv'
  BY <1>1 DEF UnsyncedInv, UnsyncedBookIsAbsent, Fits
<1> QED BY <1>1, <1>4, <1>5, <1>6

AliveIn(fs, s) == {f \in FetchSlots : AliveState(fs[f], s)}

LEMMA SpawnAlive ==
  ASSUME NEW fs \in [FetchSlots -> FetchStates], Free(fs) # {},
         NEW s \in Symbols
  PROVE  LET gs == SpawnFetch(fs, s)
         IN  /\ gs \in [FetchSlots -> FetchStates]
             /\ \E g : AliveIn(gs, s) \subseteq AliveIn(fs, s) \cup {g}
             /\ kSnapshotViaRest => AliveIn(gs, s) # {}
             /\ \A t : AliveIn(fs, t) \subseteq AliveIn(gs, t)
             /\ \A t : t # s => AliveIn(gs, t) \subseteq AliveIn(fs, t)
<1> DEFINE gs == SpawnFetch(fs, s)
<1>1. PICK g \in Free(fs) : gs = [fs EXCEPT ![g] = NewFetch(s)]
  BY SpawnIs
<1>2. g \in FetchSlots /\ fs[g].st = "free"
  BY DEF Free
<1> HIDE DEF gs
<1>3. /\ gs[g] = NewFetch(s)
      /\ \A f \in FetchSlots \ {g} : gs[f] = fs[f]
      /\ gs \in [FetchSlots -> FetchStates]
  BY <1>1, <1>2, NewFetchIs
<1>4. /\ kSnapshotViaRest => AliveState(gs[g], s)
      /\ \A t : AliveState(gs[g], t) => t = s
      /\ \A t : ~AliveState(fs[g], t)
  <2>1. \A t : ~AliveState(fs[g], t)
    BY <1>2 DEF AliveState
  <2> QED BY <1>3, <2>1, NewFetchIs
<1>5. AliveIn(gs, s) \subseteq AliveIn(fs, s) \cup {g}
  BY <1>3 DEF AliveIn
<1>6. kSnapshotViaRest => AliveIn(gs, s) # {}
  BY <1>2, <1>4 DEF AliveIn
<1>7. \A t : AliveIn(fs, t) \subseteq AliveIn(gs, t)
  BY <1>3, <1>4 DEF AliveIn
<1>8. \A t : t # s => AliveIn(gs, t) \subseteq AliveIn(fs, t)
  BY <1>3, <1>4 DEF AliveIn
<1> QED BY <1>3, <1>5, <1>6, <1>7, <1>8 DEF gs

LEMMA AliveIsAliveIn ==
  ASSUME NEW s
  PROVE  Alive(s) = AliveIn(fetch, s) /\ Alive(s)' = AliveIn(fetch', s)
  BY AliveAre DEF AliveIn

\* The counts after the fetches of s changed by at most what its state gave.
LEMMA CountsMoved ==
  ASSUME IInv, UNCHANGED << connects, phase >>, NEW s \in Symbols,
         \A t \in Symbols \ {s} :
           /\ Alive(t)' \subseteq Alive(t)
           /\ sync'[t] = sync[t],
         Cardinality(Alive(s)') + (IF sync'[s].state = "Live" THEN 1 ELSE 0)
           <= connects
  PROVE  CountInv'
<1>1. ASSUME NEW t \in Symbols, t # s
      PROVE  Cardinality(Alive(t)') + (IF sync'[t].state = "Live" THEN 1 ELSE 0)
               <= connects'
  <2> DEFINE A == Alive(t)
             B == Alive(t)'
  <2>1. /\ Cardinality(A) \in Nat /\ Cardinality(B) \in Nat
        /\ Cardinality(B) <= Cardinality(A)
    <3>1. A \subseteq FetchSlots /\ B \subseteq A
      BY <1>1, AliveIsFetch
    <3> HIDE DEF A, B
    <3> QED BY <3>1, FetchSetsCount
  <2>2. Cardinality(A) + (IF sync[t].state = "Live" THEN 1 ELSE 0) <= connects
    BY DEF IInv, CountInv, FetchesBounded
  <2>3. connects \in Nat
    BY SessionAssumption DEF IInv, PhaseInv
  <2>4. sync'[t] = sync[t]
    BY <1>1
  <2> HIDE DEF A, B
  <2>5. Cardinality(B) + (IF sync'[t].state = "Live" THEN 1 ELSE 0) <= connects'
    BY <2>1, <2>2, <2>3, <2>4
  <2> QED BY <2>5 DEF B
<1>2. FetchesBounded'
  <2>1. ASSUME NEW t \in Symbols
        PROVE  Cardinality(Alive(t)') + (IF sync'[t].state = "Live" THEN 1 ELSE 0)
                 <= connects'
    BY <1>1
  <2> QED BY <2>1 DEF FetchesBounded
<1>3. phase' = "reading" => connects' >= 1
  BY DEF IInv, CountInv
<1> QED BY <1>2, <1>3 DEF CountInv

\* A venue that pushes its snapshots has no fetch alive.
LEMMA PushedHasNoFetch ==
  ASSUME IInv, ~kSnapshotViaRest, NEW s
  PROVE  Alive(s) = {}
<1>1. ASSUME NEW f \in Alive(s) PROVE FALSE
  <2>1. f \in FetchSlots /\ fetch[f].st \in {"flying", "backoff", "answered"}
    BY DEF Alive
  <2> QED BY <2>1, FetchTyped, FetchFields
<1> QED BY <1>1

\* The outcome x of a dispatched message of s.
DispatchOutcome(s, m, x) ==
  \/ m \in Depths(s) /\ m.kind = "depth" /\ AfterDepth(s, x, fetch)
  \/ /\ ~kSnapshotViaRest /\ m \in Snapshots(s) /\ m.kind = "snapshot"
     /\ AfterSnapshot(s, x, fetch)

DispatchResult(s, m) ==
  ExecuteActions(s, IF m.kind = "depth" THEN OnDepthUpdate(sync[s], m)
                                        ELSE OnSnapshot(sync[s], m), fetch)

LEMMA DispatchOutcomeIs ==
  ASSUME IInv, KeepsFinalId, NEW m \in Messages
  PROVE  m.sym \in Symbols /\ DispatchOutcome(m.sym, m, DispatchResult(m.sym, m))
<1>1. PICK s \in Symbols :
        m \in Depths(s) \cup (IF kSnapshotViaRest THEN {} ELSE Snapshots(s))
  BY DEF Messages
<1>2. Ready(s)
  BY IsReady
<1>3. CASE m \in Depths(s)
  <2>1. m.sym = s /\ m.kind = "depth"
    <3>1. \E hi, lo : \E v \in Validity : m = DepthUpdate(s, lo, hi, v)
      BY <1>3, DepthsAre
    <3> QED BY <3>1, DepthFields
  <2>2. DispatchResult(s, m) = ExecuteActions(s, OnDepthUpdate(sync[s], m), fetch)
    BY <2>1 DEF DispatchResult
  <2>3. AfterDepth(s, DispatchResult(s, m), fetch)
    BY <1>2, <1>3, <2>2, DepthOutcome
  <2> QED BY <1>3, <2>1, <2>3 DEF DispatchOutcome
<1>4. CASE ~kSnapshotViaRest /\ m \in Snapshots(s)
  <2>1. m.sym = s /\ m.kind = "snapshot"
    <3>1. \E c : \E v \in Validity : m = SnapshotMessage(s, c, v)
      BY <1>4, SnapshotsAre
    <3> QED BY <3>1, SnapshotFields
  <2>2. DispatchResult(s, m) = ExecuteActions(s, OnSnapshot(sync[s], m), fetch)
    BY <2>1 DEF DispatchResult
  <2>3. AfterSnapshot(s, DispatchResult(s, m), fetch)
    BY <1>2, <1>4, <2>2, SnapshotOutcome
  <2> QED BY <1>4, <2>1, <2>3 DEF DispatchOutcome
<1> QED BY <1>1, <1>3, <1>4

\* What Dispatch does, in terms of the message's symbol and the outcome.
LEMMA DispatchIs ==
  ASSUME IInv, KeepsFinalId, Dispatch
  PROVE  \E m \in Messages : \E s \in Symbols : \E x :
           /\ m = Head(wire) /\ s = m.sym /\ DispatchOutcome(s, m, x)
           /\ IF x.gap /\ ~kSnapshotViaRest
                THEN InvalidateAll("backoff") /\ fetch' = x.fetch
                ELSE /\ Assign(s, IF x.gap THEN ResyncAfterGap(s, x) ELSE x)
                     /\ wire' = Tail(wire) /\ UNCHANGED << phase, pushed >>
<1> DEFINE m == Head(wire)
           s == m.sym
           x == DispatchResult(s, m)
<1>1. m \in Messages
  <2> DEFINE M == Messages
  <2>1. wire \in Seq(M) /\ wire # << >>
    BY DEF IInv, PhaseInv, Dispatch
  <2> HIDE DEF M
  <2>2. Head(wire) \in M
    BY <2>1
  <2> QED BY <2>2 DEF M
<1>2. kSnapshotViaRest = ~kTrustsConnectionOrder /\ kTrustsConnectionOrder \in BOOLEAN
  BY SessionAssumption, TrustsAssumption
<1>3. IF ForcesReconnect(x)
        THEN InvalidateAll("backoff") /\ fetch' = x.fetch
        ELSE /\ Assign(s, IF x.gap THEN ResyncAfterGap(s, x) ELSE x)
             /\ wire' = Tail(wire) /\ UNCHANGED << phase, pushed >>
  BY DEF Dispatch, DispatchResult
<1>4. s \in Symbols /\ DispatchOutcome(s, m, x)
  BY <1>1, DispatchOutcomeIs
<1> HIDE DEF x
<1>5. IF x.gap /\ ~kSnapshotViaRest
        THEN InvalidateAll("backoff") /\ fetch' = x.fetch
        ELSE /\ Assign(s, IF x.gap THEN ResyncAfterGap(s, x) ELSE x)
             /\ wire' = Tail(wire) /\ UNCHANGED << phase, pushed >>
  BY <1>2, <1>3 DEF ForcesReconnect
<1> QED BY <1>1, <1>4, <1>5

\* The state of s after the batch and, for a REST venue, the resync.
Resynced(s, x) == IF x.gap THEN ResyncAfterGap(s, x) ELSE x

LEMMA ResyncedFits ==
  ASSUME IInv, KeepsFinalId, NEW s \in Symbols, NEW fs, NEW x, Settled(s, x, fs)
  PROVE  LET y == Resynced(s, x)
         IN  /\ Fits(s, y)
             /\ x.gap => /\ y.sync.state = "Buffering"
                         /\ y.fetch = IF stopping THEN fs ELSE SpawnFetch(fs, s)
             /\ ~x.gap => y = x
<1>1. CASE x.gap
  <2>1. Resynced(s, x) = ResyncAfterGap(s, x)
    BY <1>1 DEF Resynced
  <2> QED BY <1>1, <2>1, ResyncFits
<1>2. CASE ~x.gap
  <2>1. Resynced(s, x) = x
    BY <1>2 DEF Resynced
  <2> QED BY <1>2, <2>1, SettledFits
<1> QED BY <1>1, <1>2

\* Reading the head of the wire takes no other symbol's snapshot off it.
LEMMA TailKeepsComing ==
  ASSUME IInv, wire # << >>, wire' = Tail(wire), UNCHANGED pushed,
         NEW t, Head(wire).kind # "snapshot" \/ Head(wire).sym # t, PushComing(t)
  PROVE  PushComing(t)'
<1>1. CASE pushed[t] = 0
  BY <1>1 DEF PushComing
<1>2. CASE pushed[t] # 0
  <2>1. PICK i \in 1 .. Len(wire) : wire[i].kind = "snapshot" /\ wire[i].sym = t
    BY <1>2 DEF PushComing
  <2> DEFINE M == Messages
  <2>2. wire \in Seq(M)
    BY DEF IInv, PhaseInv
  <2> HIDE DEF M
  <2>3. Len(wire) \in Nat /\ Head(wire) = wire[1]
    BY <2>2
  <2>4. i # 1
    BY <2>1, <2>3
  <2>5. Len(Tail(wire)) = Len(wire) - 1
        /\ \A k \in 1 .. Len(Tail(wire)) : Tail(wire)[k] = wire[k + 1]
    BY <2>2, HeadTailProperties
  <2>6. i - 1 \in 1 .. Len(Tail(wire)) /\ (i - 1) + 1 = i
    BY <2>3, <2>4, <2>5
  <2>7. Tail(wire)[i - 1] = wire[i]
    BY <2>5, <2>6
  <2> QED BY <2>1, <2>6, <2>7 DEF PushComing
<1> QED BY <1>1, <1>2

LEMMA DispatchStep ==
  ASSUME IInv, KeepsFinalId, Dispatch
  PROVE  IInv'
<1>0. /\ phase = "reading" /\ ~stopping /\ wire # << >> /\ Free(fetch) # {}
      /\ UNCHANGED << hist, pub, stopping, connects >>
  BY DEF Dispatch
<1>a. PICK m \in Messages, s \in Symbols : \E x :
           /\ m = Head(wire) /\ s = m.sym /\ DispatchOutcome(s, m, x)
           /\ IF x.gap /\ ~kSnapshotViaRest
                THEN InvalidateAll("backoff") /\ fetch' = x.fetch
                ELSE /\ Assign(s, Resynced(s, x))
                     /\ wire' = Tail(wire) /\ UNCHANGED << phase, pushed >>
  BY DispatchIs DEF Resynced
<1>1. PICK x :
           /\ m = Head(wire) /\ s = m.sym /\ DispatchOutcome(s, m, x)
           /\ IF x.gap /\ ~kSnapshotViaRest
                THEN InvalidateAll("backoff") /\ fetch' = x.fetch
                ELSE /\ Assign(s, Resynced(s, x))
                     /\ wire' = Tail(wire) /\ UNCHANGED << phase, pushed >>
  BY <1>a
<1>2. Settled(s, x, fetch) /\ x.gap \in BOOLEAN
  BY <1>1 DEF DispatchOutcome, AfterDepth, AfterSnapshot, Settled
<1>3. CASE x.gap /\ ~kSnapshotViaRest
  <2>1. InvalidateAll("backoff") /\ fetch' = fetch
    BY <1>1, <1>2, <1>3 DEF Settled
  <2> QED BY <1>0, <2>1, ResetStep
<1>4. CASE ~(x.gap /\ ~kSnapshotViaRest)
  <2> DEFINE y == Resynced(s, x)
  <2>1. /\ Fits(s, y)
        /\ x.gap => y.sync.state = "Buffering" /\ y.fetch = SpawnFetch(fetch, s)
        /\ ~x.gap => y = x
    BY <1>0, <1>2, ResyncedFits
  <2>2. Assign(s, y) /\ wire' = Tail(wire) /\ UNCHANGED << phase, pushed >>
    BY <1>1, <1>4
  <2> HIDE DEF y
  <2>3. /\ SyncInv' /\ ExactInv' /\ UnsyncedInv'
        /\ sync'[s] = y.sync /\ book'[s] = y.book /\ fetch' = y.fetch
        /\ \A t \in Symbols \ {s} : sync'[t] = sync[t] /\ book'[t] = book[t]
    BY <1>0, <2>1, <2>2, AssignSync
  <2>4. Grows /\ HistInv'
    BY <1>0, SameHistory DEF IInv, HistInv
  <2>5. /\ fetch \in [FetchSlots -> FetchStates]
        /\ x.gap => fetch' = SpawnFetch(fetch, s)
        /\ ~x.gap => fetch' = fetch
    <3>1. ~x.gap => x.fetch = fetch
      BY <1>1 DEF DispatchOutcome, AfterDepth, AfterSnapshot
    <3> QED BY <2>1, <2>3, <3>1 DEF IInv, PhaseInv
  <2>6. PhaseInv'
    <3>1. fetch' \in [FetchSlots -> FetchStates]
      BY <1>0, <1>2, <2>5, SpawnAlive
    <3>2. fetch' \in [FetchSlots -> FetchStates]'
      BY <2>4, <3>1, FetchStatesGrow DEF FetchSlots
    <3>3. wire' \in Seq(Messages)'
      <4> DEFINE M == Messages
      <4>1. wire \in Seq(M)
        BY DEF IInv, PhaseInv
      <4>2. \A q \in Seq(M) : q \in Seq(Messages)'
        BY <2>4, MessagesGrow
      <4> HIDE DEF M
      <4> QED BY <1>0, <2>2, <4>1, <4>2, HeadTailProperties
    <3> QED BY <1>0, <2>2, <3>2, <3>3 DEF IInv, PhaseInv
  <2>7. OfflineInv'
    BY <1>0, <2>2 DEF OfflineInv
  <2>8. CountInv'
    <3>1. \A t \in Symbols \ {s} : Alive(t)' \subseteq Alive(t)
      BY <1>0, <1>2, <2>5, SpawnAlive, AliveIsAliveIn
    <3>2. Cardinality(Alive(s)) + (IF sync[s].state = "Live" THEN 1 ELSE 0)
            <= connects
      BY DEF IInv, CountInv, FetchesBounded
    <3>3. Cardinality(Alive(s)) \in Nat /\ connects \in Nat
      <4>1. Alive(s) \subseteq FetchSlots
        BY AliveIsFetch
      <4> QED BY <4>1, FetchSetsFinite, SessionAssumption DEF IInv, PhaseInv
    <3>4. Cardinality(Alive(s)') + (IF sync'[s].state = "Live" THEN 1 ELSE 0)
            <= connects
      <4>1. CASE x.gap
        <5>1. sync[s].state = "Live" /\ sync'[s].state = "Buffering"
          BY <1>1, <1>4, <2>1, <2>3, <4>1 DEF DispatchOutcome, AfterDepth
        <5>2. PICK g : Alive(s)' \subseteq Alive(s) \cup {g}
          BY <1>0, <2>5, <4>1, SpawnAlive, AliveIsAliveIn
        <5>3. Cardinality(Alive(s)') <= Cardinality(Alive(s)) + 1
              /\ Cardinality(Alive(s)') \in Nat
          <6> DEFINE A == Alive(s)
                     B == Alive(s)'
          <6>1. /\ A \subseteq FetchSlots /\ B \subseteq FetchSlots
                /\ B \subseteq A \cup {g}
            BY <5>2, AliveIsFetch
          <6> HIDE DEF A, B
          <6> QED BY <6>1, FetchSetsGrow DEF A, B
        <5> QED BY <3>2, <3>3, <5>1, <5>3
      <4>2. CASE ~x.gap /\ m.kind = "depth"
        <5>1. sync'[s].state = sync[s].state
          BY <1>1, <2>1, <2>3, <4>2 DEF DispatchOutcome, AfterDepth
        <5>2. Alive(s)' = Alive(s)
          BY <2>5, <4>2, AliveIsAliveIn
        <5> QED BY <3>2, <5>1, <5>2
      <4>3. CASE ~x.gap /\ m.kind # "depth"
        <5>1. ~kSnapshotViaRest
          BY <1>1, <4>3 DEF DispatchOutcome
        <5>2. Alive(s)' = {}
          BY <2>5, <4>3, <5>1, AliveIsAliveIn, PushedHasNoFetch
        <5>3. connects >= 1
          BY <1>0 DEF IInv, CountInv
        <5>4. Cardinality(Alive(s)') = 0
          BY <5>2, FS_EmptySet
        <5> QED BY <3>3, <5>3, <5>4
      <4> QED BY <1>2, <4>1, <4>2, <4>3
    <3> QED BY <1>0, <2>2, <2>3, <3>1, <3>4, CountsMoved
  <2>9. ComingInv'
    <3> SUFFICES ASSUME ComingHyp, NEW t \in Symbols, sync'[t].state = "Buffering"
                 PROVE  IF kSnapshotViaRest THEN Alive(t)' # {} ELSE PushComing(t)'
      BY DEF ComingInv, BufferingHasSnapshotComing, ComingHyp, PushComing
    <3>1. sync[t].state = "Buffering" =>
            IF kSnapshotViaRest THEN Alive(t) # {} ELSE PushComing(t)
      BY <1>0 DEF IInv, ComingInv, BufferingHasSnapshotComing, PushComing
    <3>2. CASE x.gap /\ t = s
      BY <1>0, <1>4, <2>5, <3>2, SpawnAlive, AliveIsAliveIn
    <3>3. CASE ~(x.gap /\ t = s)
      <4>1. /\ sync[t].state = "Buffering"
            /\ Head(wire).kind # "snapshot" \/ Head(wire).sym # t
        <5>1. CASE t # s
          BY <1>1, <2>3, <5>1
        <5>2. CASE t = s /\ ~x.gap
          <6>1. sync'[s] = x.sync
            BY <2>1, <2>3, <5>2
          <6> QED BY <1>1, <5>2, <6>1 DEF DispatchOutcome, AfterDepth, AfterSnapshot
        <5> QED BY <1>2, <3>3, <5>1, <5>2
      <4>2. CASE kSnapshotViaRest
        <5>1. Alive(t) \subseteq Alive(t)'
          BY <1>0, <1>2, <2>5, SpawnAlive, AliveIsAliveIn
        <5> QED BY <3>1, <4>1, <4>2, <5>1
      <4>3. CASE ~kSnapshotViaRest
        <5>1. PushComing(t)
          BY <3>1, <4>1, <4>3
        <5> QED BY <1>0, <2>2, <4>1, <4>3, <5>1, TailKeepsComing
      <4> QED BY <4>2, <4>3
    <3> QED BY <3>2, <3>3
  <2> QED BY <2>3, <2>4, <2>6, <2>7, <2>8, <2>9 DEF IInv
<1> QED BY <1>3, <1>4

FinishedFetch(f) == [fetch EXCEPT ![f] = [st |-> "finished"]]

\* What FetchResume does when it applies the answer.
LEMMA ResumeIs ==
  ASSUME IInv, KeepsFinalId, NEW f \in FetchSlots, FetchResume(f)
  PROVE  \/ /\ stopping \/ AllowBadBody
            /\ fetch' = FinishedFetch(f) /\ UNCHANGED << sync, book >>
         \/ /\ ~stopping /\ Free(fetch) # {} /\ kSnapshotViaRest
            /\ fetch[f].sym \in Symbols
            /\ \E x : /\ AfterSnapshot(fetch[f].sym, x, FinishedFetch(f))
                      /\ Assign(fetch[f].sym, Resynced(fetch[f].sym, x))
<1> DEFINE s == fetch[f].sym
           x == ExecuteActions(s, OnSnapshot(sync[s], fetch[f].msg), FinishedFetch(f))
<1>1. fetch[f].st = "answered" /\ fetch[f] \in FetchStates
  BY FetchTyped DEF FetchResume
<1>2. kSnapshotViaRest /\ s \in Symbols /\ fetch[f].msg \in Snapshots(s)
  BY <1>1, FetchFields
<1>3. AfterSnapshot(s, x, FinishedFetch(f))
  <2>1. Ready(s)
    BY <1>2, IsReady
  <2> QED BY <1>2, <2>1, SnapshotOutcome
<1>4. \/ /\ stopping \/ AllowBadBody
         /\ fetch' = FinishedFetch(f) /\ UNCHANGED << sync, book >>
      \/ /\ ~stopping /\ Free(fetch) # {}
         /\ Assign(s, Resynced(s, x))
  BY DEF FetchResume, FinishedFetch, Resynced
<1> HIDE DEF x
<1> QED BY <1>2, <1>3, <1>4

LEMMA FinishedIs ==
  ASSUME IInv, NEW f \in FetchSlots, fetch[f].st = "answered"
  PROVE  LET fs == FinishedFetch(f)
             s == fetch[f].sym
         IN  /\ fs \in [FetchSlots -> FetchStates]
             /\ Free(fetch) # {} => Free(fs) # {}
             /\ f \in Alive(s) /\ f \notin AliveIn(fs, s)
             /\ AliveIn(fs, s) \subseteq Alive(s)
             /\ \A t : t # s => AliveIn(fs, t) = Alive(t)
<1> DEFINE fs == FinishedFetch(f)
           s == fetch[f].sym
<1>1. fetch \in [FetchSlots -> FetchStates]
  BY FetchTyped
<1>2. fs[f] = [st |-> "finished"] /\ \A g \in FetchSlots \ {f} : fs[g] = fetch[g]
  BY <1>1 DEF FinishedFetch
<1>3. fs \in [FetchSlots -> FetchStates]
  BY <1>1, FetchStatesAre DEF FinishedFetch
<1> HIDE DEF fs
<1>4. Free(fetch) \subseteq Free(fs)
  BY <1>2 DEF Free
<1>5. AliveState(fetch[f], s) /\ \A t : AliveState(fetch[f], t) => t = s
  BY DEF AliveState
<1>6. \A t : ~AliveState(fs[f], t)
  BY <1>2, FinishedIsNotAlive
<1>7. f \in Alive(s) /\ f \notin AliveIn(fs, s)
  BY <1>5, <1>6, AliveAre DEF AliveIn
<1>8. \A t : AliveIn(fs, t) \subseteq AliveIn(fetch, t)
  BY <1>2, <1>6 DEF AliveIn
<1>9. \A t : t # s => AliveIn(fetch, t) \subseteq AliveIn(fs, t)
  BY <1>2, <1>5 DEF AliveIn
<1>10. \A t : Alive(t) = AliveIn(fetch, t)
  BY AliveIsAliveIn
<1>11. \A t : t # s => AliveIn(fs, t) = Alive(t)
  <2> HIDE DEF s
  <2> QED BY <1>8, <1>9, <1>10
<1>12. AliveIn(fs, s) \subseteq Alive(s)
  <2> HIDE DEF s
  <2> QED BY <1>8, <1>10
<1>13. Free(fetch) # {} => Free(fs) # {}
  BY <1>4
<1> QED BY <1>3, <1>7, <1>11, <1>12, <1>13 DEF fs

LEMMA FetchResumeStep ==
  ASSUME IInv, KeepsFinalId, NEW f \in FetchSlots, FetchResume(f)
  PROVE  IInv'
<1>0. /\ fetch[f].st = "answered"
      /\ UNCHANGED << exchangeVars, phase, stopping, connects >>
  BY DEF FetchResume
<1>1. CASE /\ stopping \/ AllowBadBody
           /\ fetch' = FinishedFetch(f) /\ UNCHANGED << sync, book >>
  BY <1>1, FetchDroppedStep DEF FinishedFetch
<1> DEFINE fs == FinishedFetch(f)
<1>2. ASSUME ~stopping, Free(fetch) # {}, kSnapshotViaRest,
             NEW s \in Symbols, s = fetch[f].sym,
             NEW x, AfterSnapshot(s, x, fs), Assign(s, Resynced(s, x))
      PROVE  IInv'
  <2> DEFINE y == Resynced(s, x)
  <2>1. /\ fs \in [FetchSlots -> FetchStates] /\ Free(fs) # {}
        /\ f \in Alive(s) /\ f \notin AliveIn(fs, s)
        /\ AliveIn(fs, s) \subseteq Alive(s)
        /\ \A t : t # s => AliveIn(fs, t) = Alive(t)
    BY <1>0, <1>2, FinishedIs
  <2> HIDE DEF fs
  <2>2. Settled(s, x, fs) /\ x.gap \in BOOLEAN
    BY <1>2 DEF AfterSnapshot, Settled
  <2>3. /\ Fits(s, y)
        /\ x.gap => y.sync.state = "Buffering" /\ y.fetch = SpawnFetch(fs, s)
        /\ ~x.gap => y = x
    BY <1>2, <2>2, ResyncedFits
  <2>4. Assign(s, y)
    BY <1>2
  <2> HIDE DEF y
  <2>5. /\ SyncInv' /\ ExactInv' /\ UnsyncedInv'
        /\ sync'[s] = y.sync /\ book'[s] = y.book /\ fetch' = y.fetch
        /\ \A t \in Symbols \ {s} : sync'[t] = sync[t] /\ book'[t] = book[t]
    BY <1>0, <1>2, <2>3, <2>4, AssignSync DEF exchangeVars
  <2>6. Grows /\ HistInv'
    BY <1>0, SameHistory DEF IInv, HistInv, exchangeVars
  <2>7. \/ fetch' = fs /\ ~x.gap /\ sync'[s] = x.sync
        \/ fetch' = SpawnFetch(fs, s) /\ x.gap /\ sync'[s].state = "Buffering"
        \/ fetch' = SpawnFetch(fs, s) /\ ~x.gap /\ sync'[s] = x.sync
           /\ x.sync.state = sync[s].state
    BY <1>2, <2>2, <2>3, <2>5 DEF AfterSnapshot
  <2>8. PhaseInv'
    <3>1. fetch' \in [FetchSlots -> FetchStates]
      BY <1>2, <2>1, <2>7, SpawnAlive
    <3>2. fetch' \in [FetchSlots -> FetchStates]'
      BY <2>6, <3>1, FetchStatesGrow DEF FetchSlots
    <3>3. wire' \in Seq(Messages)'
      BY <1>0, <2>6, MessagesGrow DEF IInv, PhaseInv, exchangeVars
    <3>4. phase \notin {"idle", "done"}
      BY <1>0 DEF IInv, PhaseInv, Free
    <3> QED BY <1>0, <3>2, <3>3, <3>4 DEF IInv, PhaseInv, exchangeVars
  <2>9. OfflineInv'
    <3> SUFFICES ASSUME phase # "reading", NEW t \in Symbols
                 PROVE  sync'[t] = InitSync /\ book'[t] = NoBook /\ pushed'[t] = 0
      BY <1>0 DEF OfflineInv
    <3>1. sync[t] = InitSync /\ book[t] = NoBook /\ pushed[t] = 0
      BY DEF IInv, OfflineInv
    <3>2. CASE t = s
      <4>1. sync[s].buffer = << >>
        BY <3>1, <3>2 DEF InitSync
      <4>2. x.sync = sync[s] /\ x.book = book[s] /\ ~x.gap
        BY <1>2, <4>1 DEF AfterSnapshot
      <4> QED BY <1>0, <2>3, <2>5, <3>1, <3>2, <4>2 DEF exchangeVars
    <3>3. CASE t # s
      BY <1>0, <2>5, <3>1, <3>3 DEF exchangeVars
    <3> QED BY <3>2, <3>3
  <2>10. CountInv'
    <3>1. \A t \in Symbols \ {s} : Alive(t)' \subseteq Alive(t)
      BY <1>2, <2>1, <2>7, SpawnAlive, AliveIsAliveIn
    <3> DEFINE A == Alive(s)
               F == AliveIn(fs, s)
               B == Alive(s)'
    <3>2. A \subseteq FetchSlots /\ B \subseteq FetchSlots /\ F \subseteq FetchSlots
          /\ F \subseteq A /\ f \in A /\ f \notin F
      BY <2>1, AliveIsFetch DEF AliveIn
    <3>3. /\ fetch' = fs => B = F
          /\ fetch' = SpawnFetch(fs, s) => \E g : B \subseteq F \cup {g}
      <4>1. B = AliveIn(fetch', s)
        BY AliveIsAliveIn
      <4>2. \E g : AliveIn(SpawnFetch(fs, s), s) \subseteq F \cup {g}
        BY <1>2, <2>1, SpawnAlive
      <4> HIDE DEF B, F
      <4> QED BY <4>1, <4>2 DEF F
    <3>4. Cardinality(A) + (IF sync[s].state = "Live" THEN 1 ELSE 0) <= connects
      BY <1>2 DEF IInv, CountInv, FetchesBounded
    <3>5. connects \in Nat
      BY SessionAssumption DEF IInv, PhaseInv
    <3> HIDE DEF A, B, F
    <3>6. Cardinality(F) + 1 <= Cardinality(A)
          /\ Cardinality(A) \in Nat /\ Cardinality(F) \in Nat
      BY <3>2, FetchSetsCount
    <3>7. fetch' = SpawnFetch(fs, s) =>
            Cardinality(B) \in Nat /\ Cardinality(B) <= Cardinality(F) + 1
      BY <3>2, <3>3, FetchSetsGrow
    <3>8. Cardinality(B) + (IF sync'[s].state = "Live" THEN 1 ELSE 0) <= connects
      <4>1. CASE fetch' = fs
        <5>1. Cardinality(B) = Cardinality(F)
          BY <3>3, <4>1
        <5> QED BY <3>4, <3>5, <3>6, <5>1
      <4>2. CASE fetch' = SpawnFetch(fs, s) /\ sync'[s].state = "Buffering"
        BY <3>4, <3>5, <3>6, <3>7, <4>2
      <4>3. CASE fetch' = SpawnFetch(fs, s) /\ sync'[s].state = sync[s].state
        BY <3>4, <3>5, <3>6, <3>7, <4>3
      <4> QED BY <2>7, <4>1, <4>2, <4>3
    <3>9. Cardinality(Alive(s)') + (IF sync'[s].state = "Live" THEN 1 ELSE 0)
            <= connects
      BY <3>8 DEF B
    <3> QED BY <1>0, <1>2, <2>5, <3>1, <3>9, CountsMoved
  <2>11. ComingInv'
    <3> SUFFICES ASSUME phase = "reading", ComingHyp, NEW t \in Symbols,
                        sync'[t].state = "Buffering"
                 PROVE  Alive(t)' # {}
      BY <1>0, <1>2 DEF ComingInv, BufferingHasSnapshotComing, ComingHyp
    <3>1. CASE t = s
      <4>1. fetch' = SpawnFetch(fs, s)
        BY <1>2, <2>2, <2>3, <2>5, <3>1 DEF AfterSnapshot
      <4> QED BY <1>2, <2>1, <3>1, <4>1, SpawnAlive, AliveIsAliveIn
    <3>2. CASE t # s
      <4>1. sync[t].state = "Buffering"
        BY <2>5, <3>2
      <4>2. Alive(t) # {}
        BY <1>2, <4>1 DEF IInv, ComingInv, BufferingHasSnapshotComing
      <4>3. Alive(t) \subseteq Alive(t)'
        BY <1>2, <2>1, <2>7, <3>2, SpawnAlive, AliveIsAliveIn
      <4> QED BY <4>2, <4>3
    <3> QED BY <3>1, <3>2
  <2> QED BY <2>5, <2>6, <2>8, <2>9, <2>10, <2>11 DEF IInv
<1> QED BY <1>1, <1>2, ResumeIs

\* Every symbol of asks has a fetch of its own, in a slot that was free.
LEMMA SpawnFetchesIs ==
  ASSUME NEW fs \in [FetchSlots -> FetchStates], NEW asks \in SUBSET Symbols,
         Injection(asks, Free(fs)) # {}
  PROVE  \E slot \in [asks -> Free(fs)] :
           /\ SpawnFetches(fs, asks) \in [FetchSlots -> FetchStates]
           /\ \A s \in asks : SpawnFetches(fs, asks)[slot[s]] = NewFetch(s)
           /\ \A f \in FetchSlots : (\A s \in asks : slot[s] # f) =>
                SpawnFetches(fs, asks)[f] = fs[f]
<1> DEFINE slot == CHOOSE g \in Injection(asks, Free(fs)) : TRUE
           of(f) == {s \in asks : slot[s] = f}
           gs == SpawnFetches(fs, asks)
<1>1. slot \in Injection(asks, Free(fs))
  OBVIOUS
<1>2. gs = [f \in FetchSlots |->
              IF of(f) = {} THEN fs[f] ELSE NewFetch(CHOOSE s \in of(f) : TRUE)]
  BY DEF SpawnFetches
<1> HIDE DEF slot
<1>3. slot \in [asks -> Free(fs)]
      /\ \A a, b \in asks : slot[a] = slot[b] => a = b
  BY <1>1 DEF Injection, IsInjective
<1> HIDE DEF gs
<1>4. ASSUME NEW s \in asks PROVE gs[slot[s]] = NewFetch(s)
  <2> DEFINE f == slot[s]
  <2>1. f \in FetchSlots
    BY <1>3 DEF Free
  <2>2. of(f) = {s}
    BY <1>3
  <2>3. (CHOOSE a \in of(f) : TRUE) = s
    BY <2>2
  <2>4. gs[f] = NewFetch(CHOOSE a \in of(f) : TRUE)
    BY <1>2, <2>1, <2>2
  <2> QED BY <2>3, <2>4
<1>5. ASSUME NEW f \in FetchSlots, \A s \in asks : slot[s] # f
      PROVE  gs[f] = fs[f]
  <2>1. of(f) = {}
    BY <1>5
  <2> QED BY <1>2, <2>1
<1>6. \A f \in FetchSlots : gs[f] \in FetchStates
  <2>1. ASSUME NEW f \in FetchSlots PROVE gs[f] \in FetchStates
    <3>1. CASE \A s \in asks : slot[s] # f
      BY <1>5, <3>1
    <3>2. CASE \E s \in asks : slot[s] = f
      <4>1. PICK s \in asks : slot[s] = f
        BY <3>2
      <4> QED BY <1>4, <4>1, NewFetchIs
    <3> QED BY <3>1, <3>2
  <2> QED BY <2>1
<1>7. gs \in [FetchSlots -> FetchStates]
  <2>1. gs = [f \in FetchSlots |-> gs[f]]
    BY <1>2
  <2> QED BY <1>6, <2>1
<1> QED BY <1>3, <1>4, <1>5, <1>7 DEF gs

LEMMA ConnectStep ==
  ASSUME IInv, Connect PROVE IInv'
<1>0. /\ phase = "connecting" /\ ~stopping /\ connects < MaxConnects
      /\ phase' = "reading" /\ connects' = connects + 1
      /\ UNCHANGED << hist, pub, wire, pushed, stopping, book >>
  BY DEF Connect, exchangeVars
<1> DEFINE asked == [InitSync EXCEPT !.snapshot_requested = TRUE]
<1>1. \A s \in Symbols :
        sync[s] = InitSync /\ book[s] = NoBook /\ pushed[s] = 0
  BY <1>0 DEF IInv, OfflineInv
<1>2. OnConnected(InitSync) = [sync |-> asked, actions |-> << RequestSnapshot >>]
  <2>1. InitSync.state = "Buffering" /\ ~InitSync.snapshot_requested
    BY DEF InitSync
  <2> HIDE DEF asked
  <2> QED BY <2>1 DEF OnConnected, asked
<1>3. \A s \in Symbols :
        OnConnected(sync[s]).sync = asked /\ OnConnected(sync[s]).actions # << >>
  <2>1. OnConnected(InitSync).sync = asked
        /\ OnConnected(InitSync).actions = << RequestSnapshot >>
    <3> HIDE DEF asked
    <3> QED BY <1>2
  <2>2. << RequestSnapshot >> # << >>
    OBVIOUS
  <2> HIDE DEF asked
  <2> QED BY <1>1, <2>1, <2>2, Zenon
<1>4. {s \in Symbols : OnConnected(sync[s]).actions # << >>} = Symbols
  BY <1>3
<1>5. /\ Injection(Symbols, Free(fetch)) # {}
      /\ fetch' = SpawnFetches(fetch, Symbols)
      /\ sync' = [s \in Symbols |-> asked]
  BY <1>3, <1>4 DEF Connect
<1>6. asked.state = "Buffering" /\ asked.buffer = << >>
      /\ \A s : asked \in SyncStates(s)
  <2>1. ASSUME NEW s PROVE asked \in SyncStates(s)
    <3>1. << >> \in Seq(Depths(s))
      OBVIOUS
    <3> QED BY <3>1 DEF InitSync, SyncStates
  <2> QED BY <2>1 DEF InitSync
<1> HIDE DEF asked
<1>7. Grows /\ HistInv'
  BY <1>0, SameHistory DEF IInv, HistInv
<1>8. PICK slot \in [Symbols -> Free(fetch)] :
        /\ fetch' \in [FetchSlots -> FetchStates]
        /\ \A s \in Symbols : fetch'[slot[s]] = NewFetch(s)
        /\ \A f \in FetchSlots :
             (\A s \in Symbols : slot[s] # f) => fetch'[f] = fetch[f]
  <2>1. fetch \in [FetchSlots -> FetchStates]
    BY DEF IInv, PhaseInv
  <2>2. Symbols \in SUBSET Symbols
    OBVIOUS
  <2> QED BY <1>5, <2>1, <2>2, SpawnFetchesIs
<1>9. SyncInv'
  <2>1. \A s \in Symbols : sync'[s] \in SyncStates(s)'
    BY <1>5, <1>6, <1>7, SyncStatesGrow
  <2> QED BY <1>0, <1>5, <1>6, <2>1 DEF IInv, SyncInv, Books
<1>10. PhaseInv'
  <2>1. fetch' \in [FetchSlots -> FetchStates]'
    BY <1>7, <1>8, FetchStatesGrow DEF FetchSlots
  <2>2. wire' \in Seq(Messages)'
    BY <1>0, <1>7, MessagesGrow DEF IInv, PhaseInv
  <2>3. connects' \in 0 .. MaxConnects
    BY <1>0, SessionAssumption DEF IInv, PhaseInv
  <2> QED BY <1>0, <2>1, <2>2, <2>3 DEF IInv, PhaseInv
<1>11. OfflineInv' /\ ExactInv' /\ UnsyncedInv'
  BY <1>0, <1>1, <1>5, <1>6
     DEF OfflineInv, ExactInv, UnsyncedInv, UnsyncedBookIsAbsent
<1>12. ASSUME NEW s \in Symbols
       PROVE  /\ Alive(s)' \subseteq Alive(s) \cup {slot[s]}
              /\ kSnapshotViaRest => slot[s] \in Alive(s)'
  <2>1. ASSUME NEW f \in FetchSlots, AliveState(fetch'[f], s)
        PROVE  AliveState(fetch[f], s) \/ f = slot[s]
    <3>1. CASE \A t \in Symbols : slot[t] # f
      BY <1>8, <2>1, <3>1
    <3>2. CASE \E t \in Symbols : slot[t] = f
      <4>1. PICK t \in Symbols : slot[t] = f
        BY <3>2
      <4>2. AliveState(NewFetch(t), s)
        BY <1>8, <2>1, <4>1
      <4>3. t = s
        BY <4>2, NewFetchIs
      <4> QED BY <4>1, <4>3
    <3> QED BY <3>1, <3>2
  <2>2. slot[s] \in FetchSlots
    BY DEF Free
  <2>3. kSnapshotViaRest => AliveState(fetch'[slot[s]], s)
    BY <1>8, NewFetchIs
  <2> QED BY <2>1, <2>2, <2>3, AliveAre
<1>13. CountInv'
  <2>1. ASSUME NEW s \in Symbols
        PROVE  Cardinality(Alive(s)') + (IF sync'[s].state = "Live" THEN 1 ELSE 0)
                 <= connects'
    <3> DEFINE A == Alive(s)
               B == Alive(s)'
    <3>1. A \subseteq FetchSlots /\ B \subseteq FetchSlots
          /\ B \subseteq A \cup {slot[s]}
      BY <1>12, AliveIsFetch
    <3>2. Cardinality(A) + (IF sync[s].state = "Live" THEN 1 ELSE 0) <= connects
      BY DEF IInv, CountInv, FetchesBounded
    <3>3. connects \in Nat
      BY SessionAssumption DEF IInv, PhaseInv
    <3>4. sync[s].state # "Live" /\ sync'[s].state # "Live"
      BY <1>1, <1>5, <1>6 DEF InitSync
    <3> HIDE DEF A, B
    <3>5. Cardinality(B) \in Nat /\ Cardinality(B) <= Cardinality(A) + 1
          /\ Cardinality(A) \in Nat
      BY <3>1, FetchSetsGrow, FetchSetsFinite
    <3>6. Cardinality(B) + (IF sync'[s].state = "Live" THEN 1 ELSE 0) <= connects'
      BY <1>0, <3>2, <3>3, <3>4, <3>5
    <3> QED BY <3>6 DEF B
  <2>2. connects' >= 1
    BY <1>0, SessionAssumption DEF IInv, PhaseInv
  <2> QED BY <2>1, <2>2 DEF CountInv, FetchesBounded
<1>14. ComingInv'
  <2>1. ASSUME NEW s \in Symbols
        PROVE  IF kSnapshotViaRest THEN Alive(s)' # {} ELSE pushed'[s] = 0
    BY <1>0, <1>1, <1>12
  <2> QED BY <2>1 DEF ComingInv, BufferingHasSnapshotComing
<1> QED BY <1>7, <1>9, <1>10, <1>11, <1>13, <1>14 DEF IInv

-----------------------------------------------------------------------------
(* The invariant.                                                          *)

LEMMA InitIInv ==
  ASSUME Init PROVE IInv
<1>1. PICK p \in Price : hist = [s \in Symbols |-> << [px |-> p, id |-> 1] >>]
  BY DEF Init
<1>2. /\ pub = [s \in Symbols |-> 1] /\ wire = << >>
      /\ pushed = [s \in Symbols |-> 0] /\ phase = "idle" /\ stopping = FALSE
      /\ connects = 0 /\ sync = [s \in Symbols |-> InitSync]
      /\ book = [s \in Symbols |-> NoBook]
      /\ fetch = [f \in FetchSlots |-> FreeFetch]
  BY DEF Init
<1> DEFINE e == [px |-> p, id |-> 1]
<1>3. e \in Entries /\ e.id = 1
  BY DEF Entries
<1> HIDE DEF e
<1>4. /\ << e >> \in Seq(Entries) /\ Len(<< e >>) = 1 /\ << e >>[1] = e
      /\ << e >> # << >>
  BY <1>3
<1>5. \A s \in Symbols : hist[s] = << e >>
  BY <1>1 DEF e
<1>6. HistInv
  <2>1. Ledger(<< e >>)
    BY <1>3, <1>4 DEF Ledger
  <2>2. hist \in [Symbols -> Seq(Entries)]
    <3> DEFINE E == Seq(Entries)
    <3>1. hist = [s \in Symbols |-> << e >>] /\ << e >> \in E
      BY <1>1, <1>4 DEF e
    <3> HIDE DEF E
    <3>2. hist \in [Symbols -> E]
      BY <3>1
    <3> QED BY <3>2 DEF E
  <2>3. pub \in [Symbols -> Nat] /\ \A s \in Symbols : pub[s] = 1
    BY <1>2
  <2>4. \A s \in Symbols : Len(hist[s]) = 1 /\ Ledger(hist[s])
    BY <1>4, <1>5, <2>1
  <2>5. MaxChanges \in Nat /\ MaxChanges >= 1 /\ MaxSpan \in Nat
    BY SessionAssumption
  <2>6. ASSUME NEW s \in Symbols
        PROVE  /\ Len(hist[s]) <= MaxChanges
               /\ pub[s] \in 1 .. Len(hist[s])
               /\ Len(hist[s]) - pub[s] <= MaxSpan
    <3>1. Len(hist[s]) = 1 /\ pub[s] = 1
      BY <2>3, <2>4
    <3> QED BY <2>5, <3>1
  <2> QED BY <2>2, <2>3, <2>4, <2>6 DEF HistInv
<1>7. InitSync.state = "Buffering" /\ InitSync.buffer = << >>
  BY DEF InitSync
<1>8. SyncInv
  <2>1. \A s \in Symbols : sync[s] \in SyncStates(s)
    BY <1>2, InitSyncTyped
  <2> QED BY <1>2, <1>7, <2>1 DEF SyncInv, Books
<1>9. PhaseInv
  <2>1. fetch \in [FetchSlots -> FetchStates] /\ Free(fetch) = FetchSlots
    BY <1>2, FetchStatesAre DEF Free, FreeFetch
  <2>2. wire \in Seq(Messages)
    BY <1>2
  <2>3. connects \in 0 .. MaxConnects
    BY <1>2, SessionAssumption
  <2> QED BY <1>2, <2>1, <2>2, <2>3 DEF PhaseInv
<1>10. OfflineInv /\ ExactInv /\ UnsyncedInv
  BY <1>2, <1>7 DEF OfflineInv, ExactInv, UnsyncedInv, UnsyncedBookIsAbsent
<1>11. CountInv
  <2>1. ASSUME NEW s \in Symbols PROVE Alive(s) = {}
    BY <1>2 DEF Alive, FreeFetch
  <2>2. Cardinality({}) = 0
    BY FS_EmptySet
  <2>3. ASSUME NEW s \in Symbols
        PROVE  Cardinality(Alive(s)) + (IF sync[s].state = "Live" THEN 1 ELSE 0)
                 <= connects
    <3>1. Cardinality(Alive(s)) = 0
      BY <2>1, <2>2, Zenon
    <3> QED BY <1>2, <1>7, <3>1
  <2> QED BY <1>2, <2>3 DEF CountInv, FetchesBounded
<1>12. ComingInv
  BY <1>2 DEF ComingInv, BufferingHasSnapshotComing
<1> QED BY <1>6, <1>8, <1>9, <1>10, <1>11, <1>12 DEF IInv

LEMMA NextIInv ==
  ASSUME KeepsFinalId, IInv, [Next]_vars PROVE IInv'
<1>1. CASE UNCHANGED vars
  <2>1. UNCHANGED << exchangeVars, connects, sync, book, fetch, phase, stopping >>
    BY <1>1 DEF vars, sessionVars
  <2>2. Grows
    BY <2>1, SameHistory DEF exchangeVars
  <2>3. PhaseInv'
    BY <2>1, <2>2, PhaseInvKept DEF IInv, PhaseInv, exchangeVars, Free, FetchSlots
  <2> QED BY <2>1, <2>3, PhaseOnly
<1>2. CASE Run
  BY <1>2, StartStep, ConnectStep, ReconnectStep, DispatchStep,
     RunCancelledStep, DrainedStep DEF Run
<1>3. CASE Stop
  BY <1>3, StopStep
<1>4. CASE Disconnect
  BY <1>4, DisconnectStep
<1>5. CASE ReadMalformed
  BY <1>5, ReadMalformedStep
<1>6. CASE Fetches
  BY <1>6, FetchAnswerStep, FetchFailStep, FetchRetryStep, FetchResumeStep,
     FetchCancelledStep, EraseSignalStep DEF Fetches
<1>7. CASE Exchange
  BY <1>7, ChangeStep, PublishStep, PushSnapshotStep DEF Exchange
<1> QED BY <1>1, <1>2, <1>3, <1>4, <1>5, <1>6, <1>7 DEF Next

LEMMA SessionInvariant ==
  ASSUME KeepsFinalId PROVE Spec => []IInv
<1>1. Init => IInv
  BY InitIInv
<1>2. IInv /\ [Next]_vars => IInv'
  BY NextIInv
<1> QED BY <1>1, <1>2, PTL DEF Spec

-----------------------------------------------------------------------------
(* The theorems.                                                           *)

\* Every member of the session keeps its type (venue_session.hpp), for a
\* feed whose parser keeps a message's last identifier.
THEOREM SessionTypeCorrect ==
  ASSUME KeepsFinalId PROVE Spec => []TypeOK
<1>1. IInv => TypeOK
  <2> SUFFICES ASSUME IInv PROVE TypeOK
    OBVIOUS
  <2>1. ASSUME NEW s \in Symbols
        PROVE  /\ sync[s].state \in {"Buffering", "Live"}
               /\ sync[s].snapshot_requested \in BOOLEAN
               /\ sync[s].last_final_id \in Nat
               /\ book[s] \in {NoBook} \cup [Price -> 0 .. MaxChanges]
               /\ pub[s] \in 1 .. Len(hist[s])
    <3> DEFINE D == Seq(Depths(s))
    <3> HIDE DEF D
    <3>1. sync[s] \in [state : {"Buffering", "Live"}, buffer : D,
                       last_final_id : Nat, snapshot_requested : BOOLEAN]
      BY DEF IInv, SyncInv, SyncStates, D
    <3>2. book[s] \in Books
      BY DEF IInv, SyncInv
    <3>3. pub[s] \in 1 .. Len(hist[s])
      BY DEF IInv, HistInv
    <3> QED BY <3>1, <3>2, <3>3 DEF Books
  <2>2. \A f \in FetchSlots :
          fetch[f].st \in {"free", "flying", "backoff", "answered", "finished"}
    BY FetchTyped, FetchFields
  <2> QED BY <2>1, <2>2 DEF TypeOK, IInv, PhaseInv
<1> QED BY <1>1, SessionInvariant, PTL

\* A Live symbol's book is exactly the exchange's book at the update whose
\* identifier the machine holds (symbol_sync.hpp on_snapshot and
\* on_depth_update, executed by VenueSession::execute), for every policy that
\* is sound for the exchange's identifiers and an exchange that does not
\* restart them.
THEOREM LiveBooksAreExact ==
  ASSUME PolicySound, KeepsFinalId, ~AllowReset
  PROVE  Spec => []LiveBookIsExact
<1>1. IInv => LiveBookIsExact
  BY DEF IInv, SyncInv, ExactInv, ExactHyp, At, LiveBookIsExact
<1> QED BY <1>1, SessionInvariant, PTL

\* A symbol that resynchronises contributes nothing to the aggregate, as long
\* as its book rejects no level (invalidate_venue after every gap).
THEOREM UnsyncedBooksAreAbsent ==
  ASSUME KeepsFinalId, ~AllowRejects
  PROVE  Spec => []UnsyncedBookIsAbsent
<1>1. IInv => UnsyncedBookIsAbsent
  BY DEF IInv, UnsyncedInv
<1> QED BY <1>1, SessionInvariant, PTL

\* Without a connection the venue contributes nothing: no fetch that outlives
\* its connection or stop() revives a book (handle_request_snapshot).
THEOREM OfflineBooksAreAbsent ==
  ASSUME KeepsFinalId PROVE Spec => []OfflineBookIsAbsent
<1>1. IInv => OfflineBookIsAbsent
  BY DEF IInv, OfflineInv, OfflineBookIsAbsent
<1> QED BY <1>1, SessionInvariant, PTL

\* A connected symbol that is not Live has a snapshot coming, unless a fetched
\* body does not parse or a pushed message is skipped
\* (handle_request_snapshot's retry, ResyncAfterGap in the dispatchers).
THEOREM SnapshotsAreComing ==
  ASSUME KeepsFinalId, ~AllowBadBody, kSnapshotViaRest \/ ~AllowLoss
  PROVE  Spec => []BufferingHasSnapshotComing
<1>1. IInv => BufferingHasSnapshotComing
  BY DEF IInv, ComingInv, ComingHyp
<1> QED BY <1>1, SessionInvariant, PTL

\* The fetches of a symbol never outnumber the connections made so far,
\* whatever gaps, retries and reconnects happen (handle_request_snapshot is
\* not deduplicated).
THEOREM FetchesAreBounded ==
  ASSUME KeepsFinalId PROVE Spec => []FetchesBounded
<1>1. IInv => FetchesBounded
  BY DEF IInv, CountInv
<1> QED BY <1>1, SessionInvariant, PTL

\* on_done fires only after the last fetch coroutine is gone, and none starts
\* afterwards (drain_pending_snapshots).
THEOREM DoneSessionsAreDrained ==
  ASSUME KeepsFinalId PROVE Spec => []DoneIsDrained
<1>1. IInv => DoneIsDrained
  BY DEF IInv, PhaseInv, DoneIsDrained
<1> QED BY <1>1, SessionInvariant, PTL

-----------------------------------------------------------------------------
(* A Live book never goes back.                                            *)

Advances(s) ==
  sync[s].state = "Live" /\ sync'[s].state = "Live" =>
    \A p \in Price : book'[s][p] >= book[s][p]

LEMMA SameBookAdvances ==
  ASSUME IInv, ExactHyp, NEW s \in Symbols, book'[s] = book[s]
  PROVE  Advances(s)
<1> SUFFICES ASSUME sync[s].state = "Live", NEW p \in Price
             PROVE  book[s][p] >= book[s][p]
  BY DEF Advances
<1>1. PICK c \in 1 .. Len(hist[s]) : book[s] = BookAt(s, c)
  BY DEF IInv, ExactInv, At
<1>2. c \in 0 .. Len(hist[s]) /\ MaxChanges \in Nat
  BY SessionAssumption DEF IInv, HistInv
<1>3. BookAt(s, c) \in [Price -> 0 .. MaxChanges]
  BY <1>2, BookAtTyped DEF IInv
<1> QED BY <1>1, <1>2, <1>3

LEMMA ResetAdvances ==
  ASSUME NEW next, InvalidateAll(next), NEW s \in Symbols
  PROVE  Advances(s)
  BY DEF InvalidateAll, OnDisconnected, InitSync, Advances

LEMMA DispatchAdvances ==
  ASSUME IInv, ExactHyp, kSnapshotViaRest, Dispatch, NEW t \in Symbols
  PROVE  Advances(t)
<1>1. KeepsFinalId
  BY DEF ExactHyp
<1>a. PICK m \in Messages, s \in Symbols : \E x :
           /\ m = Head(wire) /\ s = m.sym /\ DispatchOutcome(s, m, x)
           /\ IF x.gap /\ ~kSnapshotViaRest
                THEN InvalidateAll("backoff") /\ fetch' = x.fetch
                ELSE /\ Assign(s, Resynced(s, x))
                     /\ wire' = Tail(wire) /\ UNCHANGED << phase, pushed >>
  BY <1>1, DispatchIs DEF Resynced
<1>2. PICK x :
           /\ m = Head(wire) /\ s = m.sym /\ DispatchOutcome(s, m, x)
           /\ IF x.gap /\ ~kSnapshotViaRest
                THEN InvalidateAll("backoff") /\ fetch' = x.fetch
                ELSE /\ Assign(s, Resynced(s, x))
                     /\ wire' = Tail(wire) /\ UNCHANGED << phase, pushed >>
  BY <1>a
<1>3. Assign(s, Resynced(s, x)) /\ AfterDepth(s, x, fetch)
  BY <1>2 DEF DispatchOutcome
<1>4. Settled(s, x, fetch) /\ x.gap \in BOOLEAN
  BY <1>3 DEF AfterDepth, Settled
<1> DEFINE y == Resynced(s, x)
<1>5. /\ Fits(s, y) /\ (x.gap => y.sync.state = "Buffering") /\ (~x.gap => y = x)
  BY <1>1, <1>4, ResyncedFits
<1> HIDE DEF y
<1>6. /\ sync'[s] = y.sync /\ book'[s] = y.book
      /\ \A u \in Symbols \ {s} : book'[u] = book[u]
  <2>1. Assign(s, y) /\ UNCHANGED hist
    BY <1>3 DEF y, Dispatch
  <2> QED BY <1>5, <2>1, AssignSync
<1>7. CASE t # s
  BY <1>6, <1>7, SameBookAdvances
<1>8. CASE t = s
  <2>1. NeverOlder(s, x)
    BY <1>1, <1>3, IsReady DEF AfterDepth
  <2> QED BY <1>4, <1>5, <1>6, <1>8, <2>1 DEF NeverOlder, Advances
<1> QED BY <1>7, <1>8

LEMMA ResumeAdvances ==
  ASSUME IInv, ExactHyp, NEW f \in FetchSlots, FetchResume(f), NEW t \in Symbols
  PROVE  Advances(t)
<1>1. KeepsFinalId
  BY DEF ExactHyp
<1>2. CASE UNCHANGED << sync, book >>
  BY <1>2, SameBookAdvances
<1>3. ASSUME kSnapshotViaRest, NEW s \in Symbols, NEW x, NEW fs,
             AfterSnapshot(s, x, fs), Assign(s, Resynced(s, x))
      PROVE  Advances(t)
  <2> DEFINE y == Resynced(s, x)
  <2>1. Settled(s, x, fs)
    BY <1>3 DEF AfterSnapshot
  <2>2. Fits(s, y) /\ (~x.gap => y = x)
    BY <1>1, <2>1, ResyncedFits
  <2> HIDE DEF y
  <2>3. /\ sync'[s] = y.sync /\ book'[s] = y.book
        /\ \A u \in Symbols \ {s} : book'[u] = book[u]
    <3>1. Assign(s, y) /\ UNCHANGED hist
      BY <1>3 DEF y, FetchResume, exchangeVars
    <3> QED BY <2>2, <3>1, AssignSync
  <2>4. CASE sync[s].state = "Live"
    <3>1. sync[s].buffer = << >>
      BY <2>4 DEF IInv, SyncInv
    <3>2. book'[s] = book[s]
      BY <1>3, <2>2, <2>3, <3>1 DEF AfterSnapshot
    <3> QED BY <2>3, <3>2, SameBookAdvances
  <2>5. CASE sync[s].state # "Live"
    <3>1. CASE t = s
      BY <2>5, <3>1 DEF Advances
    <3>2. CASE t # s
      BY <2>3, <3>2, SameBookAdvances
    <3> QED BY <3>1, <3>2
  <2> QED BY <2>4, <2>5
<1> QED BY <1>1, <1>2, <1>3, ResumeIs

\* A Live book never returns to an older state of any level: a late or
\* duplicated REST snapshot does not overwrite newer updates
\* (SymbolSync::on_snapshot while Live), under the hypotheses of
\* LiveBooksAreExact, for a venue that fetches its snapshots.
THEOREM LiveBooksNeverRewind ==
  ASSUME PolicySound, KeepsFinalId, ~AllowReset, kSnapshotViaRest
  PROVE  Spec => LiveBookNeverRewinds
<1> DEFINE Step == \A s \in Symbols : Advances(s)
<1>1. IInv /\ [Next]_vars => [Step]_vars
  <2> SUFFICES ASSUME IInv, Next, NEW s \in Symbols PROVE Advances(s)
    OBVIOUS
  <2>1. ExactHyp
    BY DEF ExactHyp
  <2>2. CASE Dispatch
    BY <2>1, <2>2, DispatchAdvances
  <2>3. CASE Disconnect \/ RunCancelled
    <3>1. CASE \E next : InvalidateAll(next)
      BY <3>1, ResetAdvances
    <3>2. CASE UNCHANGED << sync, book >>
      BY <2>1, <3>2, SameBookAdvances
    <3> QED BY <2>3, <3>1, <3>2 DEF Disconnect, RunCancelled
  <2>4. CASE Start \/ Connect \/ Reconnect \/ Drained \/ Stop
    <3>1. UNCHANGED book
      BY <2>4 DEF Start, Connect, Reconnect, Drained, Stop
    <3> QED BY <2>1, <3>1, SameBookAdvances
  <2>5. CASE ReadMalformed \/ Exchange
    <3>1. UNCHANGED book
      BY <2>5 DEF ReadMalformed, Exchange, Change, Publish, PushSnapshot, sessionVars
    <3> QED BY <2>1, <3>1, SameBookAdvances
  <2>6. CASE Fetches
    <3>1. PICK f \in FetchSlots :
            FetchAnswer(f) \/ FetchFail(f) \/ FetchRetry(f) \/ FetchResume(f)
              \/ FetchCancelled(f) \/ EraseSignal(f)
      BY <2>6 DEF Fetches
    <3>2. CASE FetchResume(f)
      BY <2>1, <3>2, ResumeAdvances
    <3>3. CASE ~FetchResume(f)
      <4>1. UNCHANGED book
        BY <3>1, <3>3
           DEF FetchAnswer, FetchFail, FetchRetry, FetchCancelled, EraseSignal
      <4> QED BY <2>1, <4>1, SameBookAdvances
    <3> QED BY <3>2, <3>3
  <2> QED BY <2>2, <2>3, <2>4, <2>5, <2>6 DEF Next, Run
<1>2. Spec => [][Step]_vars
  BY <1>1, SessionInvariant, PTL DEF Spec
<1> QED BY <1>2 DEF LiveBookNeverRewinds, Advances

-----------------------------------------------------------------------------
(* The four venues' policies are sound.                                    *)

\* Identifiers grow with every change.
LEMMA LedgerIncreases ==
  ASSUME NEW h, Ledger(h)
  PROVE  /\ Len(h) \in Nat
         /\ \A i \in 1 .. Len(h) : h[i].id \in Nat
         /\ \A i, j \in 1 .. Len(h) : i < j => h[i].id < h[j].id
<1>1. h \in Seq(Entries) /\ Len(h) \in Nat
  BY DEF Ledger
<1>2. \A i \in 1 .. Len(h) : h[i].id \in Nat
  <2>1. \A i \in 1 .. Len(h) : h[i] \in Entries
    BY <1>1
  <2> QED BY <2>1 DEF Entries
<1>3. \A i \in 1 .. Len(h) - 1 : h[i].id < h[i + 1].id
  <2>1. ASSUME NEW i \in 1 .. Len(h) - 1 PROVE h[i].id < h[i + 1].id
    <3>1. PICK k \in IdSteps : h[i + 1].id = h[i].id + k
      BY DEF Ledger
    <3>2. k \in Nat /\ k > 0 /\ i \in 1 .. Len(h)
      BY <1>1, SessionAssumption
    <3> QED BY <1>2, <3>1, <3>2
  <2> QED BY <2>1
<1> DEFINE Below(j) == \A i \in 1 .. Len(h) : i < j => h[i].id < h[j].id
           S == {j \in Nat : j \in 1 .. Len(h) => Below(j)}
<1>4. 0 \in S
  OBVIOUS
<1>5. ASSUME NEW j \in Nat, j \in S PROVE j + 1 \in S
  <2> SUFFICES ASSUME j + 1 \in 1 .. Len(h), NEW i \in 1 .. Len(h), i < j + 1
               PROVE  h[i].id < h[j + 1].id
    OBVIOUS
  <2>1. j # 0 /\ j \in 1 .. Len(h) - 1 /\ j \in 1 .. Len(h)
    BY <1>1
  <2>2. h[j].id < h[j + 1].id /\ h[j].id \in Nat /\ h[j + 1].id \in Nat
        /\ h[i].id \in Nat
    BY <1>2, <1>3, <2>1
  <2>3. CASE i = j
    BY <2>2, <2>3
  <2>4. CASE i # j
    <3>1. h[i].id < h[j].id
      BY <1>5, <2>1, <2>4
    <3> QED BY <2>2, <3>1
  <2> QED BY <2>3, <2>4
<1>6. Nat \subseteq S
  <2> HIDE DEF S
  <2> QED BY <1>4, <1>5, SetInduction
<1>7. ASSUME NEW i \in 1 .. Len(h), NEW j \in 1 .. Len(h), i < j
      PROVE  h[i].id < h[j].id
  <2>1. j \in S
    BY <1>6
  <2> QED BY <1>7, <2>1
<1> QED BY <1>1, <1>2, <1>7

\* The identifiers of a message, and how they compare with that of change c.
SpanFacts(h, lo, hi, c) ==
  /\ lo \in Nat /\ hi \in Nat /\ c \in Nat /\ lo <= hi
  /\ {h[Min({lo + 1, hi})].id, h[hi].id, h[lo].id, h[c].id} \subseteq Nat
  /\ h[Min({lo + 1, hi})].id <= h[hi].id
  /\ h[lo].id = h[c].id => lo = c
  /\ h[Min({lo + 1, hi})].id <= h[c].id => lo <= c
  /\ h[c].id <= h[hi].id => c <= hi
  /\ ~AllowHeartbeat /\ h[Min({lo + 1, hi})].id <= h[c].id + 1 => lo <= c
  /\ ~AllowHeartbeat /\ MaxSpan = 1 /\ h[hi].id = h[c].id + 1 => lo = c

LEMMA SpanIds ==
  ASSUME NEW h, Ledger(h), NEW lo \in 1 .. Len(h), NEW hi \in 1 .. Len(h),
         NEW c \in 1 .. Len(h), IsSpan(lo, hi)
  PROVE  SpanFacts(h, lo, hi, c)
<1> DEFINE k == Min({lo + 1, hi})
<1>1. /\ Len(h) \in Nat
      /\ \A i \in 1 .. Len(h) : h[i].id \in Nat
      /\ \A i, j \in 1 .. Len(h) : i < j => h[i].id < h[j].id
  BY LedgerIncreases
<1>2. lo \in Nat /\ hi \in Nat /\ c \in Nat /\ lo <= hi
  BY <1>1 DEF IsSpan
<1>3. k \in {lo + 1, hi} /\ k <= lo + 1 /\ k <= hi
  <2>1. {lo + 1, hi} \subseteq Nat
    BY <1>2
  <2> QED BY <2>1, MinOfNats
<1> HIDE DEF k
<1>4. k \in 1 .. Len(h) /\ lo <= k /\ (~AllowHeartbeat => k = lo + 1)
  <2>1. ~AllowHeartbeat => lo < hi
    BY <1>2 DEF IsSpan
  <2> QED BY <1>1, <1>2, <1>3, <2>1
<1>5. h[k].id \in Nat /\ h[hi].id \in Nat /\ h[lo].id \in Nat /\ h[c].id \in Nat
  BY <1>1, <1>4
<1>6. h[lo].id = h[c].id => lo = c
  BY <1>1, <1>2, <1>5
<1>7. h[k].id <= h[c].id => lo <= c
  BY <1>1, <1>2, <1>4, <1>5
<1>8. h[c].id <= h[hi].id => c <= hi
  BY <1>1, <1>2, <1>5
<1>9. ASSUME ~AllowHeartbeat, h[k].id <= h[c].id + 1 PROVE lo <= c
  <2>1. k = lo + 1 /\ lo < k
    BY <1>2, <1>4, <1>9
  <2>2. h[lo].id < h[k].id
    BY <1>1, <1>4, <2>1
  <2>3. c < lo => h[c].id < h[lo].id
    BY <1>1
  <2> QED BY <1>2, <1>5, <1>9, <2>2, <2>3
<1>10. ASSUME ~AllowHeartbeat, MaxSpan = 1, h[hi].id = h[c].id + 1 PROVE lo = c
  <2>1. hi = lo + 1
    BY <1>2, <1>10 DEF IsSpan
  <2>2. h[lo].id < h[hi].id
    BY <1>1, <1>2, <2>1
  <2>3. c < lo => h[c].id < h[lo].id
    BY <1>1
  <2>4. c > hi => h[hi].id < h[c].id
    BY <1>1
  <2>5. c # hi
    BY <1>5, <1>10
  <2> QED BY <1>2, <1>5, <1>10, <2>1, <2>2, <2>3, <2>4, <2>5
<1>11. h[k].id <= h[hi].id
  <2>1. k < hi => h[k].id < h[hi].id
    BY <1>1, <1>4
  <2> QED BY <1>2, <1>3, <1>4, <1>5, <2>1
<1> QED
  BY <1>2, <1>5, <1>6, <1>7, <1>8, <1>9, <1>10, <1>11 DEF SpanFacts, k

\* The session is one of a Binance USD-M futures, Binance spot, Bybit or OKX
\* feed: its constant operators are those of module Venues.
IsFutures ==
  /\ \A e, n : IsContiguous(e, n) <=> FuturesIsContiguous(e, n)
  /\ \A e, sn : BridgesSnapshot(e, sn) <=> FuturesBridgesSnapshot(e, sn)
  /\ \A e, sn : ShouldDropBuffered(e, sn) <=> FuturesShouldDropBuffered(e, sn)
  /\ \A U, u, pu : ParseIds(U, u, pu) = FuturesParseIds(U, u, pu)

IsSpot ==
  /\ \A e, n : IsContiguous(e, n) <=> SpotIsContiguous(e, n)
  /\ \A e, sn : BridgesSnapshot(e, sn) <=> SpotBridgesSnapshot(e, sn)
  /\ \A e, sn : ShouldDropBuffered(e, sn) <=> SpotShouldDropBuffered(e, sn)
  /\ \A U, u, pu : ParseIds(U, u, pu) = SpotParseIds(U, u, pu)

IsBybit ==
  /\ \A e, n : IsContiguous(e, n) <=> BybitIsContiguous(e, n)
  /\ \A e, sn : BridgesSnapshot(e, sn) <=> BybitBridgesSnapshot(e, sn)
  /\ \A e, sn : ShouldDropBuffered(e, sn) <=> BybitShouldDropBuffered(e, sn)
  /\ \A U, u, pu : ParseIds(U, u, pu) = BybitParseIds(U, u, pu)

IsOkx ==
  /\ \A e, n : IsContiguous(e, n) <=> OkxIsContiguous(e, n)
  /\ \A e, sn : BridgesSnapshot(e, sn) <=> OkxBridgesSnapshot(e, sn)
  /\ \A e, sn : ShouldDropBuffered(e, sn) <=> OkxShouldDropBuffered(e, sn)
  /\ \A U, u, pu : ParseIds(U, u, pu) = OkxParseIds(U, u, pu)

LEMMA FuturesSound ==
  ASSUME IsFutures PROVE PolicySound /\ KeepsFinalId
<1>1. KeepsFinalId
  BY DEF IsFutures, FuturesParseIds, KeepsFinalId
<1>2. ASSUME NEW h, Ledger(h), NEW lo \in 1 .. Len(h), NEW hi \in 1 .. Len(h),
             NEW c \in 1 .. Len(h), IsSpan(lo, hi), NEW e, Carries(e, h, lo, hi)
      PROVE  /\ IsContiguous(e, h[c].id) => lo <= c /\ c <= hi
             /\ \A sn : sn.last_update_id = h[c].id /\ BridgesSnapshot(e, sn)
                         => lo <= c /\ c <= hi
  <2>1. /\ e.first_id = h[Min({lo + 1, hi})].id
        /\ e.final_id = h[hi].id /\ e.prev_final_id = h[lo].id
    BY <1>2 DEF Carries, IsFutures, FuturesParseIds
  <2>2. SpanFacts(h, lo, hi, c)
    BY <1>2, SpanIds
  <2> QED
    BY <2>1, <2>2
       DEF SpanFacts, IsFutures, FuturesIsContiguous, FuturesBridgesSnapshot
<1> QED BY <1>1, <1>2 DEF PolicySound

LEMMA SpotSound ==
  ASSUME IsSpot, ~AllowHeartbeat PROVE PolicySound /\ KeepsFinalId
<1>1. KeepsFinalId
  BY DEF IsSpot, SpotParseIds, KeepsFinalId
<1>2. ASSUME NEW h, Ledger(h), NEW lo \in 1 .. Len(h), NEW hi \in 1 .. Len(h),
             NEW c \in 1 .. Len(h), IsSpan(lo, hi), NEW e, Carries(e, h, lo, hi)
      PROVE  /\ IsContiguous(e, h[c].id) => lo <= c /\ c <= hi
             /\ \A sn : sn.last_update_id = h[c].id /\ BridgesSnapshot(e, sn)
                         => lo <= c /\ c <= hi
  <2>1. e.first_id = h[Min({lo + 1, hi})].id /\ e.final_id = h[hi].id
    BY <1>2 DEF Carries, IsSpot, SpotParseIds
  <2>2. SpanFacts(h, lo, hi, c)
    BY <1>2, SpanIds
  <2> QED
    BY <2>1, <2>2 DEF SpanFacts, IsSpot, SpotIsContiguous, SpotBridgesSnapshot
<1> QED BY <1>1, <1>2 DEF PolicySound

LEMMA BybitSound ==
  ASSUME IsBybit, ~AllowHeartbeat, MaxSpan = 1 PROVE PolicySound /\ KeepsFinalId
<1>1. KeepsFinalId
  BY DEF IsBybit, BybitParseIds, KeepsFinalId
<1>2. ASSUME NEW h, Ledger(h), NEW lo \in 1 .. Len(h), NEW hi \in 1 .. Len(h),
             NEW c \in 1 .. Len(h), IsSpan(lo, hi), NEW e, Carries(e, h, lo, hi)
      PROVE  /\ IsContiguous(e, h[c].id) => lo <= c /\ c <= hi
             /\ \A sn : sn.last_update_id = h[c].id /\ BridgesSnapshot(e, sn)
                         => lo <= c /\ c <= hi
  <2>1. e.final_id = h[hi].id
    BY <1>2 DEF Carries, IsBybit, BybitParseIds
  <2>2. SpanFacts(h, lo, hi, c)
    BY <1>2, SpanIds
  <2> QED
    BY <2>1, <2>2 DEF SpanFacts, IsBybit, BybitIsContiguous, BybitBridgesSnapshot
<1> QED BY <1>1, <1>2 DEF PolicySound

LEMMA OkxSound ==
  ASSUME IsOkx PROVE PolicySound /\ KeepsFinalId
<1>1. KeepsFinalId
  BY DEF IsOkx, OkxParseIds, KeepsFinalId
<1>2. ASSUME NEW h, Ledger(h), NEW lo \in 1 .. Len(h), NEW hi \in 1 .. Len(h),
             NEW c \in 1 .. Len(h), IsSpan(lo, hi), NEW e, Carries(e, h, lo, hi)
      PROVE  /\ IsContiguous(e, h[c].id) => lo <= c /\ c <= hi
             /\ \A sn : sn.last_update_id = h[c].id /\ BridgesSnapshot(e, sn)
                         => lo <= c /\ c <= hi
  <2>1. e.prev_final_id = h[lo].id
    BY <1>2 DEF Carries, IsOkx, OkxParseIds
  <2>2. SpanFacts(h, lo, hi, c)
    BY <1>2, SpanIds
  <2> QED
    BY <2>1, <2>2 DEF SpanFacts, IsOkx, OkxIsContiguous, OkxBridgesSnapshot
<1> QED BY <1>1, <1>2 DEF PolicySound

\* The venues the server talks to, with what their books rely on: Binance
\* spot and Bybit send no update without a change, and a Bybit message is one
\* identifier.
KnownVenue ==
  \/ IsFutures
  \/ IsSpot /\ ~AllowHeartbeat
  \/ IsBybit /\ ~AllowHeartbeat /\ MaxSpan = 1
  \/ IsOkx

\* Each venue's sequence policy (symbol_sync policies of the four feeds)
\* keeps a Live book exact, however its identifiers skip, as long as the
\* exchange does not restart them.
THEOREM VenueBooksAreExact ==
  ASSUME KnownVenue, ~AllowReset
  PROVE  Spec => []LiveBookIsExact
<1>1. PolicySound /\ KeepsFinalId
  BY FuturesSound, SpotSound, BybitSound, OkxSound DEF KnownVenue
<1> QED BY <1>1, LiveBooksAreExact

-----------------------------------------------------------------------------
(* A connection that delivers every message in order.                      *)

\* Reading m takes a reader of s from the book after change a to the one
\* after change b, where 0 is no book yet.
Moves(s, m, a, b) ==
  \/ m.sym # s /\ b = a
  \/ /\ a \in 1 .. b /\ b \in 1 .. Len(hist[s])
     /\ \E v \in Validity : m = DepthUpdate(s, a, b, v)
  \/ /\ a \in {0, b} /\ b \in 1 .. Len(hist[s])
     /\ \E v \in Validity : m = SnapshotMessage(s, b, v)

\* The machine of s is where a reader that has seen c changes is.
Stands(s, c) ==
  /\ sync[s].buffer = << >>
  /\ IF sync[s].state = "Live"
       THEN /\ c \in 1 .. Len(hist[s])
            /\ hist[s][c].id = sync[s].last_final_id /\ book[s] = BookAt(s, c)
       ELSE c = 0

\* at[i] is where the first i messages on the wire lead: from where the
\* machine stands to what the exchange has published.
Leads(s, at) ==
  /\ at \in [Nat -> Nat]
  /\ Stands(s, at[0])
  /\ \A i \in 1 .. Len(wire) : Moves(s, wire[i], at[i - 1], at[i])
  /\ at[Len(wire)] = IF pushed[s] = 0 THEN 0 ELSE pub[s]

OrderInv ==
  IF phase = "reading" THEN \A s \in Symbols : \E at : Leads(s, at)
                       ELSE wire = << >>

OrderHyp == KeepsFinalId /\ InOrder /\ ~AllowLoss /\ ~kSnapshotViaRest

\* What is on the wire and in the machine means the same in a longer history.
LEMMA MovesKept ==
  ASSUME Extends, HistInv, HistInv', NEW s \in Symbols, NEW m, NEW a, NEW b,
         Moves(s, m, a, b)
  PROVE  Moves(s, m, a, b)'
<1>1. Len(hist[s]) \in Nat /\ Len(hist'[s]) \in Nat /\ Len(hist[s]) <= Len(hist'[s])
  BY DEF Extends, HistInv
<1>2. \A i \in 1 .. Len(hist[s]) : i \in 1 .. Len(hist'[s])
  BY <1>1
<1>3. CASE m.sym # s /\ b = a
  BY <1>3 DEF Moves
<1>4. CASE /\ a \in 1 .. b /\ b \in 1 .. Len(hist[s])
           /\ \E v \in Validity : m = DepthUpdate(s, a, b, v)
  <2>1. PICK v \in Validity : m = DepthUpdate(s, a, b, v)
    BY <1>4
  <2>2. m = DepthUpdate(s, a, b, v)'
    BY <1>4, <2>1, SameMessages
  <2> QED BY <1>2, <1>4, <2>2 DEF Moves
<1>5. CASE /\ a \in {0, b} /\ b \in 1 .. Len(hist[s])
           /\ \E v \in Validity : m = SnapshotMessage(s, b, v)
  <2>1. PICK v \in Validity : m = SnapshotMessage(s, b, v)
    BY <1>5
  <2>2. m = SnapshotMessage(s, b, v)'
    BY <1>5, <2>1, SameMessages
  <2> QED BY <1>2, <1>5, <2>2 DEF Moves
<1> QED BY <1>3, <1>4, <1>5 DEF Moves

LEMMA StandsKept ==
  ASSUME Extends, HistInv, HistInv', NEW s \in Symbols, NEW c, Stands(s, c),
         sync'[s] = sync[s], book'[s] = book[s]
  PROVE  Stands(s, c)'
<1>1. CASE sync[s].state = "Live"
  <2>1. c \in 1 .. Len(hist[s]) /\ hist[s][c].id = sync[s].last_final_id
        /\ book[s] = BookAt(s, c) /\ sync[s].buffer = << >>
    BY <1>1 DEF Stands
  <2>2. hist'[s][c] = hist[s][c] /\ c \in 1 .. Len(hist'[s])
    BY <2>1 DEF Extends, HistInv
  <2>3. BookAt(s, c)' = BookAt(s, c)
    BY <2>1, SameMessages
  <2> QED BY <1>1, <2>1, <2>2, <2>3 DEF Stands
<1>2. CASE sync[s].state # "Live"
  BY <1>2 DEF Stands
<1> QED BY <1>1, <1>2

LEMMA SameExtends ==
  ASSUME UNCHANGED hist, HistInv PROVE Extends
<1>1. \A s \in Symbols : Len(hist[s]) \in Nat
  BY DEF HistInv
<1> QED BY <1>1 DEF Extends

\* A step that touches neither the connection nor a machine.
LEMMA QuietOrder ==
  ASSUME OrderInv, HistInv, HistInv', Extends,
         UNCHANGED << wire, pushed, pub, sync, book >>,
         phase' = "reading" <=> phase = "reading"
  PROVE  OrderInv'
<1>1. CASE phase # "reading"
  BY <1>1 DEF OrderInv
<1>2. CASE phase = "reading"
  <2>1. ASSUME NEW s \in Symbols PROVE \E at : Leads(s, at)'
    <3>1. PICK at : Leads(s, at)
      BY <1>2 DEF OrderInv
    <3>2. Stands(s, at[0])'
      BY <3>1, StandsKept DEF Leads
    <3>3. \A i \in 1 .. Len(wire) : Moves(s, wire[i], at[i - 1], at[i])
      BY <3>1 DEF Leads
    <3>4. \A i \in 1 .. Len(wire') : Moves(s, wire[i], at[i - 1], at[i])'
      <4> SUFFICES ASSUME NEW i \in 1 .. Len(wire')
                   PROVE  Moves(s, wire[i], at[i - 1], at[i])'
        OBVIOUS
      <4>1. PICK m : m = wire[i]
        OBVIOUS
      <4>2. Moves(s, m, at[i - 1], at[i])'
        BY <3>3, <4>1, MovesKept
      <4> QED BY <4>1, <4>2 DEF Moves
    <3>5. Leads(s, at)'
      BY <3>1, <3>2, <3>4 DEF Leads
    <3> QED BY <3>5
  <2> QED BY <1>2, <2>1 DEF OrderInv
<1> QED BY <1>1, <1>2

\* The same for a message that has another place on the wire.
LEMMA MovesAt ==
  ASSUME Extends, HistInv, HistInv', NEW s \in Symbols, NEW i, NEW j,
         NEW a, NEW b, wire'[j] = wire[i], Moves(s, wire[i], a, b)
  PROVE  Moves(s, wire[j], a, b)'
<1>1. PICK m : m = wire[i]
  OBVIOUS
<1>2. Moves(s, m, a, b)'
  BY <1>1, MovesKept
<1> QED BY <1>1, <1>2 DEF Moves

\* A message is added to the wire.
LEMMA AppendLeads ==
  ASSUME IInv, HistInv', UNCHANGED << hist, sync, book >>,
         NEW m \in Messages, wire' = Append(wire, m),
         NEW s \in Symbols, NEW at, Leads(s, at), NEW b \in Nat,
         Moves(s, m, at[Len(wire)], b),
         b = IF pushed'[s] = 0 THEN 0 ELSE pub'[s]
  PROVE  \E new : Leads(s, new)'
<1>0. PICK n : n = Len(wire)
  OBVIOUS
<1> DEFINE new == [at EXCEPT ![n + 1] = b]
<1>1. /\ Len(wire') = n + 1 /\ n \in Nat
      /\ \A i \in 1 .. n : wire'[i] = wire[i]
      /\ wire'[n + 1] = m
  BY <1>0, WireGrows
<1>2. HistInv /\ Extends
  BY SameExtends DEF IInv
<1>3. at \in [Nat -> Nat]
  BY DEF Leads
<1>4. /\ new \in [Nat -> Nat] /\ new[n + 1] = b
      /\ \A i \in 0 .. n : new[i] = at[i]
  BY <1>1, <1>3
<1> HIDE DEF new
<1>5. Stands(s, new[0])'
  <2>1. new[0] = at[0]
    BY <1>1, <1>4
  <2> QED BY <1>2, <2>1, StandsKept DEF Leads
<1>6. ASSUME NEW i \in 1 .. n + 1
      PROVE  Moves(s, wire[i], new[i - 1], new[i])'
  <2>1. CASE i \in 1 .. n
    <3>0. i - 1 \in 0 .. n /\ i \in 0 .. n
      BY <1>1, <2>1
    <3>1. new[i - 1] = at[i - 1] /\ new[i] = at[i] /\ wire'[i] = wire[i]
      BY <1>1, <1>4, <2>1, <3>0
    <3>2. Moves(s, wire[i], at[i - 1], at[i])
      BY <1>0, <2>1 DEF Leads
    <3> QED BY <1>2, <3>1, <3>2, MovesAt
  <2>2. CASE i = n + 1
    <3>1. new[i - 1] = at[n] /\ new[i] = b /\ wire'[i] = m
      BY <1>1, <1>4, <2>2
    <3>2. Moves(s, m, at[n], b)'
      BY <1>0, <1>2, MovesKept
    <3> QED BY <3>1, <3>2 DEF Moves
  <2> QED BY <1>1, <2>1, <2>2
<1>7. Leads(s, new)'
  BY <1>1, <1>4, <1>5, <1>6 DEF Leads
<1> QED BY <1>7

\* The head of the wire is read.
LEMMA TailLeads ==
  ASSUME IInv, HistInv', UNCHANGED << hist, pub, pushed >>,
         wire # << >>, wire' = Tail(wire),
         NEW s \in Symbols, NEW at, Leads(s, at), Stands(s, at[1])'
  PROVE  \E new : Leads(s, new)'
<1> DEFINE n == Len(wire)
           new == [i \in Nat |-> at[i + 1]]
<1>1. /\ n \in Nat /\ n >= 1 /\ Len(wire') = n - 1
      /\ \A i \in 1 .. n - 1 : wire'[i] = wire[i + 1]
  <2> DEFINE M == Messages
  <2>1. wire \in Seq(M)
    BY DEF IInv, PhaseInv
  <2> HIDE DEF M
  <2>2. /\ Len(wire) \in Nat /\ Len(wire) # 0 /\ Len(Tail(wire)) = Len(wire) - 1
        /\ \A i \in 1 .. Len(wire) - 1 : Tail(wire)[i] = wire[i + 1]
    BY <2>1
  <2> QED BY <2>2
<1>2. HistInv /\ Extends
  BY SameExtends DEF IInv
<1> HIDE DEF n
<1>3. at \in [Nat -> Nat]
  BY DEF Leads
<1>4. new \in [Nat -> Nat] /\ \A i \in Nat : new[i] = at[i + 1]
  BY <1>3
<1> HIDE DEF new
<1>5. Stands(s, new[0])'
  <2>1. new[0] = at[1]
    BY <1>4
  <2> QED BY <2>1 DEF Stands
<1>6. ASSUME NEW i \in 1 .. n - 1
      PROVE  Moves(s, wire[i], new[i - 1], new[i])'
  <2>1. i \in Nat /\ i - 1 \in Nat /\ i + 1 \in 1 .. n /\ (i - 1) + 1 = i
        /\ (i + 1) - 1 = i
    BY <1>1
  <2>2. new[i - 1] = at[i] /\ new[i] = at[i + 1] /\ wire'[i] = wire[i + 1]
    BY <1>1, <1>4, <2>1
  <2>3. Moves(s, wire[i + 1], at[i], at[i + 1])
    BY <2>1 DEF Leads, n
  <2> QED BY <1>2, <2>2, <2>3, MovesAt
<1>7. new[Len(wire')] = IF pushed'[s] = 0 THEN 0 ELSE pub'[s]
  <2>1. Len(wire') \in Nat /\ Len(wire') + 1 = n
    BY <1>1
  <2> QED BY <1>4, <2>1 DEF Leads, n
<1>8. Leads(s, new)'
  BY <1>1, <1>4, <1>5, <1>6, <1>7 DEF Leads
<1> QED BY <1>8

LEMMA ResetOrder ==
  ASSUME NEW next, next # "reading", InvalidateAll(next) PROVE OrderInv'
  BY DEF InvalidateAll, OrderInv

LEMMA ConnectOrder ==
  ASSUME IInv, OrderInv, Connect PROVE OrderInv'
<1>1. /\ wire' = << >> /\ phase' = "reading"
      /\ UNCHANGED << pushed, pub >>
      /\ \A s \in Symbols : sync[s] = InitSync /\ pushed[s] = 0
      /\ sync' = [s \in Symbols |-> OnConnected(sync[s]).sync]
  BY DEF Connect, OrderInv, exchangeVars, IInv, OfflineInv
<1> DEFINE at == [i \in Nat |-> 0]
<1>2. ASSUME NEW s \in Symbols PROVE Leads(s, at)'
  <2>1. sync'[s].buffer = << >> /\ sync'[s].state = "Buffering"
    BY <1>1 DEF OnConnected, InitSync
  <2>2. at \in [Nat -> Nat] /\ at[0] = 0
    OBVIOUS
  <2> HIDE DEF at
  <2>3. Stands(s, at[0])'
    BY <2>1, <2>2 DEF Stands
  <2>4. Len(wire') = 0 /\ pushed'[s] = 0
    BY <1>1
  <2> QED BY <2>2, <2>3, <2>4 DEF Leads
<1> HIDE DEF at
<1> QED BY <1>1, <1>2 DEF OrderInv

LEMMA PublishOrder ==
  ASSUME IInv, IInv', OrderInv, OrderHyp, NEW s \in Symbols, Publish(s)
  PROVE  OrderInv'
<1>1. /\ UNCHANGED << hist, pushed, phase, sync, book >>
      /\ pub' = [pub EXCEPT ![s] = Len(hist[s])]
      /\ HistInv /\ HistInv'
  BY DEF Publish, sessionVars, IInv
<1>2. /\ Len(hist[s]) \in Nat /\ pub[s] \in 1 .. Len(hist[s])
      /\ pub \in [Symbols -> Nat] /\ pushed \in [Symbols -> Nat]
  BY DEF IInv, HistInv, PhaseInv
<1>3. pub'[s] = Len(hist[s]) /\ \A t \in Symbols \ {s} : pub'[t] = pub[t]
  BY <1>1, <1>2
<1>4. PICK v \in Validity :
        wire' = IF Streams(s)
                  THEN Append(wire, DepthUpdate(s, pub[s], Len(hist[s]), v))
                  ELSE wire
  BY DEF Publish
<1>5. CASE phase # "reading"
  BY <1>1, <1>4, <1>5 DEF OrderInv, Streams
<1>6. CASE phase = "reading" /\ ~Streams(s)
  <2>1. wire' = wire /\ pushed[s] = 0
    BY <1>2, <1>4, <1>6 DEF Streams, OrderHyp
  <2>2. ASSUME NEW t \in Symbols PROVE \E at : Leads(t, at)'
    <3>1. PICK at : Leads(t, at)
      BY <1>6 DEF OrderInv
    <3>2. Stands(t, at[0])'
      BY <1>1, <3>1, SameExtends, StandsKept DEF Leads
    <3>3. \A i \in 1 .. Len(wire') : Moves(t, wire[i], at[i - 1], at[i])'
      BY <1>1, <2>1, <3>1, SameExtends, MovesAt DEF Leads
    <3>4. at[Len(wire')] = IF pushed'[t] = 0 THEN 0 ELSE pub'[t]
      BY <1>1, <1>3, <2>1, <3>1 DEF Leads
    <3>5. Leads(t, at)'
      BY <3>1, <3>2, <3>3, <3>4 DEF Leads
    <3> QED BY <3>5
  <2> QED BY <1>1, <1>6, <2>2 DEF OrderInv
<1>7. CASE phase = "reading" /\ Streams(s)
  <2> DEFINE m == DepthUpdate(s, pub[s], Len(hist[s]), v)
  <2>1. m \in Messages
    <3>1. IsSpan(pub[s], Len(hist[s]))
      <4>1. pub[s] = Len(hist[s]) => AllowHeartbeat
        BY <1>2 DEF Publish
      <4>2. Len(hist[s]) - pub[s] <= MaxSpan /\ MaxSpan \in Nat
        BY SessionAssumption DEF IInv, HistInv
      <4> QED BY <1>2, <4>1, <4>2 DEF IsSpan
    <3>2. Len(hist[s]) \in 1 .. Len(hist[s])
      BY <1>2
    <3>3. m \in Depths(s)
      BY <1>2, <3>1, <3>2, DepthsAre
    <3> QED BY <3>3 DEF Messages
  <2>2. wire' = Append(wire, m) /\ m.sym = s /\ pushed[s] > 0
    BY <1>4, <1>7, DepthFields DEF Streams, OrderHyp
  <2>3. ASSUME NEW b, b = Len(hist[s]) PROVE Moves(s, m, pub[s], b)
    <3>1. pub[s] \in 1 .. b /\ b \in 1 .. Len(hist[s])
      BY <1>2, <2>3
    <3>2. m = DepthUpdate(s, pub[s], b, v)
      BY <2>3
    <3> HIDE DEF m
    <3> QED BY <3>1, <3>2 DEF Moves
  <2> HIDE DEF m
  <2>4. ASSUME NEW t \in Symbols PROVE \E at : Leads(t, at)'
    <3>1. PICK at : Leads(t, at)
      BY <1>7 DEF OrderInv
    <3>2. CASE t = s
      <4>1. PICK b : b = Len(hist[s])
        OBVIOUS
      <4>2. at[Len(wire)] = pub[s]
        BY <1>2, <2>2, <3>1, <3>2 DEF Leads
      <4>3. Moves(t, m, at[Len(wire)], b)
        BY <2>3, <3>2, <4>1, <4>2
      <4>4. b \in Nat /\ b = IF pushed'[t] = 0 THEN 0 ELSE pub'[t]
        BY <1>1, <1>2, <1>3, <2>2, <3>2, <4>1
      <4> QED BY <1>1, <2>1, <2>2, <3>1, <4>3, <4>4, AppendLeads
    <3>3. CASE t # s
      <4>1. PICK b : b = at[Len(wire)]
        OBVIOUS
      <4>2. Moves(t, m, at[Len(wire)], b)
        BY <2>2, <3>3, <4>1 DEF Moves
      <4>3. b \in Nat /\ b = IF pushed'[t] = 0 THEN 0 ELSE pub'[t]
        BY <1>1, <1>2, <1>3, <3>1, <3>3, <4>1 DEF Leads
      <4> QED BY <1>1, <2>1, <2>2, <3>1, <4>2, <4>3, AppendLeads
    <3> QED BY <3>2, <3>3
  <2> QED BY <1>1, <1>7, <2>4 DEF OrderInv
<1> QED BY <1>5, <1>6, <1>7

LEMMA PushSnapshotOrder ==
  ASSUME IInv, IInv', OrderInv, OrderHyp, NEW s \in Symbols, PushSnapshot(s)
  PROVE  OrderInv'
<1>1. /\ UNCHANGED << hist, pub, phase, sync, book >> /\ phase = "reading"
      /\ pushed' = [pushed EXCEPT ![s] = @ + 1]
      /\ HistInv /\ HistInv'
  BY DEF PushSnapshot, sessionVars, IInv
<1>2. /\ Len(hist[s]) \in Nat /\ pub[s] \in 1 .. Len(hist[s])
      /\ pub \in [Symbols -> Nat] /\ pushed \in [Symbols -> Nat]
  BY DEF IInv, HistInv, PhaseInv
<1>3. pushed'[s] # 0 /\ \A t \in Symbols \ {s} : pushed'[t] = pushed[t]
  BY <1>1, <1>2
<1>4. PICK v \in Validity : wire' = Append(wire, SnapshotMessage(s, pub[s], v))
  BY DEF PushSnapshot, OrderHyp
<1> DEFINE m == SnapshotMessage(s, pub[s], v)
<1>5. m \in Messages /\ m.sym = s
  <2>1. m \in Snapshots(s)
    BY <1>2, SnapshotsAre
  <2> QED BY <2>1, SnapshotFields DEF Messages, OrderHyp
<1>6. ASSUME NEW b, b = pub[s], NEW a \in {0, b} PROVE Moves(s, m, a, b)
  <2>1. m = SnapshotMessage(s, b, v) /\ b \in 1 .. Len(hist[s])
    BY <1>2, <1>6
  <2> HIDE DEF m
  <2> QED BY <2>1 DEF Moves
<1>7. wire' = Append(wire, m)
  BY <1>4
<1> HIDE DEF m
<1>8. ASSUME NEW t \in Symbols PROVE \E at : Leads(t, at)'
  <2>1. PICK at : Leads(t, at)
    BY <1>1 DEF OrderInv
  <2>2. CASE t = s
    <3>1. PICK b : b = pub[s]
      OBVIOUS
    <3>2. at[Len(wire)] \in {0, b}
      BY <2>1, <2>2, <3>1 DEF Leads
    <3>3. Moves(t, m, at[Len(wire)], b)
      BY <1>6, <2>2, <3>1, <3>2
    <3>4. b \in Nat /\ b = IF pushed'[t] = 0 THEN 0 ELSE pub'[t]
      BY <1>1, <1>2, <1>3, <2>2, <3>1
    <3> QED BY <1>1, <1>5, <1>7, <2>1, <3>3, <3>4, AppendLeads
  <2>3. CASE t # s
    <3>1. PICK b : b = at[Len(wire)]
      OBVIOUS
    <3>2. Moves(t, m, at[Len(wire)], b)
      BY <1>5, <2>3, <3>1 DEF Moves
    <3>3. b \in Nat /\ b = IF pushed'[t] = 0 THEN 0 ELSE pub'[t]
      BY <1>1, <1>2, <1>3, <2>1, <2>3, <3>1 DEF Leads
    <3> QED BY <1>1, <1>5, <1>7, <2>1, <3>2, <3>3, AppendLeads
  <2> QED BY <2>2, <2>3
<1> QED BY <1>1, <1>8 DEF OrderInv

\* A snapshot that meets an empty buffer makes such a machine Live.
LEMMA EmptyBufferTrusts ==
  ASSUME NEW sy, NEW m, sy.buffer = << >>, kTrustsConnectionOrder
  PROVE  OnSnapshot(sy, m)
           = [sync    |-> [sy EXCEPT !.state = "Live",
                                     !.last_final_id = m.last_update_id],
              actions |-> << ApplySnapshot(m) >>]
<1> DEFINE keep == {i \in DOMAIN sy.buffer :
                      ~ShouldDropBuffered(sy.buffer[i], m)}
           sv == AtIndices(sy.buffer, keep)
           bridges == {i \in 1 .. Len(sv) : BridgesSnapshot(sv[i], m)}
<1>1. Len(sv) = 0
  <2> DEFINE V == {}
             buf == sy.buffer
  <2>1. buf \in Seq(V)
    OBVIOUS
  <2> HIDE DEF keep, V, buf
  <2>2. AtIndices(buf, keep) \in Seq(V)
    BY <2>1, AtIndicesProperties
  <2>3. sv \in Seq({})
    BY <2>2 DEF V, buf
  <2> HIDE DEF sv
  <2> QED BY <2>3
<1> HIDE DEF sv
<1>2. bridges = {}
  BY <1>1
<1>3. OnSnapshot(sy, m)
        = IF bridges = {} THEN OnSnapshotWithoutBridge(sy, m, sv)
          ELSE OnSnapshotWithBridge(sy, m, SubSeq(sv, Min(bridges), Len(sv)))
  BY DEF OnSnapshot, sv
<1> HIDE DEF bridges
<1> QED BY <1>2, <1>3 DEF OnSnapshotWithoutBridge

\* The state x of s after a batch is Live, with the book after change b.
IsAt(s, x, b) ==
  /\ x.sync.state = "Live" /\ x.sync.buffer = << >>
  /\ b \in 1 .. Len(hist[s])
  /\ hist[s][b].id = x.sync.last_final_id /\ x.book = BookAt(s, b)

\* A message read in its turn, without a gap, leaves the machine Live with
\* the book the message leads to.
LEMMA ReadInTurn ==
  ASSUME IInv, OrderHyp, NEW m \in Messages, NEW s \in Symbols, m.sym = s,
         NEW a, NEW b, Stands(s, a), Moves(s, m, a, b),
         ~DispatchResult(s, m).gap
  PROVE  IsAt(s, DispatchResult(s, m), b)
<1>1. /\ DispatchOutcome(s, m, DispatchResult(s, m))
      /\ Ready(s) /\ HistInv /\ KeepsFinalId
  BY DispatchOutcomeIs, IsReady DEF IInv, OrderHyp
<1>2. CASE /\ a \in 1 .. b /\ b \in 1 .. Len(hist[s])
           /\ \E v \in Validity : m = DepthUpdate(s, a, b, v)
  <2> DEFINE r == OnDepthUpdate(sync[s], m)
             x0 == BatchStart(s, r, fetch)
             x == ExecuteActions(s, r, fetch)
  <2>1. PICK v \in Validity : m = DepthUpdate(s, a, b, v)
    BY <1>2
  <2>2. m.kind = "depth" /\ m \in Depths(s)
    <3>1. m.kind = "depth"
      BY <2>1, DepthFields
    <3> QED BY <1>1, <3>1 DEF DispatchOutcome
  <2>3. x = DispatchResult(s, m)
    BY <2>2 DEF DispatchResult
  <2>4. /\ sync[s].state = "Live" /\ sync[s].buffer = << >>
        /\ book[s] = BookAt(s, a)
    <3>1. a # 0
      BY <1>2
    <3> QED BY <3>1 DEF Stands
  <2>5. IsContiguous(m, sync[s].last_final_id)
    <3> SUFFICES ASSUME ~IsContiguous(m, sync[s].last_final_id) PROVE FALSE
      OBVIOUS
    <3> DEFINE rest == Append(sync[s].buffer, m)
    <3>1. r = HandleGap(sync[s], rest)
      BY <2>4 DEF OnDepthUpdate
    <3>2. rest \in Seq(Depths(s))
      <4> DEFINE D == Depths(s)
      <4>1. sync[s].buffer \in Seq(D) /\ m \in D
        BY <2>2, <2>4
      <4> HIDE DEF D
      <4> QED BY <4>1 DEF D
    <3>3. x = ExecuteActions(s, r, fetch)
      OBVIOUS
    <3> HIDE DEF x, r, rest
    <3>4. x.gap
      BY <1>1, <3>1, <3>2, <3>3, GapSettles
    <3> QED BY <2>3, <3>4
  <2>6. r = [sync    |-> [sync[s] EXCEPT !.last_final_id = m.final_id],
             actions |-> << ApplyDelta(m) >>]
    BY <2>4, <2>5 DEF OnDepthUpdate
  <2>7. m.final_id = hist[s][b].id /\ m.final_id \in Nat
    BY <1>1, <1>2, <2>1, FinalId
  <2>8. /\ r.sync \in SyncStates(s) /\ r.sync.state = "Live"
        /\ r.sync.last_final_id = m.final_id /\ r.sync.buffer = << >>
    <3>1. r.sync = [sync[s] EXCEPT !.last_final_id = m.final_id]
      BY <2>6
    <3> DEFINE D == Seq(Depths(s))
    <3> HIDE DEF D, r
    <3> QED BY <1>1, <2>4, <2>7, <3>1 DEF Ready, SyncStates, D
  <2>9. x = ExecuteAction(s, x0, ApplyDelta(m))
    <3>1. r.actions = << ApplyDelta(m) >>
      BY <2>6
    <3> QED BY <3>1, SingleBatch
  <2>10. x0 \in BatchStates(s, fetch) /\ x0.sync = r.sync /\ x0.book = book[s]
    BY <1>1, <2>8, BatchStartTyped
  <2> HIDE DEF x0, x, r
  <2>11. m.valid
    <3> SUFFICES ASSUME ~m.valid PROVE FALSE
      OBVIOUS
    <3>1. x = Rejected(x0)
      BY <2>9, ExecuteNotValid
    <3>2. x.gap
      BY <2>10, <3>1, ExecuteRejected
    <3> QED BY <2>3, <3>2
  <2>12. x.sync = r.sync /\ x.book = ApplyDeltaTo(book[s], m.levels)
    BY <1>1, <2>2, <2>9, <2>10, <2>11, ExecuteApplyDelta
  <2>13. ApplyDeltaTo(BookAt(s, a), m.levels) = BookAt(s, b)
    <3>1. a \in a .. b
      BY <1>2
    <3> QED BY <1>1, <1>2, <2>1, <3>1, Overlay
  <2> QED BY <1>2, <2>3, <2>4, <2>7, <2>8, <2>12, <2>13 DEF IsAt
<1>3. CASE /\ a \in {0, b} /\ b \in 1 .. Len(hist[s])
           /\ \E v \in Validity : m = SnapshotMessage(s, b, v)
  <2> DEFINE r == OnSnapshot(sync[s], m)
             x0 == BatchStart(s, r, fetch)
             x == ExecuteActions(s, r, fetch)
  <2>1. /\ m.kind = "snapshot" /\ m \in Snapshots(s)
        /\ m.last_update_id = hist[s][b].id /\ m.levels = BookAt(s, b)
    <3>1. /\ m.kind = "snapshot"
          /\ m.last_update_id = hist[s][b].id /\ m.levels = BookAt(s, b)
      BY <1>3, SnapshotFields
    <3> QED BY <1>3, <3>1, SnapshotsAre
  <2>2. x = DispatchResult(s, m)
    BY <2>1 DEF DispatchResult
  <2>3. sync[s].buffer = << >> /\ kTrustsConnectionOrder
    BY SessionAssumption, TrustsAssumption DEF Stands, OrderHyp
  <2>4. r = [sync    |-> [sync[s] EXCEPT !.state = "Live",
                                  !.last_final_id = m.last_update_id],
             actions |-> << ApplySnapshot(m) >>]
    BY <2>3, EmptyBufferTrusts
  <2>5. m.last_update_id \in Nat
    BY <1>1, <1>3, <2>1, EntryTyped
  <2>6. /\ r.sync \in SyncStates(s) /\ r.sync.state = "Live"
        /\ r.sync.buffer = << >> /\ r.sync.last_final_id = m.last_update_id
    <3> DEFINE D == Seq(Depths(s))
    <3>1. r.sync = [sync[s] EXCEPT !.state = "Live",
                                   !.last_final_id = m.last_update_id]
      BY <2>4
    <3> HIDE DEF D, r
    <3> QED BY <1>1, <2>3, <2>5, <3>1 DEF Ready, SyncStates, D
  <2>7. x = ExecuteAction(s, x0, ApplySnapshot(m))
    <3>1. r.actions = << ApplySnapshot(m) >>
      BY <2>4
    <3> QED BY <3>1, SingleBatch
  <2>8. x0 \in BatchStates(s, fetch) /\ x0.sync = r.sync
    BY <1>1, <2>6, BatchStartTyped
  <2> HIDE DEF x0, x, r
  <2>9. m.valid
    <3> SUFFICES ASSUME ~m.valid PROVE FALSE
      OBVIOUS
    <3>1. x = Rejected(x0)
      BY <2>7, ExecuteNotValid
    <3>2. x.gap
      BY <2>8, <3>1, ExecuteRejected
    <3> QED BY <2>2, <3>2
  <2>10. x.sync = r.sync /\ x.book = m.levels
    BY <1>1, <2>1, <2>7, <2>8, <2>9, ExecuteApplySnapshot
  <2> QED BY <1>3, <2>1, <2>2, <2>6, <2>10 DEF IsAt
<1> QED BY <1>2, <1>3 DEF Moves

\* What Dispatch does for a venue that pushes its snapshots.
LEMMA PushedDispatchIs ==
  ASSUME IInv, OrderHyp, Dispatch
  PROVE  LET m == Head(wire)
             x == DispatchResult(m.sym, m)
         IN  /\ m \in Messages /\ m.sym \in Symbols /\ m = wire[1]
             /\ wire # << >> /\ Len(wire) \in Nat /\ Len(wire) >= 1
             /\ UNCHANGED << hist, pub >> /\ phase = "reading"
             /\ \/ InvalidateAll("backoff")
                \/ /\ ~x.gap /\ Assign(m.sym, x) /\ Fits(m.sym, x)
                   /\ wire' = Tail(wire) /\ UNCHANGED << phase, pushed >>
<1> DEFINE m == Head(wire)
           s == m.sym
           x == DispatchResult(s, m)
<1>1. m \in Messages /\ m = wire[1] /\ wire # << >> /\ Len(wire) \in Nat
      /\ Len(wire) >= 1
  <2> DEFINE M == Messages
  <2>1. wire \in Seq(M) /\ wire # << >>
    BY DEF IInv, PhaseInv, Dispatch
  <2> HIDE DEF M
  <2>2. Head(wire) \in M /\ Head(wire) = wire[1] /\ Len(wire) \in Nat
        /\ Len(wire) >= 1
    BY <2>1
  <2> QED BY <2>1, <2>2 DEF M
<1>2. kTrustsConnectionOrder /\ KeepsFinalId
  BY SessionAssumption, TrustsAssumption DEF OrderHyp
<1>3. IF ForcesReconnect(x)
        THEN InvalidateAll("backoff") /\ fetch' = x.fetch
        ELSE /\ Assign(s, IF x.gap THEN ResyncAfterGap(s, x) ELSE x)
             /\ wire' = Tail(wire) /\ UNCHANGED << phase, pushed >>
  BY DEF Dispatch, DispatchResult
<1>4. s \in Symbols /\ DispatchOutcome(s, m, x)
  BY <1>1, <1>2, DispatchOutcomeIs
<1>5. UNCHANGED << hist, pub >> /\ phase = "reading"
  BY DEF Dispatch
<1> HIDE DEF x
<1>6. Fits(s, x)
  BY <1>2, <1>4, SettledFits DEF DispatchOutcome, AfterDepth, AfterSnapshot
<1>7. \/ InvalidateAll("backoff")
      \/ /\ ~x.gap /\ Assign(s, x)
         /\ wire' = Tail(wire) /\ UNCHANGED << phase, pushed >>
  BY <1>2, <1>3 DEF ForcesReconnect
<1> QED BY <1>1, <1>4, <1>5, <1>6, <1>7 DEF x

LEMMA ReadAdvances ==
  ASSUME IInv, OrderHyp, Dispatch, ~InvalidateAll("backoff"),
         NEW t \in Symbols, NEW a, NEW b,
         Stands(t, a), Moves(t, Head(wire), a, b)
  PROVE  /\ Stands(t, b)'
         /\ UNCHANGED << hist, pub, pushed, phase >>
         /\ wire # << >> /\ wire' = Tail(wire)
<1> DEFINE m == Head(wire)
           s == m.sym
           x == DispatchResult(s, m)
<1>1. /\ m \in Messages /\ s \in Symbols /\ wire # << >>
      /\ UNCHANGED << hist, pub >>
      /\ ~x.gap /\ Assign(s, x) /\ Fits(s, x)
      /\ wire' = Tail(wire) /\ UNCHANGED << phase, pushed >>
  BY PushedDispatchIs
<1> HIDE DEF m, x
<1>2. /\ sync'[s] = x.sync /\ book'[s] = x.book
      /\ \A u \in Symbols \ {s} : sync'[u] = sync[u] /\ book'[u] = book[u]
  BY <1>1, AssignSync
<1>3. HistInv /\ HistInv' /\ Extends
  BY <1>1, SameExtends DEF IInv, HistInv
<1>4. Stands(t, a) /\ Moves(t, m, a, b)
  BY DEF m
<1>5. CASE t = s
  <2>1. x = DispatchResult(t, m) /\ m.sym = t
    BY <1>5 DEF x
  <2>2. ~DispatchResult(t, m).gap /\ m \in Messages
    BY <1>1, <2>1
  <2>3. IsAt(t, DispatchResult(t, m), b)
    BY <1>4, <2>1, <2>2, ReadInTurn
  <2>4. /\ x.sync.state = "Live" /\ x.sync.buffer = << >>
        /\ b \in 1 .. Len(hist[t])
        /\ hist[t][b].id = x.sync.last_final_id /\ x.book = BookAt(t, b)
    BY <2>1, <2>3 DEF IsAt
  <2>5. BookAt(t, b)' = BookAt(t, b)
    BY <1>1 DEF BookAt
  <2>6. hist'[t] = hist[t] /\ sync'[t] = x.sync /\ book'[t] = x.book
    BY <1>1, <1>2, <1>5
  <2>7. Stands(t, b)'
    BY <2>4, <2>5, <2>6 DEF Stands
  <2> QED BY <1>1, <2>7
<1>6. CASE t # s
  <2>1. b = a
    <3>1. m.sym = t => FALSE
      BY <1>6
    <3> QED BY <1>4, <3>1, DepthFields, SnapshotFields DEF Moves
  <2>2. Stands(t, b)'
    BY <1>2, <1>3, <1>4, <1>6, <2>1, StandsKept
  <2> QED BY <1>1, <2>2
<1> QED BY <1>5, <1>6

\* The head of the wire starts where the machine stands.
LEMMA HeadMoves ==
  ASSUME IInv, OrderInv, OrderHyp, Dispatch, NEW t \in Symbols
  PROVE  \E at : /\ Leads(t, at)
                 /\ Stands(t, at[0]) /\ Moves(t, Head(wire), at[0], at[1])
<1>1. phase = "reading" /\ Head(wire) = wire[1] /\ 1 \in 1 .. Len(wire)
  BY PushedDispatchIs
<1>2. PICK at : Leads(t, at)
  BY <1>1 DEF OrderInv
<1>3. Moves(t, wire[1], at[1 - 1], at[1]) /\ Stands(t, at[0])
  BY <1>1, <1>2 DEF Leads
<1> QED BY <1>1, <1>2, <1>3

LEMMA DispatchOrder ==
  ASSUME IInv, IInv', OrderInv, OrderHyp, Dispatch
  PROVE  OrderInv'
<1>1. CASE InvalidateAll("backoff")
  BY <1>1, ResetOrder
<1>2. CASE ~InvalidateAll("backoff")
  <2>1. ASSUME NEW t \in Symbols
        PROVE  (\E new : Leads(t, new)') /\ UNCHANGED phase
    <3>1. PICK at : /\ Leads(t, at)
                    /\ Stands(t, at[0]) /\ Moves(t, Head(wire), at[0], at[1])
      BY HeadMoves
    <3>2. /\ Stands(t, at[1])'
          /\ UNCHANGED << hist, pub, pushed, phase >>
          /\ wire # << >> /\ wire' = Tail(wire)
      BY <1>2, <3>1, ReadAdvances
    <3> QED BY <3>1, <3>2, TailLeads DEF IInv
  <2>2. phase' = "reading"
    BY <1>2, PushedDispatchIs
  <2> QED BY <2>1, <2>2 DEF OrderInv
<1> QED BY <1>1, <1>2

\* No message of a pushing venue is fetched.
LEMMA NoAnswer ==
  ASSUME IInv, OrderHyp, NEW f \in FetchSlots PROVE ~FetchResume(f)
  BY FetchTyped, FetchFields DEF FetchResume, OrderHyp

LEMMA NextOrder ==
  ASSUME IInv, IInv', OrderHyp, OrderInv, [Next]_vars PROVE OrderInv'
<1>1. HistInv /\ HistInv'
  BY DEF IInv
<1>2. CASE UNCHANGED vars
  <2>1. UNCHANGED << hist, wire, pushed, pub, sync, book, phase >>
    BY <1>2 DEF vars, exchangeVars, sessionVars
  <2> QED BY <1>1, <2>1, SameExtends, QuietOrder
<1>3. CASE Start \/ Reconnect \/ Drained
  <2>1. phase # "reading" /\ phase' # "reading" /\ UNCHANGED wire
    BY <1>3 DEF Start, Reconnect, Drained, exchangeVars
  <2> QED BY <2>1 DEF OrderInv
<1>4. CASE Connect
  BY <1>4, ConnectOrder
<1>5. CASE Dispatch
  BY <1>5, DispatchOrder
<1>6. CASE RunCancelled \/ Disconnect
  <2>1. CASE InvalidateAll("draining") \/ InvalidateAll("backoff")
    BY <2>1, ResetOrder
  <2>2. CASE phase = "backoff" /\ phase' = "draining" /\ UNCHANGED wire
    BY <2>2 DEF OrderInv
  <2> QED BY <1>6, <2>1, <2>2 DEF RunCancelled, Disconnect
<1>7. CASE Stop \/ Fetches
  <2>1. UNCHANGED << hist, wire, pushed, pub, sync, book, phase >>
    BY <1>7, NoAnswer DEF Stop, Fetches, FetchAnswer, FetchFail, FetchRetry,
                          FetchCancelled, EraseSignal, exchangeVars
  <2> QED BY <1>1, <2>1, SameExtends, QuietOrder
<1>8. CASE ReadMalformed
  BY <1>8 DEF ReadMalformed, OrderHyp
<1>9. CASE Exchange
  <2>1. PICK s \in Symbols : Change(s) \/ Publish(s) \/ PushSnapshot(s)
    BY <1>9 DEF Exchange
  <2>2. CASE Change(s)
    <3>1. UNCHANGED << wire, pushed, pub, sync, book, phase >>
      BY <2>2 DEF Change, sessionVars
    <3> QED BY <1>1, <2>2, <3>1, ChangeHist, QuietOrder
  <2> QED BY <2>1, <2>2, PublishOrder, PushSnapshotOrder
<1> QED BY <1>2, <1>3, <1>4, <1>5, <1>6, <1>7, <1>8, <1>9 DEF Next, Run

\* A Live machine stands somewhere in the history.
LEMMA LiveStands ==
  ASSUME IInv, OrderInv, NEW s \in Symbols, sync[s].state = "Live"
  PROVE  \E c \in 1 .. Len(hist[s]) : Stands(s, c)
<1>1. phase = "reading"
  BY DEF IInv, OfflineInv, InitSync
<1>2. PICK at : Leads(s, at)
  BY <1>1 DEF OrderInv
<1>3. Stands(s, at[0])
  BY <1>2 DEF Leads
<1>4. at[0] \in 1 .. Len(hist[s])
  BY <1>3 DEF Stands
<1> QED BY <1>3, <1>4

LEMMA OrderInvariant ==
  ASSUME OrderHyp PROVE Spec => [](IInv /\ OrderInv)
<1>1. KeepsFinalId
  BY DEF OrderHyp
<1>2. Init => IInv /\ OrderInv
  BY InitIInv DEF Init, OrderInv
<1>3. IInv /\ OrderInv /\ [Next]_vars => (IInv /\ OrderInv)'
  BY <1>1, NextIInv, NextOrder
<1> QED BY <1>2, <1>3, PTL DEF Spec

\* A venue that pushes its snapshot first on an ordered connection, of which
\* no message is lost, has an exact book while it is Live even if the exchange
\* restarts its identifiers, as OKX and Bybit do ("sequence reset" in
\* okx_sequence_policy.hpp): what the policy lets pass is the next message.
THEOREM OrderedBooksAreExact ==
  ASSUME OrderHyp PROVE Spec => []LiveBookIsExact
<1>1. IInv /\ OrderInv => LiveBookIsExact
  <2> SUFFICES ASSUME IInv, OrderInv, NEW s \in Symbols, sync[s].state = "Live"
               PROVE  /\ sync[s].buffer = << >>
                      /\ \E c \in 1 .. Len(hist[s]) :
                           /\ hist[s][c].id = sync[s].last_final_id
                           /\ book[s] = BookAt(s, c)
    BY DEF LiveBookIsExact
  <2> QED BY LiveStands DEF Stands
<1> QED BY <1>1, OrderInvariant, PTL

LEMMA SameBookOrder ==
  ASSUME IInv, OrderInv, NEW s \in Symbols, book'[s] = book[s]
  PROVE  Advances(s)
<1> SUFFICES ASSUME sync[s].state = "Live", NEW p \in Price
             PROVE  book[s][p] >= book[s][p]
  BY DEF Advances
<1>1. PICK c \in 1 .. Len(hist[s]) : Stands(s, c)
  BY LiveStands
<1>2. book[s] = BookAt(s, c) /\ c \in 0 .. Len(hist[s]) /\ c \in c .. Len(hist[s])
  BY <1>1 DEF Stands, IInv, HistInv
<1> QED BY <1>2, BookAtGrows DEF IInv

LEMMA DispatchOrderAdvances ==
  ASSUME IInv, OrderInv, OrderHyp, Dispatch, NEW t \in Symbols
  PROVE  Advances(t)
<1>1. CASE InvalidateAll("backoff")
  BY <1>1, ResetAdvances
<1>2. CASE ~InvalidateAll("backoff")
  <2> SUFFICES ASSUME sync[t].state = "Live", sync'[t].state = "Live",
                      NEW p \in Price
               PROVE  book'[t][p] >= book[t][p]
    BY DEF Advances
  <2>1. PICK at : /\ Leads(t, at)
                  /\ Stands(t, at[0]) /\ Moves(t, Head(wire), at[0], at[1])
    BY HeadMoves
  <2>2. PICK a, b : a = at[0] /\ b = at[1]
    OBVIOUS
  <2>3. Stands(t, b)' /\ UNCHANGED hist
    BY <1>2, <2>1, <2>2, ReadAdvances
  <2>4. a \in 1 .. Len(hist[t]) /\ book[t] = BookAt(t, a)
    BY <2>1, <2>2 DEF Stands
  <2>5. b \in 1 .. Len(hist[t]) /\ book'[t] = BookAt(t, b)'
    BY <2>3 DEF Stands
  <2>6. BookAt(t, b)' = BookAt(t, b)
    BY <2>3 DEF BookAt
  <2>7. a <= b /\ Len(hist[t]) \in Nat
    BY <2>1, <2>2, <2>4 DEF Moves, IInv, HistInv
  <2>8. a \in 0 .. Len(hist[t]) /\ b \in a .. Len(hist[t])
    BY <2>4, <2>5, <2>7
  <2> QED BY <2>4, <2>5, <2>6, <2>8, BookAtGrows DEF IInv
<1> QED BY <1>1, <1>2

\* Under the same hypotheses no level of a Live book goes back: a snapshot
\* pushed a second time on the connection does not undo an update.
THEOREM OrderedBooksNeverRewind ==
  ASSUME OrderHyp PROVE Spec => LiveBookNeverRewinds
<1> DEFINE Step == \A s \in Symbols : Advances(s)
<1>1. IInv /\ OrderInv /\ [Next]_vars => [Step]_vars
  <2> SUFFICES ASSUME IInv, OrderInv, Next, NEW s \in Symbols PROVE Advances(s)
    OBVIOUS
  <2>1. CASE Dispatch
    BY <2>1, DispatchOrderAdvances
  <2>2. CASE Disconnect \/ RunCancelled
    <3>1. CASE \E next : InvalidateAll(next)
      BY <3>1, ResetAdvances
    <3>2. CASE UNCHANGED book
      BY <3>2, SameBookOrder
    <3> QED BY <2>2, <3>1, <3>2 DEF Disconnect, RunCancelled
  <2>3. CASE Start \/ Connect \/ Reconnect \/ Drained \/ Stop
    <3>1. UNCHANGED book
      BY <2>3 DEF Start, Connect, Reconnect, Drained, Stop
    <3> QED BY <3>1, SameBookOrder
  <2>4. CASE ReadMalformed \/ Exchange
    <3>1. UNCHANGED book
      BY <2>4 DEF ReadMalformed, Exchange, Change, Publish, PushSnapshot, sessionVars
    <3> QED BY <3>1, SameBookOrder
  <2>5. CASE Fetches
    <3>1. UNCHANGED book
      BY <2>5, NoAnswer
         DEF Fetches, FetchAnswer, FetchFail, FetchRetry, FetchCancelled, EraseSignal
    <3> QED BY <3>1, SameBookOrder
  <2> QED BY <2>1, <2>2, <2>3, <2>4, <2>5 DEF Next, Run
<1>2. Spec => [][Step]_vars
  BY <1>1, OrderInvariant, PTL DEF Spec
<1> QED BY <1>2 DEF LiveBookNeverRewinds, Advances
=============================================================================
