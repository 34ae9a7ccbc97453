------------------------------ MODULE Induction ------------------------------
(***************************************************************************)
(* Induction and recursion over the natural numbers in a first-order form: *)
(* the predicate is a set, and the body of a recursive function is itself  *)
(* a function.  The library states both with operator parameters, which    *)
(* the provers cannot instantiate; this form they can.                     *)
(***************************************************************************)
EXTENDS Subsequences, Sums, Decimals, SequencesExt, WellFoundedInduction,
        SequenceTheorems, TLAPS

\* A set of natural numbers that is not empty has a least element.
LEMMA LeastNat ==
  ASSUME NEW T, T \subseteq Nat, T # {}
  PROVE  \E n \in T : \A m \in T : n <= m
<1>1. PICK n \in T : \A m \in T : ~ (<< m, n >> \in OpToRel(<, Nat))
  BY WFMin, NatLessThanWellFounded
<1>2. \A m \in T : ~ (m < n)
  BY <1>1 DEF OpToRel
<1> QED BY <1>2

\* Induction: S contains 0 and is closed under successor.
LEMMA SetInduction ==
  ASSUME NEW S, 0 \in S, \A n \in Nat : n \in S => n + 1 \in S
  PROVE  Nat \subseteq S
<1> SUFFICES ASSUME ~(Nat \subseteq S) PROVE FALSE
  OBVIOUS
<1> DEFINE T == Nat \ S
<1>1. PICK n \in T : \A m \in T : n <= m
  BY LeastNat
<1>2. n # 0 /\ n - 1 \in Nat /\ n - 1 \notin T
  BY <1>1
<1> QED BY <1>2

\* f is the iteration of step from v0; the step may depend on its number.
Steps(V) == [Nat -> [V -> V]]

Iterates(f, v0, step) ==
  f[0] = v0 /\ \A n \in Nat : f[n + 1] = step[n][f[n]]

\* Iteration: a first value and a step define a function on Nat.
LEMMA Iteration ==
  ASSUME NEW V, NEW v0 \in V, NEW step \in Steps(V)
  PROVE  \E f \in [Nat -> V] : Iterates(f, v0, step)
<1> USE DEF Steps
<1> DEFINE Upto(n, f) ==
             f[0] = v0 /\ \A k \in 0 .. n - 1 : f[k + 1] = step[k][f[k]]
           S == {n \in Nat : \E f \in [0 .. n -> V] : Upto(n, f)}
           Pick(n) == CHOOSE f \in [0 .. n -> V] : Upto(n, f)
           h == [n \in Nat |-> Pick(n)[n]]
<1>1. Nat \subseteq S
  <2>1. 0 \in S
    <3> DEFINE f == [k \in 0 .. 0 |-> v0]
    <3>1. f \in [0 .. 0 -> V] /\ Upto(0, f)
      OBVIOUS
    <3> QED BY <3>1
  <2>2. ASSUME NEW n \in Nat, n \in S PROVE n + 1 \in S
    <3>1. PICK f \in [0 .. n -> V] : Upto(n, f)
      BY <2>2
    <3> DEFINE g == [k \in 0 .. n + 1 |->
                       IF k = n + 1 THEN step[n][f[n]] ELSE f[k]]
    <3>2. f[n] \in V /\ step[n][f[n]] \in V
      OBVIOUS
    <3>3. g \in [0 .. n + 1 -> V]
      BY <3>2
    <3>4. g[0] = v0
      BY <3>1
    <3>5. ASSUME NEW k \in 0 .. n PROVE g[k + 1] = step[k][g[k]]
      BY <3>1
    <3> HIDE DEF g
    <3>6. \A k \in 0 .. (n + 1) - 1 : g[k + 1] = step[k][g[k]]
      BY <3>5
    <3>7. \E e \in [0 .. n + 1 -> V] : Upto(n + 1, e)
      BY <3>3, <3>4, <3>6
    <3> HIDE DEF Upto
    <3> QED BY <3>7
  <2> HIDE DEF S
  <2> QED BY <2>1, <2>2, SetInduction
<1>2. ASSUME NEW n \in Nat
      PROVE  Pick(n) \in [0 .. n -> V] /\ Upto(n, Pick(n))
  BY <1>1
<1> HIDE DEF Pick
<1>3. ASSUME NEW n \in Nat, NEW m \in Nat, n <= m,
             NEW k \in 0 .. n
      PROVE  Pick(n)[k] = Pick(m)[k]
  <2> DEFINE D == {i \in Nat : i <= n => Pick(n)[i] = Pick(m)[i]}
  <2>1. 0 \in D
    BY <1>2
  <2>2. ASSUME NEW i \in Nat, i \in D PROVE i + 1 \in D
    <3> SUFFICES ASSUME i + 1 <= n PROVE Pick(n)[i + 1] = Pick(m)[i + 1]
      OBVIOUS
    <3>1. i \in 0 .. n - 1 /\ i \in 0 .. m - 1
      BY <1>3
    <3>2. Pick(n)[i + 1] = step[i][Pick(n)[i]]
      BY <1>2, <3>1
    <3>3. Pick(m)[i + 1] = step[i][Pick(m)[i]]
      BY <1>2, <3>1
    <3> QED BY <2>2, <3>1, <3>2, <3>3
  <2>3. Nat \subseteq D
    <3> HIDE DEF D
    <3> QED BY <2>1, <2>2, SetInduction
  <2> QED BY <2>3
<1>4. h \in [Nat -> V]
  BY <1>2
<1>5. h[0] = v0
  BY <1>2
<1>6. ASSUME NEW n \in Nat PROVE h[n + 1] = step[n][h[n]]
  <2>1. Pick(n + 1)[n + 1] = step[n][Pick(n + 1)[n]]
    BY <1>2
  <2>2. Pick(n + 1)[n] = Pick(n)[n]
    BY <1>3
  <2> QED BY <2>1, <2>2
<1> HIDE DEF h
<1> QED BY <1>4, <1>5, <1>6 DEF Iterates

\* A filter keeps exactly the elements at the positions that pass.
LEMMA AtIndicesProperties ==
  ASSUME NEW V, NEW s \in Seq(V), NEW I
  PROVE  /\ AtIndices(s, I) \in Seq(V)
         /\ \A i \in DOMAIN s : i \in I =>
              \E k \in DOMAIN AtIndices(s, I) : AtIndices(s, I)[k] = s[i]
         /\ \A k \in DOMAIN AtIndices(s, I) :
              \E i \in DOMAIN s : i \in I /\ AtIndices(s, I)[k] = s[i]
<1> DEFINE N == Len(s)
           Body(f) == [n \in 0 .. N |->
                         IF n = 0 THEN << >>
                         ELSE IF n \in I THEN Append(f[n - 1], s[n])
                         ELSE f[n - 1]]
           F == CHOOSE f : f = Body(f)
           W == Seq(V)
           Grow(n, t) == IF n + 1 \in I /\ n + 1 <= N THEN Append(t, s[n + 1])
                                                      ELSE t
           step == [n \in Nat |-> [t \in W |-> Grow(n, t)]]
<1>1. N \in Nat /\ DOMAIN s = 1 .. N /\ \A i \in 1 .. N : s[i] \in V
  OBVIOUS
<1> HIDE DEF N
<1>2. << >> \in W /\ \A n \in Nat, t \in W : Grow(n, t) \in W
  <2>1. ASSUME NEW n \in Nat, NEW t \in W, n + 1 <= N
        PROVE  Append(t, s[n + 1]) \in W
    BY <1>1, <2>1, AppendProperties
  <2> QED BY <2>1
<1> HIDE DEF W, Grow
<1>3. PICK h \in [Nat -> W] : Iterates(h, << >>, step)
  <2>1. step \in Steps(W)
    BY <1>2 DEF Steps
  <2> HIDE DEF step
  <2> QED BY <1>2, <2>1, Iteration
<1>4. h[0] = << >> /\ \A n \in Nat : h[n + 1] = step[n][h[n]]
  BY <1>3 DEF Iterates
<1> DEFINE g == [n \in 0 .. N |-> h[n]]
<1>5. g = Body(g)
  <2>1. ASSUME NEW n \in 0 .. N
        PROVE  g[n] = IF n = 0 THEN << >>
                      ELSE IF n \in I THEN Append(g[n - 1], s[n])
                      ELSE g[n - 1]
    <3>1. CASE n = 0
      BY <1>1, <1>4, <3>1
    <3>2. CASE n # 0
      <4>1. n - 1 \in Nat /\ n - 1 \in 0 .. N /\ (n - 1) + 1 = n
        BY <1>1, <3>2
      <4>2. h[n] = Grow(n - 1, h[n - 1])
        BY <1>4, <4>1
      <4>3. h[n] = IF n \in I THEN Append(h[n - 1], s[n]) ELSE h[n - 1]
        BY <4>1, <4>2 DEF Grow
      <4> QED BY <3>2, <4>1, <4>3
    <3> QED BY <3>1, <3>2
  <2> QED BY <2>1
<1> HIDE DEF g, step
<1>6. F = Body(F)
  BY <1>5
<1>7. AtIndices(s, I) = F[N]
  BY DEF AtIndices, N
<1> HIDE DEF F
<1>8. /\ F[0] = << >>
      /\ \A n \in 1 .. N : n \in I => F[n] = Append(F[n - 1], s[n])
      /\ \A n \in 1 .. N : n \notin I => F[n] = F[n - 1]
  <2>1. ASSUME NEW n \in 0 .. N PROVE F[n] = Body(F)[n]
    BY <1>6
  <2>2. 0 \in 0 .. N
    BY <1>1
  <2>3. F[0] = << >>
    BY <2>1, <2>2
  <2>4. ASSUME NEW n \in 1 .. N
        PROVE  F[n] = IF n \in I THEN Append(F[n - 1], s[n]) ELSE F[n - 1]
    <3>1. n \in 0 .. N /\ n # 0
      BY <1>1
    <3> QED BY <2>1, <3>1
  <2> QED BY <2>3, <2>4
<1> DEFINE Good(n, t) ==
             /\ t \in Seq(V)
             /\ \A i \in 1 .. n : i \in I => \E k \in DOMAIN t : t[k] = s[i]
             /\ \A k \in DOMAIN t : \E i \in 1 .. n : i \in I /\ t[k] = s[i]
           S == {n \in Nat : n <= N => Good(n, F[n])}
<1>9. 0 \in S
  <2>1. F[0] \in Seq(V) /\ DOMAIN F[0] = {}
    BY <1>8
  <2> QED BY <2>1
<1>10. ASSUME NEW n \in Nat, n \in S PROVE n + 1 \in S
  <2> SUFFICES ASSUME n + 1 <= N PROVE Good(n + 1, F[n + 1])
    OBVIOUS
  <2>1. Good(n, F[n])
    BY <1>1, <1>10
  <2>2. n + 1 \in 1 .. N /\ (n + 1) - 1 = n /\ s[n + 1] \in V
    BY <1>1
  <2>3. CASE n + 1 \in I
    <3>1. F[n + 1] = Append(F[n], s[n + 1])
      BY <1>8, <2>2, <2>3
    <3>2. /\ F[n + 1] \in Seq(V)
          /\ DOMAIN F[n + 1] = 1 .. Len(F[n]) + 1
          /\ \A k \in 1 .. Len(F[n]) : F[n + 1][k] = F[n][k]
          /\ F[n + 1][Len(F[n]) + 1] = s[n + 1]
          /\ Len(F[n]) \in Nat /\ DOMAIN F[n] = 1 .. Len(F[n])
      BY <2>1, <2>2, <3>1
    <3>3. ASSUME NEW i \in 1 .. n + 1, i \in I
          PROVE  \E k \in DOMAIN F[n + 1] : F[n + 1][k] = s[i]
      <4>1. CASE i = n + 1
        <5>1. Len(F[n]) + 1 \in DOMAIN F[n + 1]
          BY <3>2
        <5> QED BY <3>2, <4>1, <5>1
      <4>2. CASE i # n + 1
        <5>1. PICK k \in DOMAIN F[n] : F[n][k] = s[i]
          BY <2>1, <3>3, <4>2
        <5> QED BY <3>2, <5>1
      <4> QED BY <4>1, <4>2
    <3>4. ASSUME NEW k \in DOMAIN F[n + 1]
          PROVE  \E i \in 1 .. n + 1 : i \in I /\ F[n + 1][k] = s[i]
      <4>1. CASE k = Len(F[n]) + 1
        BY <2>3, <3>2, <4>1
      <4>2. CASE k # Len(F[n]) + 1
        <5>1. k \in DOMAIN F[n] /\ F[n + 1][k] = F[n][k]
          BY <3>2, <4>2
        <5>2. PICK i \in 1 .. n : i \in I /\ F[n][k] = s[i]
          BY <2>1, <5>1
        <5> QED BY <5>1, <5>2
      <4> QED BY <4>1, <4>2
    <3> QED BY <3>2, <3>3, <3>4
  <2>4. CASE n + 1 \notin I
    <3>1. F[n + 1] = F[n]
      BY <1>8, <2>2, <2>4
    <3> QED BY <2>1, <2>4, <3>1
  <2> QED BY <2>3, <2>4
<1>11. Nat \subseteq S
  <2> HIDE DEF S
  <2> QED BY <1>9, <1>10, SetInduction
<1>12. Good(N, F[N])
  BY <1>1, <1>11
<1> QED BY <1>1, <1>7, <1>12

\* Flattening keeps exactly the elements of the inner sequences.
LEMMA FlattenSeqProperties ==
  ASSUME NEW V, NEW ss \in Seq(Seq(V))
  PROVE  /\ FlattenSeq(ss) \in Seq(V)
         /\ \A i \in DOMAIN ss : \A j \in DOMAIN ss[i] :
              \E k \in DOMAIN FlattenSeq(ss) : FlattenSeq(ss)[k] = ss[i][j]
         /\ \A k \in DOMAIN FlattenSeq(ss) :
              \E i \in DOMAIN ss : \E j \in DOMAIN ss[i] :
                FlattenSeq(ss)[k] = ss[i][j]
<1> DEFINE N == Len(ss)
           W == Seq(V)
           Body(f) == [i \in 1 .. N |->
                         IF i = 1 THEN ss[i] ELSE f[i - 1] \o ss[i]]
           F == CHOOSE f : f = Body(f)
           Grow(n, t) == IF n + 2 <= N THEN t \o ss[n + 2] ELSE t
           step == [n \in Nat |-> [t \in W |-> Grow(n, t)]]
<1>1. N \in Nat /\ DOMAIN ss = 1 .. N /\ \A i \in 1 .. N : ss[i] \in W
  OBVIOUS
<1>2. CASE N = 0
  <2>1. ss = << >> /\ FlattenSeq(ss) = << >>
    BY <1>2 DEF FlattenSeq
  <2>2. << >> \in Seq(V) /\ \A i \in DOMAIN << >> : FALSE
    OBVIOUS
  <2> QED BY <2>1, <2>2, Zenon
<1>3. CASE N # 0
  <2> HIDE DEF N
  <2>1. 1 \in 1 .. N
    BY <1>1, <1>3
  <2>2. ss[1] \in W /\ \A n \in Nat, t \in W : Grow(n, t) \in W
    <3>1. ASSUME NEW n \in Nat, NEW t \in W, n + 2 <= N
          PROVE  t \o ss[n + 2] \in W
      <4>1. ss[n + 2] \in W
        BY <1>1, <3>1
      <4> QED BY <4>1, ConcatProperties
    <3> QED BY <1>1, <2>1, <3>1
  <2> HIDE DEF W, Grow
  <2>3. PICK h \in [Nat -> W] : Iterates(h, ss[1], step)
    <3>1. step \in Steps(W)
      BY <2>2 DEF Steps
    <3> HIDE DEF step
    <3> QED BY <2>2, <3>1, Iteration
  <2>4. h[0] = ss[1] /\ \A n \in Nat : h[n + 1] = step[n][h[n]]
    BY <2>3 DEF Iterates
  <2> DEFINE g == [i \in 1 .. N |-> h[i - 1]]
  <2>5. g = Body(g)
    <3>1. ASSUME NEW i \in 1 .. N
          PROVE  g[i] = IF i = 1 THEN ss[i] ELSE g[i - 1] \o ss[i]
      <4>1. CASE i = 1
        BY <1>1, <2>4, <4>1
      <4>2. CASE i # 1
        <5>1. /\ i - 2 \in Nat /\ i - 1 \in 1 .. N /\ (i - 2) + 1 = i - 1
              /\ (i - 2) + 2 = i /\ (i - 1) - 1 = i - 2 /\ i <= N
          BY <1>1, <4>2
        <5>2. h[i - 1] = Grow(i - 2, h[i - 2])
          BY <2>4, <5>1
        <5>3. h[i - 1] = h[i - 2] \o ss[i]
          BY <5>1, <5>2 DEF Grow
        <5> QED BY <4>2, <5>1, <5>3
      <4> QED BY <4>1, <4>2
    <3> QED BY <3>1
  <2> HIDE DEF g, step
  <2>6. F = Body(F)
    BY <2>5
  <2>7. FlattenSeq(ss) = F[N]
    BY <1>3 DEF FlattenSeq, N
  <2> HIDE DEF F
  <2>8. /\ F[1] = ss[1]
        /\ \A i \in 2 .. N : F[i] = F[i - 1] \o ss[i]
    <3>1. ASSUME NEW i \in 1 .. N PROVE F[i] = Body(F)[i]
      BY <2>6
    <3>2. F[1] = ss[1]
      BY <2>1, <3>1
    <3>3. ASSUME NEW i \in 2 .. N PROVE F[i] = F[i - 1] \o ss[i]
      <4>1. i \in 1 .. N /\ i # 1
        BY <1>1
      <4> QED BY <3>1, <4>1
    <3> QED BY <3>2, <3>3
  <2> DEFINE Good(n, t) ==
               /\ t \in W
               /\ \A i \in 1 .. n : \A j \in DOMAIN ss[i] :
                    \E k \in DOMAIN t : t[k] = ss[i][j]
               /\ \A k \in DOMAIN t :
                    \E i \in 1 .. n : \E j \in DOMAIN ss[i] : t[k] = ss[i][j]
             S == {n \in Nat : n + 1 <= N => Good(n + 1, F[n + 1])}
  <2>9. 0 \in S
    <3>1. Good(1, ss[1])
      BY <1>1, <2>1
    <3> HIDE DEF Good
    <3> QED BY <2>8, <3>1
  <2>10. ASSUME NEW n \in Nat, n \in S PROVE n + 1 \in S
    <3> SUFFICES ASSUME n + 2 <= N PROVE Good(n + 2, F[n + 2])
      <4> HIDE DEF Good
      <4> QED OBVIOUS
    <3> DEFINE a == F[n + 1]
               b == ss[n + 2]
               c == F[n + 2]
    <3>1. Good(n + 1, a)
      BY <1>1, <2>10
    <3>2. n + 2 \in 2 .. N /\ n + 2 \in 1 .. N /\ (n + 2) - 1 = n + 1
      BY <1>1
    <3>3. b \in W /\ c = a \o b
      BY <1>1, <2>8, <3>2
    <3> HIDE DEF a, b, c
    <3>4. /\ c \in W /\ Len(a) \in Nat /\ Len(b) \in Nat
          /\ DOMAIN a = 1 .. Len(a) /\ DOMAIN b = 1 .. Len(b)
          /\ DOMAIN c = 1 .. Len(a) + Len(b)
          /\ \A k \in 1 .. Len(a) : c[k] = a[k]
          /\ \A k \in 1 .. Len(b) : c[Len(a) + k] = b[k]
      <4>1. c \in W /\ Len(c) = Len(a) + Len(b)
        BY <3>1, <3>3, ConcatProperties DEF W
      <4>2. \A k \in 1 .. Len(a) : c[k] = a[k]
        BY <3>1, <3>3 DEF W
      <4>3. \A k \in 1 .. Len(b) : c[Len(a) + k] = b[k]
        BY <3>1, <3>3 DEF W
      <4>4. /\ Len(a) \in Nat /\ Len(b) \in Nat
            /\ DOMAIN a = 1 .. Len(a) /\ DOMAIN b = 1 .. Len(b)
        <5>1. a \in Seq(V) /\ b \in Seq(V)
          BY <3>1, <3>3, Zenon DEF W
        <5> QED BY <5>1, LenProperties
      <4>5. DOMAIN c = 1 .. Len(c)
        BY <4>1 DEF W
      <4> QED BY <4>1, <4>2, <4>3, <4>4, <4>5
    <3>5. ASSUME NEW i \in 1 .. n + 2, NEW j \in DOMAIN ss[i]
          PROVE  \E k \in DOMAIN c : c[k] = ss[i][j]
      <4>1. CASE i = n + 2
        <5>1. j \in 1 .. Len(b) /\ ss[i][j] = b[j]
          BY <3>4, <3>5, <4>1 DEF b
        <5>2. Len(a) + j \in DOMAIN c /\ c[Len(a) + j] = b[j]
          BY <3>4, <5>1
        <5> QED BY <5>1, <5>2
      <4>2. CASE i # n + 2
        <5>1. i \in 1 .. n + 1
          BY <4>2
        <5>2. PICK k \in DOMAIN a : a[k] = ss[i][j]
          BY <3>1, <3>5, <5>1
        <5>3. k \in DOMAIN c /\ c[k] = a[k]
          BY <3>4, <5>2
        <5> QED BY <5>2, <5>3
      <4> QED BY <4>1, <4>2
    <3>6. ASSUME NEW k \in DOMAIN c
          PROVE  \E i \in 1 .. n + 2 : \E j \in DOMAIN ss[i] : c[k] = ss[i][j]
      <4>1. CASE k \in 1 .. Len(a)
        <5>1. c[k] = a[k] /\ k \in DOMAIN a
          BY <3>4, <4>1
        <5>2. PICK i \in 1 .. n + 1 : \E j \in DOMAIN ss[i] : a[k] = ss[i][j]
          BY <3>1, <5>1
        <5>3. i \in 1 .. n + 2
          OBVIOUS
        <5> QED BY <5>1, <5>2, <5>3
      <4>2. CASE k \notin 1 .. Len(a)
        <5>1. k - Len(a) \in 1 .. Len(b) /\ Len(a) + (k - Len(a)) = k
          BY <3>4, <4>2
        <5>2. c[k] = b[k - Len(a)]
          BY <3>4, <5>1
        <5>3. n + 2 \in 1 .. n + 2 /\ k - Len(a) \in DOMAIN ss[n + 2]
          BY <3>4, <5>1 DEF b
        <5> QED BY <5>2, <5>3 DEF b
      <4> QED BY <4>1, <4>2
    <3> QED BY <3>4, <3>5, <3>6 DEF c
  <2>11. Nat \subseteq S
    <3> HIDE DEF S
    <3> QED BY <2>9, <2>10, SetInduction
  <2>12. Good(N, F[N])
    <3> HIDE DEF Good
    <3>1. N - 1 \in Nat /\ (N - 1) + 1 = N
      BY <1>1, <1>3
    <3> QED BY <2>11, <3>1
  <2> DEFINE t == FlattenSeq(ss)
  <2>13. Good(N, t)
    BY <2>7, <2>12
  <2> HIDE DEF t
  <2>14. /\ t \in Seq(V)
         /\ \A i \in DOMAIN ss : \A j \in DOMAIN ss[i] :
              \E k \in DOMAIN t : t[k] = ss[i][j]
         /\ \A k \in DOMAIN t :
              \E i \in DOMAIN ss : \E j \in DOMAIN ss[i] : t[k] = ss[i][j]
    BY <1>1, <2>13, Zenon DEF W
  <2> QED BY <2>14 DEF t
<1> QED BY <1>2, <1>3
-----------------------------------------------------------------------------
(* Sums.                                                                   *)

\* The partial sums of f up to n.
IsSums(g, f, n) ==
  g[0] = 0 /\ \A k \in 1 .. n : g[k] = g[k - 1] + f[k]

LEMMA SumOfIs ==
  ASSUME NEW n \in Nat, NEW f \in [1 .. n -> Int]
  PROVE  \E g \in [0 .. n -> Int] : IsSums(g, f, n) /\ SumOf(f, n) = g[n]
<1> DEFINE Body(g) == [k \in 0 .. n |-> IF k = 0 THEN 0 ELSE g[k - 1] + f[k]]
           F == CHOOSE g : g = Body(g)
           Add(k, x) == IF k + 1 <= n THEN x + f[k + 1] ELSE x
           step == [k \in Nat |-> [x \in Int |-> Add(k, x)]]
<1>1. \A k \in Nat, x \in Int : Add(k, x) \in Int
  OBVIOUS
<1> HIDE DEF Add
<1>2. PICK h \in [Nat -> Int] : Iterates(h, 0, step)
  <2>1. step \in Steps(Int)
    BY <1>1 DEF Steps
  <2>2. 0 \in Int
    OBVIOUS
  <2> HIDE DEF step
  <2> QED BY <2>1, <2>2, Iteration, Zenon
<1>3. h[0] = 0 /\ \A k \in Nat : h[k + 1] = step[k][h[k]]
  BY <1>2 DEF Iterates
<1> DEFINE g == [k \in 0 .. n |-> h[k]]
<1>4. g \in [0 .. n -> Int]
  OBVIOUS
<1>5. ASSUME NEW k \in 1 .. n PROVE g[k] = g[k - 1] + f[k]
  <2>1. k - 1 \in Nat /\ k - 1 \in 0 .. n /\ (k - 1) + 1 = k /\ k \in 0 .. n
    OBVIOUS
  <2>2. h[k] = Add(k - 1, h[k - 1])
    BY <1>3, <2>1
  <2> QED BY <2>1, <2>2 DEF Add
<1>6. g[0] = 0
  BY <1>3
<1>7. g = Body(g)
  <2>1. ASSUME NEW k \in 0 .. n
        PROVE  g[k] = IF k = 0 THEN 0 ELSE g[k - 1] + f[k]
    <3>1. k # 0 => k \in 1 .. n
      OBVIOUS
    <3> HIDE DEF g
    <3> QED BY <1>5, <1>6, <3>1
  <2> QED BY <2>1
<1> HIDE DEF g, step
<1>8. F = Body(F)
  BY <1>7
<1>9. SumOf(f, n) = F[n]
  BY DEF SumOf
<1> HIDE DEF F
<1>10. F[0] = 0 /\ \A k \in 1 .. n : F[k] = F[k - 1] + f[k]
  <2>1. ASSUME NEW k \in 0 .. n PROVE F[k] = Body(F)[k]
    BY <1>8
  <2> QED BY <2>1
<1>11. F \in [0 .. n -> Int]
  <2> DEFINE S == {k \in Nat : k <= n => F[k] \in Int}
  <2>1. 0 \in S
    BY <1>10
  <2>2. ASSUME NEW k \in Nat, k \in S PROVE k + 1 \in S
    <3> SUFFICES ASSUME k + 1 <= n PROVE F[k + 1] \in Int
      OBVIOUS
    <3>1. k + 1 \in 1 .. n /\ (k + 1) - 1 = k /\ F[k] \in Int
      BY <2>2
    <3>2. F[k + 1] = F[k] + f[k + 1]
      BY <1>10, <3>1
    <3> QED BY <3>1, <3>2
  <2>3. Nat \subseteq S
    <3> HIDE DEF S
    <3> QED BY <2>1, <2>2, SetInduction
  <2>4. \A k \in 0 .. n : F[k] \in Int
    BY <2>3
  <2>5. F = [k \in 0 .. n |-> F[k]]
    BY <1>8
  <2> QED BY <2>4, <2>5
<1> QED BY <1>9, <1>10, <1>11 DEF IsSums

\* A sum of natural numbers is one.
LEMMA SumOfNats ==
  ASSUME NEW n \in Nat, NEW f \in [1 .. n -> Nat]
  PROVE  SumOf(f, n) \in Nat
<1>1. PICK g \in [0 .. n -> Int] : IsSums(g, f, n) /\ SumOf(f, n) = g[n]
  BY SumOfIs
<1> DEFINE S == {k \in Nat : k <= n => g[k] \in Nat}
<1>2. 0 \in S
  BY <1>1 DEF IsSums
<1>3. ASSUME NEW k \in Nat, k \in S PROVE k + 1 \in S
  <2> SUFFICES ASSUME k + 1 <= n PROVE g[k + 1] \in Nat
    OBVIOUS
  <2>1. k + 1 \in 1 .. n /\ (k + 1) - 1 = k /\ g[k] \in Nat
    BY <1>3
  <2>2. g[k + 1] = g[k] + f[k + 1]
    BY <1>1, <2>1 DEF IsSums
  <2> QED BY <2>1, <2>2
<1>4. Nat \subseteq S
  <2> HIDE DEF S
  <2> QED BY <1>2, <1>3, SetInduction
<1> QED BY <1>1, <1>4

\* A sum of nothing but zeros.
LEMMA SumOfZeros ==
  ASSUME NEW n \in Nat, NEW f \in [1 .. n -> {0}]
  PROVE  SumOf(f, n) = 0
<1>1. PICK g \in [0 .. n -> Int] : IsSums(g, f, n) /\ SumOf(f, n) = g[n]
  BY SumOfIs
<1> DEFINE S == {k \in Nat : k <= n => g[k] = 0}
<1>2. 0 \in S
  BY <1>1 DEF IsSums
<1>3. ASSUME NEW k \in Nat, k \in S PROVE k + 1 \in S
  <2> SUFFICES ASSUME k + 1 <= n PROVE g[k + 1] = 0
    OBVIOUS
  <2>1. k + 1 \in 1 .. n /\ (k + 1) - 1 = k /\ g[k] = 0
    BY <1>3
  <2>2. g[k + 1] = g[k] + f[k + 1] /\ f[k + 1] = 0
    BY <1>1, <2>1 DEF IsSums
  <2> QED BY <2>1, <2>2
<1>4. Nat \subseteq S
  <2> HIDE DEF S
  <2> QED BY <1>2, <1>3, SetInduction
<1> QED BY <1>1, <1>4

\* Changing one term changes the sum by the difference.
LEMMA SumOfChange ==
  ASSUME NEW n \in Nat, NEW e \in [1 .. n -> Int], NEW f \in [1 .. n -> Int],
         NEW j \in 1 .. n, \A i \in 1 .. n : i # j => f[i] = e[i]
  PROVE  SumOf(f, n) = SumOf(e, n) + (f[j] - e[j])
<1>1. PICK g \in [0 .. n -> Int] : IsSums(g, e, n) /\ SumOf(e, n) = g[n]
  BY SumOfIs
<1>2. PICK h \in [0 .. n -> Int] : IsSums(h, f, n) /\ SumOf(f, n) = h[n]
  BY SumOfIs
<1> DEFINE d == f[j] - e[j]
           S == {k \in Nat : k <= n =>
                    h[k] = IF j <= k THEN g[k] + d ELSE g[k]}
<1>3. d \in Int
  OBVIOUS
<1>4. 0 \in S
  BY <1>1, <1>2 DEF IsSums
<1>5. ASSUME NEW k \in Nat, k \in S PROVE k + 1 \in S
  <2> SUFFICES ASSUME k + 1 <= n
               PROVE  h[k + 1] = IF j <= k + 1 THEN g[k + 1] + d ELSE g[k + 1]
    OBVIOUS
  <2>1. /\ k + 1 \in 1 .. n /\ (k + 1) - 1 = k /\ k \in 0 .. n
        /\ h[k] = IF j <= k THEN g[k] + d ELSE g[k]
    BY <1>5
  <2>2. g[k + 1] = g[k] + e[k + 1] /\ h[k + 1] = h[k] + f[k + 1]
    BY <1>1, <1>2, <2>1 DEF IsSums
  <2>3. g[k] \in Int /\ h[k] \in Int /\ e[k + 1] \in Int /\ f[k + 1] \in Int
    BY <2>1
  <2>4. CASE j = k + 1
    BY <2>1, <2>2, <2>3, <2>4
  <2>5. CASE j # k + 1
    <3>1. f[k + 1] = e[k + 1] /\ (j <= k + 1 <=> j <= k)
      BY <2>1, <2>5
    <3> HIDE DEF d
    <3> QED BY <1>3, <2>1, <2>2, <2>3, <3>1
  <2> QED BY <2>4, <2>5
<1>6. Nat \subseteq S
  <2> HIDE DEF S
  <2> QED BY <1>4, <1>5, SetInduction
<1>7. h[n] = g[n] + d
  BY <1>6
<1> QED BY <1>1, <1>2, <1>7
-----------------------------------------------------------------------------
(* Decimal numbers.                                                        *)

\* The powers of ten are the function that its equations define.
LEMMA PowersAre ==
  \E h \in [Nat -> Nat \ {0}] :
    /\ h[0] = 1 /\ \A n \in Nat : h[n + 1] = 10 * h[n]
    /\ \A n \in Nat : PowerOfTen(n) = h[n]
<1> DEFINE V == Nat \ {0}
           step == [n \in Nat |-> [x \in V |-> 10 * x]]
<1>1. PICK h \in [Nat -> V] : Iterates(h, 1, step)
  <2>1. step \in Steps(V) /\ 1 \in V
    BY DEF Steps
  <2> HIDE DEF step, V
  <2> QED BY <2>1, Iteration
<1>2. h[0] = 1 /\ \A n \in Nat : h[n + 1] = 10 * h[n]
  BY <1>1 DEF Iterates
<1> HIDE DEF step
<1>3. ASSUME NEW n \in Nat PROVE PowerOfTen(n) = h[n]
  <2> DEFINE Body(f) == [k \in 0 .. n |-> IF k = 0 THEN 1 ELSE 10 * f[k - 1]]
             F == CHOOSE f : f = Body(f)
             g == [k \in 0 .. n |-> h[k]]
  <2>1. g = Body(g)
    <3>1. ASSUME NEW k \in 0 .. n
          PROVE  g[k] = IF k = 0 THEN 1 ELSE 10 * g[k - 1]
      <4>1. CASE k = 0
        BY <1>2, <4>1
      <4>2. CASE k # 0
        <5>1. k - 1 \in Nat /\ k - 1 \in 0 .. n /\ (k - 1) + 1 = k
          BY <4>2
        <5> QED BY <1>2, <4>2, <5>1
      <4> QED BY <4>1, <4>2
    <3> QED BY <3>1
  <2> HIDE DEF g
  <2>2. F = Body(F)
    BY <2>1
  <2>3. PowerOfTen(n) = F[n]
    BY DEF PowerOfTen
  <2> HIDE DEF F
  <2>4. \A k \in 0 .. n : F[k] = IF k = 0 THEN 1 ELSE 10 * F[k - 1]
    <3>1. ASSUME NEW k \in 0 .. n PROVE F[k] = Body(F)[k]
      BY <2>2
    <3> QED BY <3>1
  <2> DEFINE S == {k \in Nat : k <= n => F[k] = h[k]}
  <2>5. 0 \in S
    BY <1>2, <2>4
  <2>6. ASSUME NEW k \in Nat, k \in S PROVE k + 1 \in S
    <3> SUFFICES ASSUME k + 1 <= n PROVE F[k + 1] = h[k + 1]
      OBVIOUS
    <3>1. k + 1 \in 0 .. n /\ k + 1 # 0 /\ (k + 1) - 1 = k /\ F[k] = h[k]
      BY <2>6
    <3>2. F[k + 1] = 10 * F[k]
      BY <2>4, <3>1
    <3> QED BY <1>2, <3>1, <3>2
  <2>7. Nat \subseteq S
    <3> HIDE DEF S
    <3> QED BY <2>5, <2>6, SetInduction
  <2> QED BY <2>3, <2>7
<1> QED BY <1>1, <1>2, <1>3

LEMMA PowerOfTenRecursion ==
  /\ PowerOfTen(0) = 1
  /\ \A n \in Nat : /\ PowerOfTen(n) \in Nat \ {0}
                    /\ PowerOfTen(n + 1) = 10 * PowerOfTen(n)
<1>1. PICK h \in [Nat -> Nat \ {0}] :
        /\ h[0] = 1 /\ \A n \in Nat : h[n + 1] = 10 * h[n]
        /\ \A n \in Nat : PowerOfTen(n) = h[n]
  BY PowersAre
<1>2. ASSUME NEW n \in Nat
      PROVE  /\ PowerOfTen(n) \in Nat \ {0}
             /\ PowerOfTen(n + 1) = 10 * PowerOfTen(n)
  BY <1>1
<1> QED BY <1>1, <1>2

\* Exponents add.
LEMMA PowerOfTenSum ==
  ASSUME NEW m \in Nat, NEW n \in Nat
  PROVE  PowerOfTen(m + n) = PowerOfTen(m) * PowerOfTen(n)
<1> DEFINE S == {k \in Nat : PowerOfTen(m + k) = PowerOfTen(m) * PowerOfTen(k)}
<1>1. 0 \in S
  BY PowerOfTenRecursion
<1>2. ASSUME NEW k \in Nat, k \in S PROVE k + 1 \in S
  <2> DEFINE a == PowerOfTen(m)
             b == PowerOfTen(k)
             c == PowerOfTen(m + k)
  <2>1. m + k \in Nat /\ m + (k + 1) = (m + k) + 1
    OBVIOUS
  <2>2. /\ a \in Nat /\ b \in Nat /\ c \in Nat /\ c = a * b
        /\ PowerOfTen(k + 1) = 10 * b /\ PowerOfTen(m + (k + 1)) = 10 * c
    BY <1>2, <2>1, PowerOfTenRecursion
  <2> HIDE DEF a, b, c
  <2>3. 10 * c = a * (10 * b)
    BY <2>2, Z3
  <2> QED BY <2>2, <2>3 DEF a
<1>3. Nat \subseteq S
  <2> HIDE DEF S
  <2> QED BY <1>1, <1>2, SetInduction
<1> QED BY <1>3

\* The numbers that the first k digits of s stand for.
IsPrefixValue(g, s) ==
  g[0] = 0 /\ \A k \in 1 .. Len(s) : g[k] = 10 * g[k - 1] + s[k]

LEMMA DigitsAre ==
  ASSUME NEW s \in Seq(Nat)
  PROVE  \E g \in [0 .. Len(s) -> Nat] :
           IsPrefixValue(g, s) /\ Digits(s) = g[Len(s)]
<1> DEFINE n == Len(s)
           Body(f) == [k \in 0 .. n |->
                         IF k = 0 THEN 0 ELSE 10 * f[k - 1] + s[k]]
           F == CHOOSE f : f = Body(f)
           Add(k, x) == IF k + 1 <= n THEN 10 * x + s[k + 1] ELSE x
           step == [k \in Nat |-> [x \in Nat |-> Add(k, x)]]
<1>1. n \in Nat /\ \A k \in 1 .. n : s[k] \in Nat
  OBVIOUS
<1>2. Digits(s) = F[n]
  BY DEF Digits
<1> HIDE DEF n
<1>3. \A k \in Nat, x \in Nat : Add(k, x) \in Nat
  BY <1>1
<1> HIDE DEF Add
<1>4. PICK h \in [Nat -> Nat] : Iterates(h, 0, step)
  <2>1. step \in Steps(Nat)
    BY <1>3 DEF Steps
  <2>2. 0 \in Nat
    OBVIOUS
  <2> HIDE DEF step
  <2> QED BY <2>1, <2>2, Iteration, Zenon
<1>5. h[0] = 0 /\ \A k \in Nat : h[k + 1] = step[k][h[k]]
  BY <1>4 DEF Iterates
<1> DEFINE g == [k \in 0 .. n |-> h[k]]
<1>6. g \in [0 .. n -> Nat]
  OBVIOUS
<1>7. ASSUME NEW k \in 1 .. n PROVE g[k] = 10 * g[k - 1] + s[k]
  <2>1. k - 1 \in Nat /\ k - 1 \in 0 .. n /\ (k - 1) + 1 = k /\ k \in 0 .. n
        /\ k <= n
    BY <1>1
  <2>2. h[k] = Add(k - 1, h[k - 1])
    BY <1>5, <2>1
  <2> QED BY <2>1, <2>2 DEF Add
<1>8. g[0] = 0
  BY <1>1, <1>5
<1>9. g = Body(g)
  <2>1. ASSUME NEW k \in 0 .. n
        PROVE  g[k] = IF k = 0 THEN 0 ELSE 10 * g[k - 1] + s[k]
    <3>1. k # 0 => k \in 1 .. n
      OBVIOUS
    <3> HIDE DEF g
    <3> QED BY <1>7, <1>8, <3>1
  <2> QED BY <2>1
<1> HIDE DEF g, step
<1>10. F = Body(F)
  BY <1>9
<1> HIDE DEF F
<1>11. F[0] = 0 /\ \A k \in 1 .. n : F[k] = 10 * F[k - 1] + s[k]
  <2>1. ASSUME NEW k \in 0 .. n PROVE F[k] = Body(F)[k]
    BY <1>10
  <2>2. 0 \in 0 .. n /\ \A k \in 1 .. n : k \in 0 .. n /\ k # 0
    BY <1>1
  <2> QED BY <2>1, <2>2
<1> DEFINE S == {k \in Nat : k <= n => F[k] \in Nat}
<1>12. 0 \in S
  BY <1>11
<1>13. ASSUME NEW k \in Nat, k \in S PROVE k + 1 \in S
  <2> SUFFICES ASSUME k + 1 <= n PROVE F[k + 1] \in Nat
    OBVIOUS
  <2>1. k + 1 \in 1 .. n /\ (k + 1) - 1 = k /\ F[k] \in Nat
    BY <1>1, <1>13
  <2>2. F[k + 1] = 10 * F[k] + s[k + 1] /\ s[k + 1] \in Nat
    BY <1>1, <1>11, <2>1
  <2>3. \A x, y \in Nat : 10 * x + y \in Nat
    OBVIOUS
  <2> QED BY <2>1, <2>2, <2>3
<1>14. Nat \subseteq S
  <2> HIDE DEF S
  <2> QED BY <1>12, <1>13, SetInduction
<1>15. F \in [0 .. n -> Nat]
  <2>1. \A k \in 0 .. n : F[k] \in Nat
    BY <1>14
  <2>2. F = [k \in 0 .. n |-> F[k]]
    BY <1>10
  <2> QED BY <2>1, <2>2
<1> QED BY <1>2, <1>11, <1>15 DEF IsPrefixValue, n

\* Digits of s \o t: those of s move up by as many places as t has.
LEMMA DigitsConcat ==
  ASSUME NEW s \in Seq(Nat), NEW t \in Seq(Nat)
  PROVE  Digits(s \o t) = Digits(s) * PowerOfTen(Len(t)) + Digits(t)
<1> DEFINE m == Len(s)
           n == Len(t)
           u == s \o t
<1>1. /\ m \in Nat /\ n \in Nat /\ u \in Seq(Nat) /\ Len(u) = m + n
      /\ \A k \in 1 .. m : u[k] = s[k]
      /\ \A k \in 1 .. n : u[m + k] = t[k]
  BY ConcatProperties
<1>2. PICK a \in [0 .. m -> Nat] : IsPrefixValue(a, s) /\ Digits(s) = a[m]
  BY DigitsAre
<1>3. PICK b \in [0 .. n -> Nat] : IsPrefixValue(b, t) /\ Digits(t) = b[n]
  BY DigitsAre
<1>4. PICK g \in [0 .. Len(u) -> Nat] :
        IsPrefixValue(g, u) /\ Digits(u) = g[Len(u)]
  BY <1>1, DigitsAre
<1>5. /\ a[0] = 0 /\ \A k \in 1 .. m : a[k] = 10 * a[k - 1] + s[k]
      /\ b[0] = 0 /\ \A k \in 1 .. n : b[k] = 10 * b[k - 1] + t[k]
      /\ g[0] = 0 /\ \A k \in 1 .. m + n : g[k] = 10 * g[k - 1] + u[k]
      /\ Digits(u) = g[m + n] /\ g \in [0 .. m + n -> Nat]
  BY <1>1, <1>2, <1>3, <1>4 DEF IsPrefixValue
<1>6. \A k \in 1 .. n : t[k] \in Nat
  OBVIOUS
<1> HIDE DEF m, n, u
<1> DEFINE S == {k \in Nat : k <= m => g[k] = a[k]}
<1>7. 0 \in S
  BY <1>5
<1>8. ASSUME NEW k \in Nat, k \in S PROVE k + 1 \in S
  <2> SUFFICES ASSUME k + 1 <= m PROVE g[k + 1] = a[k + 1]
    OBVIOUS
  <2>1. /\ k + 1 \in 1 .. m /\ k + 1 \in 1 .. m + n /\ (k + 1) - 1 = k
        /\ g[k] = a[k]
    BY <1>1, <1>8
  <2>2. a[k + 1] = 10 * a[k] + s[k + 1] /\ g[k + 1] = 10 * g[k] + u[k + 1]
    BY <1>5, <2>1
  <2> QED BY <1>1, <2>1, <2>2
<1>9. g[m] = a[m]
  <2>1. Nat \subseteq S
    <3> HIDE DEF S
    <3> QED BY <1>7, <1>8, SetInduction
  <2> QED BY <1>1, <2>1
<1> DEFINE A == a[m]
           T == {k \in Nat : k <= n => g[m + k] = A * PowerOfTen(k) + b[k]}
<1>10. A \in Nat
  BY <1>1
<1> HIDE DEF A
<1>11. 0 \in T
  BY <1>1, <1>5, <1>9, <1>10, PowerOfTenRecursion DEF A
<1>12. ASSUME NEW k \in Nat, k \in T PROVE k + 1 \in T
  <2> SUFFICES ASSUME k + 1 <= n
               PROVE  g[m + (k + 1)] = A * PowerOfTen(k + 1) + b[k + 1]
    OBVIOUS
  <2> DEFINE p == PowerOfTen(k)
             x == A * p
  <2>1. /\ k + 1 \in 1 .. n /\ m + (k + 1) \in 1 .. m + n /\ (k + 1) - 1 = k
        /\ (m + (k + 1)) - 1 = m + k /\ k \in 0 .. n /\ k <= n
    BY <1>1
  <2>2. /\ b[k + 1] = 10 * b[k] + t[k + 1]
        /\ g[m + (k + 1)] = 10 * g[m + k] + u[m + (k + 1)]
        /\ u[m + (k + 1)] = t[k + 1] /\ t[k + 1] \in Nat /\ b[k] \in Nat
    BY <1>1, <1>5, <1>6, <2>1
  <2>3. g[m + k] = x + b[k]
    BY <1>12, <2>1
  <2>4. p \in Nat /\ PowerOfTen(k + 1) = 10 * p
    BY PowerOfTenRecursion
  <2> HIDE DEF p
  <2>5. x \in Nat /\ A * (10 * p) = 10 * x
    BY <1>10, <2>4, Z3
  <2> HIDE DEF x
  <2> DEFINE y == b[k]
             d == t[k + 1]
  <2>6. /\ g[m + (k + 1)] = 10 * (x + y) + d /\ b[k + 1] = 10 * y + d
        /\ A * PowerOfTen(k + 1) = 10 * x /\ y \in Nat /\ d \in Nat
    BY <2>2, <2>3, <2>4, <2>5
  <2> HIDE DEF y, d
  <2>7. 10 * (x + y) + d = 10 * x + (10 * y + d)
    BY <2>5, <2>6
  <2> QED BY <2>6, <2>7
<1>13. Nat \subseteq T
  <2> HIDE DEF T
  <2> QED BY <1>11, <1>12, SetInduction
<1>14. g[m + n] = A * PowerOfTen(n) + b[n]
  BY <1>1, <1>13
<1> QED BY <1>2, <1>3, <1>5, <1>14 DEF A, m, n, u

\* n digits make a number below the n-th power of ten.
LEMMA DigitsBound ==
  ASSUME NEW s \in Seq(0 .. 9)
  PROVE  Digits(s) \in Nat /\ Digits(s) < PowerOfTen(Len(s))
<1> DEFINE n == Len(s)
<1>1. s \in Seq(Nat) /\ n \in Nat /\ \A k \in 1 .. n : s[k] \in 0 .. 9
  OBVIOUS
<1>2. PICK g \in [0 .. n -> Nat] : IsPrefixValue(g, s) /\ Digits(s) = g[n]
  BY <1>1, DigitsAre
<1>3. g[0] = 0 /\ \A k \in 1 .. n : g[k] = 10 * g[k - 1] + s[k]
  BY <1>2 DEF IsPrefixValue
<1> HIDE DEF n
<1> DEFINE S == {k \in Nat : k <= n => g[k] < PowerOfTen(k)}
<1>4. 0 \in S
  BY <1>3, PowerOfTenRecursion
<1>5. ASSUME NEW k \in Nat, k \in S PROVE k + 1 \in S
  <2> SUFFICES ASSUME k + 1 <= n PROVE g[k + 1] < PowerOfTen(k + 1)
    OBVIOUS
  <2>1. k + 1 \in 1 .. n /\ (k + 1) - 1 = k /\ k \in 0 .. n
    BY <1>1
  <2>2. /\ g[k + 1] = 10 * g[k] + s[k + 1] /\ s[k + 1] \in 0 .. 9
        /\ g[k] < PowerOfTen(k) /\ g[k] \in Nat
    BY <1>1, <1>3, <1>5, <2>1
  <2>3. PowerOfTen(k) \in Nat /\ PowerOfTen(k + 1) = 10 * PowerOfTen(k)
    BY PowerOfTenRecursion
  <2>4. \A x, p \in Nat, d \in 0 .. 9 : x < p => 10 * x + d < 10 * p
    OBVIOUS
  <2>5. 10 * g[k] + s[k + 1] < 10 * PowerOfTen(k)
    BY <2>2, <2>3, <2>4
  <2> QED BY <2>2, <2>3, <2>5
<1>6. Nat \subseteq S
  <2> HIDE DEF S
  <2> QED BY <1>4, <1>5, SetInduction
<1> QED BY <1>1, <1>2, <1>6 DEF n
=============================================================================
