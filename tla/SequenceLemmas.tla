--------------------------- MODULE SequenceLemmas ---------------------------
(***************************************************************************)
(* Facts about the sequence operators the models are built from.  What a   *)
(* recursive function computes is shown by induction over the naturals;    *)
(* the induction principle is stated for a set and comes from the          *)
(* well-foundedness of < on Nat.                                           *)
(***************************************************************************)
EXTENDS SequencesExt, SequenceTheorems, WellFoundedInduction, TLAPS

-----------------------------------------------------------------------------

\* A set of natural numbers has a least element.
LEMMA LeastNat ==
    ASSUME NEW T \in SUBSET Nat, T # {}
    PROVE  \E n \in T : \A m \in T : n <= m
<1> DEFINE R == OpToRel(<, Nat)
<1>1. IsWellFoundedOn(R, Nat)
  BY NatLessThanWellFounded
<1>2. \A m, n \in Nat : m < n => <<m, n>> \in R
  BY DEF OpToRel
<1> HIDE DEF R
<1>3. PICK n \in T : \A m \in T : ~(<<m, n>> \in R)
  BY <1>1, WFMin
<1>4. \A m \in T : n \in Nat /\ m \in Nat /\ ~(m < n)
  BY <1>2, <1>3
<1> QED
  BY <1>4

\* Induction up to n.
LEMMA InductUpTo ==
    ASSUME NEW n \in Nat, NEW T, 0 \in T, \A i \in 0..n - 1 : i \in T => i + 1 \in T
    PROVE  \A i \in 0..n : i \in T
<1> DEFINE U == (0..n) \ T
<1> SUFFICES ASSUME U # {} PROVE FALSE
  OBVIOUS
<1>0. U \in SUBSET Nat
  OBVIOUS
<1> HIDE DEF U
<1>1. PICK i \in U : \A m \in U : i <= m
  BY <1>0, LeastNat
<1> USE DEF U
<1>2. i # 0 /\ i \in 1..n
  BY <1>1
<1>3. i - 1 \in 0..n - 1 /\ i - 1 \in 0..n
  BY <1>2
<1>4. i - 1 \in T
  BY <1>1, <1>2, <1>3
<1>5. (i - 1) + 1 \in T
  BY <1>3, <1>4
<1> QED
  BY <1>1, <1>2, <1>5

\* A loop over 1..n, from a, with a step for each round, can be run.
Runs(n, a, step, f) == f[0] = a /\ \A e \in 1..n : f[e] = step[e][f[e - 1]]
LEMMA LoopExists ==
    ASSUME NEW n \in Nat, NEW V, NEW a \in V, NEW step \in [1..n -> [V -> V]]
    PROVE  \E f \in [0..n -> V] : Runs(n, a, step, f)
<1> DEFINE T == {k \in 0..n : \E f \in [0..k -> V] : Runs(k, a, step, f)}
<1>1. 0 \in T
  <2> DEFINE f == [i \in 0..0 |-> a]
  <2>1. f \in [0..0 -> V] /\ f[0] = a /\ 1..0 = {} /\ 0 \in 0..n
    OBVIOUS
  <2> HIDE DEF f
  <2> QED
    BY <2>1 DEF Runs
<1>2. ASSUME NEW k \in 0..n - 1, k \in T
      PROVE  k + 1 \in T
  <2>1. PICK f \in [0..k -> V] : Runs(k, a, step, f)
    BY <1>2
  <2> DEFINE g == [i \in 0..k + 1 |-> IF i = k + 1 THEN step[k + 1][f[k]] ELSE f[i]]
  <2>2. k + 1 \in 1..n /\ k \in 0..k /\ k + 1 \in 0..n
    OBVIOUS
  <2>3. step[k + 1][f[k]] \in V
    BY <2>2
  <2>4. \A i \in 0..k + 1 : i # k + 1 => i \in 0..k
    OBVIOUS
  <2>5. g \in [0..k + 1 -> V]
    BY <2>3, <2>4
  <2>6. g[k + 1] = step[k + 1][f[k]] /\ \A i \in 0..k : g[i] = f[i]
    OBVIOUS
  <2> HIDE DEF g
  <2>7. ASSUME NEW e \in 1..k + 1
        PROVE  g[e] = step[e][g[e - 1]]
    <3>1. CASE e = k + 1
      BY <2>2, <2>6, <3>1
    <3>2. CASE e # k + 1
      <4>1. e \in 1..k /\ e \in 0..k /\ e - 1 \in 0..k
        BY <3>2
      <4> QED
        BY <2>1, <2>6, <4>1 DEF Runs
    <3> QED
      BY <3>1, <3>2
  <2>8. g[0] = a
    BY <2>1, <2>6 DEF Runs
  <2> QED
    BY <2>2, <2>5, <2>7, <2>8 DEF Runs
<1> HIDE DEF T
<1>3. \A k \in 0..n : k \in T
  BY <1>1, <1>2, InductUpTo
<1>4. n \in T
  BY <1>3
<1> QED
  BY <1>4 DEF T

\* What a loop starts with and every round keeps, it ends with.
LEMMA LoopStays ==
    ASSUME NEW n \in Nat, NEW V, NEW f, f[0] \in V,
           \A e \in 1..n : f[e - 1] \in V => f[e] \in V
    PROVE  \A e \in 0..n : f[e] \in V
<1> DEFINE T == {e \in 0..n : f[e] \in V}
<1>1. 0 \in T
  OBVIOUS
<1>2. ASSUME NEW e \in 0..n - 1, e \in T
      PROVE  e + 1 \in T
  <2>1. e + 1 \in 1..n /\ e + 1 - 1 = e /\ e + 1 \in 0..n
    OBVIOUS
  <2>2. f[e + 1 - 1] \in V
    BY <1>2, <2>1
  <2> QED
    BY <2>1, <2>2
<1> HIDE DEF T
<1>3. \A e \in 0..n : e \in T
  BY <1>1, <1>2, InductUpTo
<1> QED
  BY <1>3 DEF T

\* Min and Max of a set of positions are what their names say.
LEMMA MinPosition ==
    ASSUME NEW n \in Nat, NEW I \in SUBSET (1..n), I # {}
    PROVE  Min(I) \in I /\ \A i \in I : Min(I) <= i
<1>1. \E x \in I : \A y \in I : x <= y
  BY LeastNat
<1> QED
  BY <1>1 DEF Min

LEMMA MaxPosition ==
    ASSUME NEW n \in Nat, NEW I \in SUBSET (1..n), I # {}
    PROVE  Max(I) \in I /\ \A i \in I : i <= Max(I)
<1> DEFINE D == {n - i : i \in I}
<1>0. \A i \in I : n - i \in Nat /\ i \in Int
  OBVIOUS
<1>1. D \in SUBSET Nat /\ D # {}
  BY <1>0
<1>2. PICK d \in D : \A e \in D : d <= e
  BY <1>1, LeastNat
<1>3. PICK x \in I : d = n - x
  OBVIOUS
<1>4. \A y \in I : n - x <= n - y
  BY <1>2, <1>3
<1>5. \A y \in I : x >= y
  BY <1>0, <1>4
<1> QED
  BY <1>5 DEF Max

-----------------------------------------------------------------------------
\* FlattenSeq of one sequence more.

Flattening(s, f) ==
    f = [i \in 1..Len(s) |-> IF i = 1 THEN s[i] ELSE f[i - 1] \o s[i]]

\* The recursion of FlattenSeq has a solution, of sequences.
LEMMA FlattenExists ==
    ASSUME NEW S, NEW s \in Seq(Seq(S))
    PROVE  \E f \in [1..Len(s) -> Seq(S)] : Flattening(s, f)
<1> DEFINE T == {n \in 0..Len(s) : \E f \in [1..n -> Seq(S)] :
                    f = [i \in 1..n |-> IF i = 1 THEN s[i] ELSE f[i - 1] \o s[i]]}
<1>1. Len(s) \in Nat /\ \A i \in 1..Len(s) : s[i] \in Seq(S)
  OBVIOUS
<1>2. 0 \in T
  <2> DEFINE f == [i \in 1..0 |-> <<>>]
  <2>1. f \in [1..0 -> Seq(S)] /\ f = [i \in 1..0 |-> IF i = 1 THEN s[i] ELSE f[i - 1] \o s[i]]
    OBVIOUS
  <2>2. 0 \in 0..Len(s)
    BY <1>1
  <2> HIDE DEF f
  <2> QED
    BY <2>1, <2>2
<1>3. ASSUME NEW n \in 0..Len(s) - 1, n \in T
      PROVE  n + 1 \in T
  <2>1. PICK f \in [1..n -> Seq(S)] : f = [i \in 1..n |-> IF i = 1 THEN s[i] ELSE f[i - 1] \o s[i]]
    BY <1>3
  <2> DEFINE g == [i \in 1..n + 1 |-> IF i \in 1..n THEN f[i]
                                      ELSE IF i = 1 THEN s[i] ELSE f[n] \o s[i]]
  <2>2. \A i \in 1..n + 1 : i \in 1..n \/ i = n + 1
    BY <1>1
  <2>3. n + 1 # 1 => n \in 1..n
    BY <1>1
  <2>4. ASSUME NEW i \in 1..n + 1
        PROVE  g[i] \in Seq(S)
    <3>1. s[i] \in Seq(S)
      BY <1>1
    <3>2. n + 1 # 1 => f[n] \o s[i] \in Seq(S)
      BY <2>3, <3>1, ConcatProperties
    <3> QED
      BY <2>2, <3>1, <3>2
  <2>5. ASSUME NEW i \in 1..n + 1
        PROVE  g[i] = IF i = 1 THEN s[i] ELSE g[i - 1] \o s[i]
    <3>1. CASE i \in 1..n
      <4>1. g[i] = f[i] /\ f[i] = IF i = 1 THEN s[i] ELSE f[i - 1] \o s[i]
        BY <2>1, <3>1
      <4>2. i # 1 => i - 1 \in 1..n /\ i - 1 \in 1..n + 1
        BY <1>1, <3>1
      <4>3. i # 1 => g[i - 1] = f[i - 1]
        BY <4>2
      <4> QED
        BY <4>1, <4>3
    <3>2. CASE i = n + 1
      <4>1. i \notin 1..n /\ (i # 1 => i - 1 = n /\ n \in 1..n /\ n \in 1..n + 1)
        BY <1>1, <3>2
      <4>2. g[i] = IF i = 1 THEN s[i] ELSE f[n] \o s[i]
        BY <4>1
      <4>3. i # 1 => g[n] = f[n]
        BY <4>1
      <4> QED
        BY <4>1, <4>2, <4>3
    <3> QED
      BY <2>2, <3>1, <3>2
  <2>6. g \in [1..n + 1 -> Seq(S)]
    BY <2>4
  <2>7. g = [i \in 1..n + 1 |-> IF i = 1 THEN s[i] ELSE g[i - 1] \o s[i]]
    BY <2>5
  <2>8. n + 1 \in 0..Len(s)
    BY <1>1
  <2> HIDE DEF g
  <2> QED
    BY <2>6, <2>7, <2>8
<1> HIDE DEF T
<1>4. \A n \in 0..Len(s) : n \in T
  BY <1>1, <1>2, <1>3, InductUpTo
<1>5. Len(s) \in T
  BY <1>1, <1>4
<1> QED
  BY <1>5 DEF T, Flattening

LEMMA FlattenAt ==
    ASSUME NEW s, NEW f, Flattening(s, f), NEW i \in 1..Len(s)
    PROVE  f[i] = IF i = 1 THEN s[i] ELSE f[i - 1] \o s[i]
<1> DEFINE h == [j \in 1..Len(s) |-> IF j = 1 THEN s[j] ELSE f[j - 1] \o s[j]]
<1>1. f = h
  BY DEF Flattening
<1>2. h[i] = IF i = 1 THEN s[i] ELSE f[i - 1] \o s[i]
  OBVIOUS
<1> HIDE DEF h
<1>3. f[i] = h[i]
  BY <1>1
<1> QED
  BY <1>2, <1>3

Begins(s, t) ==
    /\ Len(s) \in Nat /\ Len(t) \in Nat /\ Len(s) <= Len(t)
    /\ \A i \in 1..Len(s) : s[i] = t[i]

\* The solution of the recursion is a function of the sequence's beginning.
LEMMA FlattenAgree ==
    ASSUME NEW s, NEW t, Begins(s, t), NEW f, NEW g, Flattening(s, f), Flattening(t, g)
    PROVE  \A i \in 1..Len(s) : f[i] = g[i]
<1> USE DEF Begins
<1> DEFINE n == Len(s)
           T == {i \in 0..n : i # 0 => f[i] = g[i]}
<1>1. 0 \in T
  OBVIOUS
<1>2. ASSUME NEW i \in 0..n - 1, i \in T
      PROVE  i + 1 \in T
  <2>1. i + 1 \in 1..n /\ i + 1 \in 1..Len(s) /\ i + 1 \in 1..Len(t) /\ i + 1 \in 0..n
    OBVIOUS
  <2>2. /\ f[i + 1] = IF i + 1 = 1 THEN s[i + 1] ELSE f[i + 1 - 1] \o s[i + 1]
        /\ g[i + 1] = IF i + 1 = 1 THEN t[i + 1] ELSE g[i + 1 - 1] \o t[i + 1]
    BY <2>1, FlattenAt
  <2>3. i + 1 # 1 => i + 1 - 1 = i /\ f[i] = g[i]
    BY <1>2
  <2> QED
    BY <2>1, <2>2, <2>3
<1> HIDE DEF T
<1>3. \A i \in 0..n : i \in T
  BY <1>1, <1>2, InductUpTo
<1>4. \A i \in 1..n : i \in 0..n /\ i # 0
  OBVIOUS
<1> QED
  BY <1>3, <1>4 DEF T

\* FlattenSeq is the last value of the solution.
LEMMA FlattenSeqIs ==
    ASSUME NEW S, NEW s \in Seq(Seq(S)), Len(s) # 0
    PROVE  \E f \in [1..Len(s) -> Seq(S)] : Flattening(s, f) /\ FlattenSeq(s) = f[Len(s)]
<1> DEFINE c == CHOOSE f : Flattening(s, f)
<1>1. PICK f \in [1..Len(s) -> Seq(S)] : Flattening(s, f)
  BY FlattenExists
<1>2. Flattening(s, c)
  BY <1>1
<1>3. FlattenSeq(s) = c[Len(s)]
  BY DEF FlattenSeq, Flattening
<1> HIDE DEF c
<1>4. \A i \in 1..Len(s) : c[i] = f[i]
  <2>1. Begins(s, s)
    BY DEF Begins
  <2> QED
    BY <1>1, <1>2, <2>1, FlattenAgree
<1>5. Len(s) \in 1..Len(s)
  OBVIOUS
<1> QED
  BY <1>1, <1>3, <1>4, <1>5

\* FlattenSeq concatenates: of one sequence more it is longer by that sequence.
LEMMA FlattenAppend ==
    ASSUME NEW S, NEW s \in Seq(Seq(S)), NEW x \in Seq(S)
    PROVE  /\ FlattenSeq(s) \in Seq(S)
           /\ FlattenSeq(Append(s, x)) = FlattenSeq(s) \o x
<1> DEFINE u == Append(s, x)
<1>1. /\ u \in Seq(Seq(S)) /\ Len(u) = Len(s) + 1 /\ Len(s) \in Nat
      /\ \A i \in 1..Len(s) : u[i] = s[i]
      /\ u[Len(s) + 1] = x
  OBVIOUS
<1> HIDE DEF u
<1>2. PICK g \in [1..Len(u) -> Seq(S)] : Flattening(u, g) /\ FlattenSeq(u) = g[Len(u)]
  BY <1>1, FlattenSeqIs
<1>3. Len(u) \in 1..Len(u)
  BY <1>1
<1>4. g[Len(u)] = IF Len(u) = 1 THEN u[Len(u)] ELSE g[Len(u) - 1] \o u[Len(u)]
  BY <1>2, <1>3, FlattenAt
<1>5. CASE Len(s) = 0
  <2>1. s = <<>>
    BY <1>5
  <2>2. FlattenSeq(s) = <<>>
    BY <1>5, <2>1 DEF FlattenSeq
  <2>3. FlattenSeq(u) = x
    BY <1>1, <1>2, <1>4, <1>5
  <2> QED
    BY <2>2, <2>3, ConcatEmptySeq DEF u
<1>6. CASE Len(s) # 0
  <2>1. PICK f \in [1..Len(s) -> Seq(S)] : Flattening(s, f) /\ FlattenSeq(s) = f[Len(s)]
    BY <1>6, FlattenSeqIs
  <2>2. \A i \in 1..Len(s) : f[i] = g[i]
    <3>1. Begins(s, u)
      BY <1>1 DEF Begins
    <3>2. Flattening(s, f) /\ Flattening(u, g)
      BY <1>2, <2>1
    <3>3. ASSUME NEW f1, NEW g1, Flattening(s, f1), Flattening(u, g1)
          PROVE  \A i \in 1..Len(s) : f1[i] = g1[i]
      BY <3>1, <3>3, FlattenAgree
    <3> QED
      BY ONLY <3>2, <3>3
  <2>3. Len(s) \in 1..Len(s) /\ Len(u) # 1 /\ Len(u) - 1 = Len(s)
    BY <1>1, <1>6
  <2> QED
    BY <1>1, <1>2, <1>4, <2>1, <2>2, <2>3 DEF u
<1> QED
  BY <1>5, <1>6

\* Nothing concatenated is nothing.
LEMMA FlattenNothing ==
    ASSUME NEW S, NEW n \in Nat
    PROVE  FlattenSeq([i \in 1..n |-> <<>>]) = <<>>
<1> DEFINE s(k) == [i \in 1..k |-> <<>>]
           T == {k \in 0..n : FlattenSeq(s(k)) = <<>>}
<1>1. 0 \in T
  <2>1. Len(s(0)) = 0 /\ s(0) = <<>>
    OBVIOUS
  <2> HIDE DEF s
  <2>2. FlattenSeq(s(0)) = <<>>
    BY <2>1 DEF FlattenSeq
  <2> QED
    BY <2>2
<1>2. ASSUME NEW k \in 0..n - 1, k \in T
      PROVE  k + 1 \in T
  <2>1. <<>> \in Seq(S) /\ s(k) \in Seq(Seq(S))
    OBVIOUS
  <2>2. s(k + 1) = Append(s(k), <<>>)
    OBVIOUS
  <2> HIDE DEF s
  <2>3. FlattenSeq(s(k + 1)) = FlattenSeq(s(k)) \o <<>>
    BY <2>1, <2>2, FlattenAppend
  <2>4. FlattenSeq(s(k)) = <<>> /\ k + 1 \in 0..n
    BY <1>2
  <2> QED
    BY <2>1, <2>3, <2>4, ConcatEmptySeq
<1> HIDE DEF T
<1>3. \A k \in 0..n : k \in T
  BY <1>1, <1>2, InductUpTo
<1> QED
  BY <1>3 DEF T

-----------------------------------------------------------------------------
\* A sequence that ends as a longer one does is its suffix.
LEMMA SuffixByIndex ==
    ASSUME NEW S, NEW s \in Seq(S), NEW t \in Seq(S), Len(s) <= Len(t),
           \A i \in 1..Len(s) : s[i] = t[Len(t) - Len(s) + i]
    PROVE  IsSuffix(s, t)
<1> DEFINE m == Len(s)
           n == Len(t)
           r == Reverse(s)
           q == Reverse(t)
<1>1. m \in Nat /\ n \in Nat /\ m <= n
  OBVIOUS
<1>2. /\ r \in Seq(S) /\ Len(r) = m /\ \A i \in 1..m : r[i] = s[m - i + 1]
      /\ q \in Seq(S) /\ Len(q) = n /\ \A i \in 1..n : q[i] = t[n - i + 1]
  BY <1>1 DEF Reverse
<1> HIDE DEF r, q
<1>3. ASSUME NEW i \in 1..m
      PROVE  r[i] = q[i]
  <2>1. i \in 1..n /\ m - i + 1 \in 1..m
    BY <1>1
  <2>2. s[m - i + 1] = t[n - m + (m - i + 1)]
    BY <2>1
  <2>3. n - m + (m - i + 1) = n - i + 1
    BY <1>1
  <2> QED
    BY <1>2, <2>1, <2>2, <2>3
<1>4. SubSeq(r, 1, m) = SubSeq(q, 1, m)
  BY <1>1, <1>2, <1>3
<1>5. IsPrefix(r, q)
  BY <1>1, <1>2, <1>4 DEF IsPrefix
<1> QED
  BY <1>5 DEF IsSuffix, r, q

=============================================================================
