--------------------------- MODULE SequenceLemmas ---------------------------
(***************************************************************************)
(* Lemmas about sequences, for all lengths: what is picked from one, a     *)
(* sequence of sequences flattened, and an element removed.  What a        *)
(* recursive function computes for every length is proved by induction     *)
(* over the set of lengths for which it is so.                             *)
(***************************************************************************)
EXTENDS Picking, SequencesExt, SequenceTheorems, FiniteSetTheorems, WellFoundedInduction, TLAPS

-----------------------------------------------------------------------------
(* Induction over the natural numbers, in terms of sets.                    *)

LEMMA LeastNumber ==
  ASSUME NEW T, T \subseteq Nat, T # {}
  PROVE  \E n \in T : \A k \in T : n <= k
<1>1. PICK n \in T : \A k \in T : ~(<<k, n>> \in OpToRel(<, Nat))
  BY WFMin, NatLessThanWellFounded
<1>2. ASSUME NEW k \in T PROVE n <= k
  <2>1. n \in Nat /\ k \in Nat
    OBVIOUS
  <2>2. SUFFICES ASSUME k < n PROVE FALSE
    BY <2>1
  <2>3. <<k, n>> \in OpToRel(<, Nat)
    BY <2>1, <2>2 DEF OpToRel
  <2> QED
    BY <1>1, <2>3
<1> QED
  BY <1>2

LEMMA SetInduction ==
  ASSUME NEW S, 0 \in S, \A n \in Nat : n \in S => n + 1 \in S
  PROVE  Nat \subseteq S
<1> SUFFICES ASSUME Nat \ S # {} PROVE FALSE
  OBVIOUS
<1>1. PICK n \in Nat \ S : \A k \in Nat \ S : n <= k
  BY LeastNumber
<1>2. n # 0 /\ n - 1 \in Nat /\ (n - 1) + 1 = n /\ ~(n <= n - 1)
  OBVIOUS
<1> QED
  BY <1>1, <1>2

LEMMA AtMostOne ==
  ASSUME NEW S, \A x, y \in S : x = y
  PROVE  Cardinality(S) = IF S = {} THEN 0 ELSE 1
<1>1. CASE S = {}
  BY <1>1, FS_EmptySet
<1>2. CASE S # {}
  <2>1. PICK x \in S : TRUE
    BY <1>2
  <2>2. S = {x}
    OBVIOUS
  <2>3. Cardinality(S) = 1
    BY <2>2, FS_Singleton
  <2> QED
    BY <1>2, <2>3
<1> QED
  BY <1>1, <1>2

-----------------------------------------------------------------------------
(* The elements picked from a sequence.                                     *)

(* What the recursive function of Picked says of one prefix.                *)
PickStep(f, s, places, n) ==
  IF n = 0 THEN <<>>
  ELSE IF n \in places THEN Append(f[n - 1], s[n])
  ELSE f[n - 1]

IsPicking(f, s, places, n) == f = [i \in 0..n |-> PickStep(f, s, places, i)]

LEMMA PickingExtended ==
  ASSUME NEW s, NEW places, NEW n \in Nat, NEW f, IsPicking(f, s, places, n)
  PROVE  \E g : IsPicking(g, s, places, n + 1)
<1> DEFINE g == [i \in 0..(n + 1) |-> IF i = n + 1 THEN PickStep(f, s, places, n + 1) ELSE f[i]]
<1>1. ASSUME NEW i \in 0..(n + 1) PROVE g[i] = PickStep(g, s, places, i)
  <2>1. i = 0 \/ (i - 1 \in 0..n /\ g[i - 1] = f[i - 1])
    OBVIOUS
  <2>2. PickStep(g, s, places, i) = PickStep(f, s, places, i)
    BY <2>1 DEF PickStep
  <2>3. i # n + 1 => i \in 0..n /\ f[i] = PickStep(f, s, places, i)
    BY DEF IsPicking
  <2> QED
    BY <2>2, <2>3
<1>2. g = [i \in 0..(n + 1) |-> g[i]]
  OBVIOUS
<1>3. g = [i \in 0..(n + 1) |-> PickStep(g, s, places, i)]
  <2> HIDE DEF g
  <2> QED
    BY <1>1, <1>2
<1> QED
  BY <1>3 DEF IsPicking

LEMMA PickingExists ==
  ASSUME NEW s, NEW places, NEW n \in Nat
  PROVE  \E f : IsPicking(f, s, places, n)
<1> DEFINE S == {k \in Nat : \E f : IsPicking(f, s, places, k)}
<1>1. 0 \in S
  <2> DEFINE f == [i \in 0..0 |-> <<>>]
  <2>1. f = [i \in 0..0 |-> PickStep(f, s, places, i)]
    BY DEF PickStep
  <2> QED
    BY <2>1 DEF IsPicking
<1>2. ASSUME NEW k \in Nat, k \in S PROVE k + 1 \in S
  BY <1>2, PickingExtended
<1> HIDE DEF S
<1>3. Nat \subseteq S
  BY <1>1, <1>2, SetInduction
<1> QED
  BY <1>3 DEF S

LEMMA PickedIsPicking ==
  ASSUME NEW s, NEW places, Len(s) \in Nat
  PROVE  \E f : IsPicking(f, s, places, Len(s)) /\ Picked(s, places) = f[Len(s)]
<1> DEFINE f == CHOOSE f : f = [n \in 0..Len(s) |->
                   IF n = 0 THEN <<>>
                   ELSE IF n \in places THEN Append(f[n - 1], s[n])
                   ELSE f[n - 1]]
<1>1. Picked(s, places) = f[Len(s)]
  BY DEF Picked
<1>2. PICK g : IsPicking(g, s, places, Len(s))
  BY PickingExists
<1>3. f = [n \in 0..Len(s) |->
                   IF n = 0 THEN <<>>
                   ELSE IF n \in places THEN Append(f[n - 1], s[n])
                   ELSE f[n - 1]]
  BY <1>2 DEF IsPicking, PickStep
<1>4. IsPicking(f, s, places, Len(s))
  <2> HIDE DEF f
  <2> QED
    BY <1>3 DEF IsPicking, PickStep
<1> QED
  BY <1>1, <1>4

(* Where each element of the sequence t was in the first n places of s: t   *)
(* holds what stood at the places asked for, in order, each of them once.   *)
ComesFrom(h, t, s, places, n) ==
  /\ h \in [DOMAIN t -> places \intersect (1..n)]
  /\ \A i \in DOMAIN t : t[i] = s[h[i]]
  /\ \A i, j \in DOMAIN t : i < j => h[i] < h[j]
  /\ \A k \in places \intersect (1..n) : \E i \in DOMAIN t : h[i] = k

LEMMA ComesFromExtended ==
  ASSUME NEW A, NEW t \in Seq(A), NEW s, NEW places, NEW n \in Nat,
         n + 1 \in places, s[n + 1] \in A,
         NEW h, ComesFrom(h, t, s, places, n)
  PROVE  \E g : ComesFrom(g, Append(t, s[n + 1]), s, places, n + 1)
<1> DEFINE u == Append(t, s[n + 1])
           g == [i \in DOMAIN u |-> IF i = Len(u) THEN n + 1 ELSE h[i]]
<1>1. /\ Len(t) \in Nat /\ DOMAIN t = 1..Len(t)
      /\ Len(u) = Len(t) + 1 /\ DOMAIN u = 1..Len(u)
      /\ u[Len(u)] = s[n + 1]
      /\ \A i \in DOMAIN t : u[i] = t[i] /\ i \in DOMAIN u /\ i < Len(u)
  OBVIOUS
<1>2. \A i \in DOMAIN u : i = Len(u) \/ i \in DOMAIN t
  BY <1>1
<1>3. \A i \in DOMAIN t : h[i] \in places \intersect (1..n) /\ h[i] \in 1..(n + 1) /\ h[i] < n + 1
  BY DEF ComesFrom
<1>4. /\ Len(u) \in DOMAIN u /\ g[Len(u)] = n + 1 /\ DOMAIN g = DOMAIN u
      /\ \A i \in DOMAIN t : g[i] = h[i]
  BY <1>1
<1> HIDE DEF u, g
<1>5. g \in [DOMAIN u -> places \intersect (1..(n + 1))]
  <2>1. \A i \in DOMAIN u : g[i] \in places \intersect (1..(n + 1))
    BY <1>2, <1>3, <1>4
  <2> QED
    BY <2>1, <1>4 DEF g
<1>6. \A i \in DOMAIN u : u[i] = s[g[i]]
  BY <1>1, <1>2, <1>4 DEF ComesFrom
<1>7. ASSUME NEW i \in DOMAIN u, NEW j \in DOMAIN u, i < j PROVE g[i] < g[j]
  <2>1. i \in DOMAIN t
    BY <1>1, <1>2, <1>7
  <2>2. CASE j = Len(u)
    BY <2>1, <2>2, <1>3, <1>4
  <2>3. CASE j \in DOMAIN t
    BY <2>1, <2>3, <1>4, <1>7 DEF ComesFrom
  <2> QED
    BY <1>2, <2>2, <2>3
<1>8. ASSUME NEW k \in places \intersect (1..(n + 1)) PROVE \E i \in DOMAIN u : g[i] = k
  <2>1. CASE k = n + 1
    BY <2>1, <1>4
  <2>2. CASE k # n + 1
    <3>1. PICK i \in DOMAIN t : h[i] = k
      <4>1. k \in places \intersect (1..n)
        BY <2>2
      <4> QED
        BY <4>1 DEF ComesFrom
    <3> QED
      BY <3>1, <1>1, <1>4
  <2> QED
    BY <2>1, <2>2
<1> QED
  BY <1>5, <1>6, <1>7, <1>8 DEF ComesFrom, u

LEMMA ComesFromSame ==
  ASSUME NEW t, NEW s, NEW places, NEW n \in Nat, n + 1 \notin places,
         NEW h, ComesFrom(h, t, s, places, n)
  PROVE  ComesFrom(h, t, s, places, n + 1)
<1>1. places \intersect (1..(n + 1)) = places \intersect (1..n)
  OBVIOUS
<1> QED
  BY <1>1 DEF ComesFrom

(* Picked leaves a sequence of what stood at the places asked for.          *)
LEMMA PickedPlaces ==
  ASSUME NEW A, NEW s \in Seq(A), NEW places
  PROVE  /\ Picked(s, places) \in Seq(A)
         /\ \E h : ComesFrom(h, Picked(s, places), s, places, Len(s))
<1>1. PICK f : IsPicking(f, s, places, Len(s)) /\ Picked(s, places) = f[Len(s)]
  BY PickedIsPicking
<1> DEFINE S == {n \in Nat : n <= Len(s) =>
                   f[n] \in Seq(A) /\ \E h : ComesFrom(h, f[n], s, places, n)}
<1>2. ASSUME NEW n \in 0..Len(s) PROVE f[n] = PickStep(f, s, places, n)
  BY <1>1 DEF IsPicking
<1>3. 0 \in S
  <2>1. f[0] = <<>>
    BY <1>2 DEF PickStep
  <2>2. ComesFrom(<<>>, <<>>, s, places, 0)
    BY DEF ComesFrom
  <2>3. f[0] \in Seq(A) /\ \E h : ComesFrom(h, f[0], s, places, 0)
    BY <2>1, <2>2
  <2> QED
    BY <2>3
<1>4. ASSUME NEW n \in Nat, n \in S PROVE n + 1 \in S
  <2> SUFFICES ASSUME n + 1 <= Len(s)
               PROVE  f[n + 1] \in Seq(A) /\ \E h : ComesFrom(h, f[n + 1], s, places, n + 1)
    OBVIOUS
  <2>1. f[n] \in Seq(A)
    BY <1>4
  <2>2. PICK h : ComesFrom(h, f[n], s, places, n)
    BY <1>4
  <2>3. f[n + 1] = IF n + 1 \in places THEN Append(f[n], s[n + 1]) ELSE f[n]
    <3>1. f[n + 1] = PickStep(f, s, places, n + 1) /\ (n + 1) - 1 = n /\ n + 1 # 0
      BY <1>2
    <3> QED
      BY <3>1 DEF PickStep
  <2>4. s[n + 1] \in A
    OBVIOUS
  <2>5. CASE n + 1 \in places
    BY <2>1, <2>2, <2>3, <2>4, <2>5, ComesFromExtended
  <2>6. CASE n + 1 \notin places
    BY <2>1, <2>2, <2>3, <2>6, ComesFromSame
  <2> QED
    BY <2>5, <2>6
<1> HIDE DEF S
<1>5. Len(s) \in S
  BY <1>3, <1>4, SetInduction
<1> QED
  BY <1>1, <1>5 DEF S

LEMMA PickedElements ==
  ASSUME NEW A, NEW s \in Seq(A), NEW places
  PROVE  /\ Picked(s, places) \in Seq(A)
         /\ \A x : x \in ToSet(Picked(s, places))
                    <=> \E k \in places \intersect DOMAIN s : s[k] = x
<1> DEFINE t == Picked(s, places)
<1>1. PICK h : ComesFrom(h, t, s, places, Len(s))
  BY PickedPlaces
<1>2. t \in Seq(A) /\ DOMAIN s = 1..Len(s)
  BY PickedPlaces
<1> HIDE DEF t
<1>3. ASSUME NEW x, x \in ToSet(t) PROVE \E k \in places \intersect DOMAIN s : s[k] = x
  <2>1. PICK i \in DOMAIN t : t[i] = x
    BY <1>3 DEF ToSet
  <2>2. h[i] \in places \intersect DOMAIN s /\ s[h[i]] = x
    BY <1>1, <1>2, <2>1 DEF ComesFrom
  <2> QED
    BY <2>2
<1>4. ASSUME NEW k \in places \intersect DOMAIN s PROVE s[k] \in ToSet(t)
  <2>1. PICK i \in DOMAIN t : h[i] = k
    BY <1>1, <1>2 DEF ComesFrom
  <2>2. t[i] = s[k]
    BY <1>1, <2>1 DEF ComesFrom
  <2> QED
    BY <2>2 DEF ToSet
<1> QED
  BY <1>2, <1>3, <1>4 DEF t

LEMMA NothingPicked ==
  ASSUME NEW A, NEW s \in Seq(A), NEW places
  PROVE  Picked(s, places) = <<>> <=> places \intersect DOMAIN s = {}
<1> DEFINE t == Picked(s, places)
<1>1. t \in Seq(A) /\ \A x : x \in ToSet(t) <=> \E k \in places \intersect DOMAIN s : s[k] = x
  BY PickedElements
<1> HIDE DEF t
<1>2. t = <<>> <=> DOMAIN t = {}
  BY <1>1
<1>3. DOMAIN t = {} <=> ToSet(t) = {}
  BY DEF ToSet
<1>4. ToSet(t) = {} <=> places \intersect DOMAIN s = {}
  BY <1>1
<1> QED
  BY <1>2, <1>3, <1>4 DEF t

LEMMA PickedOnce ==
  ASSUME NEW A, NEW s \in Seq(A), NEW places
  PROVE  \E h \in [DOMAIN Picked(s, places) -> places \intersect DOMAIN s] :
           /\ \A i \in DOMAIN Picked(s, places) : Picked(s, places)[i] = s[h[i]]
           /\ \A i, j \in DOMAIN Picked(s, places) : h[i] = h[j] => i = j
<1> DEFINE t == Picked(s, places)
<1>1. PICK h : ComesFrom(h, t, s, places, Len(s))
  BY PickedPlaces
<1>2. t \in Seq(A) /\ DOMAIN s = 1..Len(s)
  BY PickedPlaces
<1> HIDE DEF t
<1>3. h \in [DOMAIN t -> places \intersect DOMAIN s] /\ \A i \in DOMAIN t : t[i] = s[h[i]]
  BY <1>1, <1>2 DEF ComesFrom
<1>4. ASSUME NEW i \in DOMAIN t, NEW j \in DOMAIN t, h[i] = h[j] PROVE i = j
  <2>1. i \in Nat /\ j \in Nat /\ h[i] \in Nat /\ h[j] \in Nat
    BY <1>2, <1>3
  <2>2. ~(i < j) /\ ~(j < i)
    BY <1>1, <1>4, <2>1 DEF ComesFrom
  <2> QED
    BY <2>1, <2>2
<1> QED
  BY <1>3, <1>4 DEF t

-----------------------------------------------------------------------------
(* A sequence of sequences, flattened.                                      *)

LEMMA ConcatElements ==
  ASSUME NEW A, NEW s \in Seq(A), NEW t \in Seq(A)
  PROVE  /\ s \o t \in Seq(A)
         /\ ToSet(s \o t) = ToSet(s) \union ToSet(t)
<1>1. s \o t \in Seq(A) /\ Len(s \o t) = Len(s) + Len(t) /\ Len(s) \in Nat /\ Len(t) \in Nat
  OBVIOUS
<1>2. /\ DOMAIN s = 1..Len(s) /\ DOMAIN t = 1..Len(t) /\ DOMAIN (s \o t) = 1..(Len(s) + Len(t))
  BY <1>1
<1>3. ASSUME NEW i \in 1..Len(s) PROVE (s \o t)[i] = s[i] /\ i \in DOMAIN (s \o t)
  BY <1>1, <1>2
<1>4. ASSUME NEW i \in 1..Len(t)
      PROVE (s \o t)[Len(s) + i] = t[i] /\ Len(s) + i \in DOMAIN (s \o t)
  BY <1>1, <1>2
<1>5. ASSUME NEW i \in DOMAIN (s \o t)
      PROVE i \in 1..Len(s) \/ \E j \in 1..Len(t) : i = Len(s) + j
  <2>1. i \in 1..Len(s) \/ (i - Len(s) \in 1..Len(t) /\ i = Len(s) + (i - Len(s)))
    BY <1>1, <1>2
  <2> QED
    BY <2>1
<1>6. ToSet(s \o t) \subseteq ToSet(s) \union ToSet(t)
  BY <1>2, <1>3, <1>4, <1>5 DEF ToSet
<1>7. ToSet(s) \subseteq ToSet(s \o t) /\ ToSet(t) \subseteq ToSet(s \o t)
  BY <1>2, <1>3, <1>4 DEF ToSet
<1> QED
  BY <1>1, <1>6, <1>7

FlatStep(f, seqs, n) == IF n = 1 THEN seqs[n] ELSE f[n - 1] \o seqs[n]
IsFlattening(f, seqs, n) == f = [i \in 1..n |-> FlatStep(f, seqs, i)]

LEMMA FlatteningExists ==
  ASSUME NEW seqs, NEW n \in Nat
  PROVE  \E f : IsFlattening(f, seqs, n)
<1> DEFINE S == {k \in Nat : \E f : IsFlattening(f, seqs, k)}
<1>1. 0 \in S
  <2> DEFINE f == [i \in 1..0 |-> seqs]
  <2>1. f = [i \in 1..0 |-> FlatStep(f, seqs, i)]
    OBVIOUS
  <2> QED
    BY <2>1 DEF IsFlattening
<1>2. ASSUME NEW k \in Nat, k \in S PROVE k + 1 \in S
  <2>1. PICK f : IsFlattening(f, seqs, k)
    BY <1>2
  <2> DEFINE g == [i \in 1..(k + 1) |-> IF i = k + 1 THEN FlatStep(f, seqs, k + 1) ELSE f[i]]
  <2>2. ASSUME NEW i \in 1..(k + 1) PROVE g[i] = FlatStep(g, seqs, i)
    <3>1. i = 1 \/ (i - 1 \in 1..k /\ g[i - 1] = f[i - 1])
      OBVIOUS
    <3>2. FlatStep(g, seqs, i) = FlatStep(f, seqs, i)
      BY <3>1 DEF FlatStep
    <3>3. i # k + 1 => i \in 1..k /\ f[i] = FlatStep(f, seqs, i)
      BY <2>1 DEF IsFlattening
    <3> QED
      BY <3>2, <3>3
  <2>3. g = [i \in 1..(k + 1) |-> g[i]]
    OBVIOUS
  <2>4. g = [i \in 1..(k + 1) |-> FlatStep(g, seqs, i)]
    <3> HIDE DEF g
    <3> QED
      BY <2>2, <2>3
  <2>5. IsFlattening(g, seqs, k + 1)
    BY <2>4 DEF IsFlattening
  <2> HIDE DEF g
  <2> QED
    BY <2>5
<1> HIDE DEF S
<1>3. Nat \subseteq S
  BY <1>1, <1>2, SetInduction
<1> QED
  BY <1>3 DEF S

LEMMA FlattenIsFlattening ==
  ASSUME NEW seqs, Len(seqs) \in Nat, Len(seqs) # 0
  PROVE  \E f : IsFlattening(f, seqs, Len(seqs)) /\ FlattenSeq(seqs) = f[Len(seqs)]
<1> DEFINE f == CHOOSE f : f = [i \in 1..Len(seqs) |->
                  IF i = 1 THEN seqs[i] ELSE f[i - 1] \o seqs[i]]
<1>1. FlattenSeq(seqs) = f[Len(seqs)]
  BY DEF FlattenSeq
<1>2. PICK g : IsFlattening(g, seqs, Len(seqs))
  BY FlatteningExists
<1>3. f = [i \in 1..Len(seqs) |-> IF i = 1 THEN seqs[i] ELSE f[i - 1] \o seqs[i]]
  BY <1>2 DEF IsFlattening, FlatStep
<1>4. IsFlattening(f, seqs, Len(seqs))
  <2> HIDE DEF f
  <2> QED
    BY <1>3 DEF IsFlattening, FlatStep
<1> QED
  BY <1>1, <1>4

(* What a sequence of sequences holds, flattened, is what they hold.        *)
LEMMA FlattenElements ==
  ASSUME NEW A, NEW seqs \in Seq(Seq(A))
  PROVE  /\ FlattenSeq(seqs) \in Seq(A)
         /\ \A x : x \in ToSet(FlattenSeq(seqs)) <=> \E i \in DOMAIN seqs : x \in ToSet(seqs[i])
<1>1. CASE Len(seqs) = 0
  <2>1. FlattenSeq(seqs) = seqs /\ seqs = <<>> /\ DOMAIN seqs = {}
    BY <1>1 DEF FlattenSeq
  <2> QED
    BY <2>1 DEF ToSet
<1>2. CASE Len(seqs) # 0
  <2>1. PICK f : IsFlattening(f, seqs, Len(seqs)) /\ FlattenSeq(seqs) = f[Len(seqs)]
    BY <1>2, FlattenIsFlattening
  <2> DEFINE Holds(n) == /\ f[n] \in Seq(A)
                         /\ \A x : x \in ToSet(f[n]) <=> \E i \in 1..n : x \in ToSet(seqs[i])
             S == {n \in Nat : n + 1 <= Len(seqs) => Holds(n + 1)}
  <2>2. ASSUME NEW n \in 1..Len(seqs)
        PROVE f[n] = FlatStep(f, seqs, n) /\ seqs[n] \in Seq(A)
    <3>1. seqs[n] \in Seq(A)
      OBVIOUS
    <3>2. f[n] = FlatStep(f, seqs, n)
      BY <2>1 DEF IsFlattening
    <3> QED
      BY <3>1, <3>2
  <2>3. 0 \in S
    <3>1. f[1] = seqs[1] /\ seqs[1] \in Seq(A) /\ \A i : i \in 1..1 <=> i = 1
      BY <1>2, <2>2 DEF FlatStep
    <3>2. Holds(1)
      BY <3>1
    <3> HIDE DEF Holds
    <3> QED
      BY <3>2
  <2>4. ASSUME NEW n \in Nat, n \in S PROVE n + 1 \in S
    <3> HIDE DEF Holds
    <3> SUFFICES ASSUME (n + 1) + 1 <= Len(seqs) PROVE Holds((n + 1) + 1)
      OBVIOUS
    <3> DEFINE m == n + 1
    <3>1. Holds(m) /\ m \in Nat /\ m # 0 /\ m + 1 \in 1..Len(seqs) /\ (m + 1) - 1 = m /\ m + 1 # 1
      BY <2>4
    <3> HIDE DEF m
    <3>2. f[m + 1] = f[m] \o seqs[m + 1] /\ seqs[m + 1] \in Seq(A)
      BY <2>2, <3>1 DEF FlatStep
    <3>3. f[m + 1] \in Seq(A) /\ ToSet(f[m + 1]) = ToSet(f[m]) \union ToSet(seqs[m + 1])
      BY <3>1, <3>2, ConcatElements DEF Holds
    <3>4. \A i : i \in 1..(m + 1) <=> (i \in 1..m \/ i = m + 1)
      BY <3>1
    <3>5. Holds(m + 1)
      BY <3>1, <3>3, <3>4 DEF Holds
    <3> QED
      BY <3>5 DEF m
  <2> HIDE DEF S
  <2>5. Len(seqs) - 1 \in S
    <3>1. Len(seqs) - 1 \in Nat
      BY <1>2
    <3> QED
      BY <2>3, <2>4, <3>1, SetInduction
  <2>6. Holds(Len(seqs))
    <3>1. (Len(seqs) - 1) + 1 = Len(seqs) /\ Len(seqs) <= Len(seqs)
      OBVIOUS
    <3> HIDE DEF Holds
    <3> QED
      BY <2>5, <3>1 DEF S
  <2>7. DOMAIN seqs = 1..Len(seqs)
    OBVIOUS
  <2> QED
    BY <2>1, <2>6, <2>7
<1> QED
  BY <1>1, <1>2

LEMMA EmptySequence ==
  ASSUME NEW A, NEW s \in Seq(A)
  PROVE  s = <<>> <=> ToSet(s) = {}
<1>1. s = <<>> <=> DOMAIN s = {}
  OBVIOUS
<1> QED
  BY <1>1 DEF ToSet

-----------------------------------------------------------------------------
(* An element removed.                                                      *)

(* Without the i-th element, those behind it move up.                       *)
LEMMA RemoveAtElements ==
  ASSUME NEW S, NEW q \in Seq(S), NEW i \in DOMAIN q
  PROVE  /\ DOMAIN RemoveAt(q, i) = 1..(Len(q) - 1)
         /\ \A j \in 1..(Len(q) - 1) :
              RemoveAt(q, i)[j] = IF j < i THEN q[j] ELSE q[j + 1]
<1>1. i \in 1..Len(q) /\ Len(q) \in Nat /\ DOMAIN q = 1..Len(q)
  OBVIOUS
<1> DEFINE a == SubSeq(q, 1, i - 1)
           b == SubSeq(q, i + 1, Len(q))
<1>2. a \in Seq(S) /\ Len(a) = i - 1 /\ \A j \in 1..(i - 1) : a[j] = q[j]
  BY <1>1, SubSeqProperties, ElementOfSeq
<1>3. b \in Seq(S) /\ Len(b) = Len(q) - i /\ \A j \in 1..(Len(q) - i) : b[j] = q[i + j]
  BY <1>1, SubSeqProperties, ElementOfSeq
<1> HIDE DEF a, b
<1>4. /\ Len(a \o b) = Len(a) + Len(b) /\ a \o b \in Seq(S)
      /\ \A j \in 1..(Len(a) + Len(b)) : (a \o b)[j] = IF j <= Len(a) THEN a[j] ELSE b[j - Len(a)]
  BY <1>2, <1>3, ConcatProperties
<1>5. RemoveAt(q, i) = a \o b
  BY DEF RemoveAt, a, b
<1>6. ASSUME NEW j \in 1..(Len(q) - 1)
      PROVE  (a \o b)[j] = IF j < i THEN q[j] ELSE q[j + 1]
  <2>1. CASE j < i
    BY <1>1, <1>2, <1>3, <1>4, <2>1
  <2>2. CASE ~(j < i)
    <3>1. j - Len(a) \in 1..(Len(q) - i) /\ i + (j - Len(a)) = j + 1
      BY <1>1, <1>2, <2>2
    <3>2. j \in 1..(Len(a) + Len(b)) /\ ~(j <= Len(a))
      BY <1>1, <1>2, <1>3, <2>2
    <3>3. (a \o b)[j] = b[j - Len(a)]
      BY <1>4, <3>2
    <3>4. b[j - Len(a)] = q[i + (j - Len(a))]
      BY <1>3, <3>1
    <3> QED
      BY <2>2, <3>1, <3>3, <3>4
  <2> QED
    BY <2>1, <2>2
<1>7. Len(a) + Len(b) = Len(q) - 1
  BY <1>1, <1>2, <1>3
<1>8. DOMAIN (a \o b) = 1..(Len(q) - 1)
  BY <1>4, <1>7
<1> QED
  BY <1>5, <1>6, <1>8

(* The first occurrence of an element removed: at one of its places.        *)
LEMMA RemoveFirstPlace ==
  ASSUME NEW S, NEW q \in Seq(S), NEW e, NEW k \in DOMAIN q, q[k] = e
  PROVE  \E i \in DOMAIN q : q[i] = e /\ RemoveFirst(q, e) = RemoveAt(q, i)
<1> DEFINE I == {i \in 1..Len(q) : q[i] = e}
<1>1. DOMAIN q = 1..Len(q) /\ I \subseteq Nat /\ I # {}
  OBVIOUS
<1>2. RemoveFirst(q, e) = RemoveAt(q, Min(I))
  BY <1>1 DEF RemoveFirst, SelectInSeq
<1>3. Min(I) \in I
  <2> HIDE DEF I
  <2>1. \E i \in I : \A j \in I : i <= j
    BY <1>1, LeastNumber
  <2> QED
    BY <2>1 DEF Min
<1> QED
  BY <1>1, <1>2, <1>3

LEMMA RemoveFirstAbsent ==
  ASSUME NEW S, NEW q \in Seq(S), NEW e, \A i \in DOMAIN q : q[i] # e
  PROVE  RemoveFirst(q, e) = q
<1>1. DOMAIN q = 1..Len(q)
  OBVIOUS
<1> QED
  BY <1>1 DEF RemoveFirst

-----------------------------------------------------------------------------
(* A queue in which nothing waits twice: what it holds after a step.        *)

NoneTwice(q) == \A i, j \in DOMAIN q : q[i] = q[j] => i = j

LEMMA AppendQueue ==
  ASSUME NEW S, NEW q \in Seq(S), NEW e \in S, NoneTwice(q), e \notin ToSet(q)
  PROVE  /\ Append(q, e) \in Seq(S) /\ NoneTwice(Append(q, e))
         /\ ToSet(Append(q, e)) = ToSet(q) \union {e}
<1> DEFINE r == Append(q, e)
<1>1. /\ r \in Seq(S) /\ DOMAIN q = 1..Len(q) /\ DOMAIN r = 1..(Len(q) + 1) /\ Len(q) \in Nat
      /\ \A i \in 1..Len(q) : r[i] = q[i]
      /\ r[Len(q) + 1] = e
  OBVIOUS
<1> HIDE DEF r
<1>2. \A i \in DOMAIN r : i \in DOMAIN q \/ i = Len(q) + 1
  BY <1>1
<1>3. NoneTwice(r)
  BY <1>1, <1>2 DEF NoneTwice, ToSet
<1>4. \A x : x \in ToSet(r) <=> x \in ToSet(q) \union {e}
  BY <1>1, <1>2 DEF ToSet
<1> QED
  BY <1>1, <1>3, <1>4 DEF r

LEMMA TailQueue ==
  ASSUME NEW S, NEW q \in Seq(S), q # <<>>, NoneTwice(q)
  PROVE  /\ Tail(q) \in Seq(S) /\ NoneTwice(Tail(q))
         /\ ToSet(Tail(q)) = ToSet(q) \ {Head(q)}
<1> DEFINE r == Tail(q)
<1>1. /\ r \in Seq(S) /\ DOMAIN q = 1..Len(q) /\ DOMAIN r = 1..(Len(q) - 1) /\ Len(q) \in Nat
      /\ \A i \in 1..(Len(q) - 1) : r[i] = q[i + 1]
      /\ 1 \in DOMAIN q /\ Head(q) = q[1]
  OBVIOUS
<1> HIDE DEF r
<1>2. \A i \in DOMAIN r : i + 1 \in DOMAIN q /\ i + 1 # 1 /\ r[i] = q[i + 1]
  BY <1>1
<1>3. NoneTwice(r)
  BY <1>1, <1>2 DEF NoneTwice
<1>4. \A x : x \in ToSet(r) <=> x \in ToSet(q) \ {Head(q)}
  <2>1. ASSUME NEW x \in ToSet(r) PROVE x \in ToSet(q) \ {Head(q)}
    BY <1>1, <1>2 DEF NoneTwice, ToSet
  <2>2. ASSUME NEW x \in ToSet(q) \ {Head(q)} PROVE x \in ToSet(r)
    <3>1. PICK i \in DOMAIN q : q[i] = x
      BY DEF ToSet
    <3>2. i - 1 \in DOMAIN r /\ r[i - 1] = x
      BY <1>1, <3>1
    <3> QED
      BY <3>2 DEF ToSet
  <2> QED
    BY <2>1, <2>2
<1> QED
  BY <1>1, <1>3, <1>4 DEF r

LEMMA RemoveFirstQueue ==
  ASSUME NEW S, NEW q \in Seq(S), NEW e, NoneTwice(q)
  PROVE  /\ RemoveFirst(q, e) \in Seq(S) /\ NoneTwice(RemoveFirst(q, e))
         /\ ToSet(RemoveFirst(q, e)) = ToSet(q) \ {e}
<1>1. CASE e \notin ToSet(q)
  <2>1. RemoveFirst(q, e) = q
    BY <1>1, RemoveFirstAbsent DEF ToSet
  <2> QED
    BY <1>1, <2>1
<1>2. CASE e \in ToSet(q)
  <2>1. PICK k \in DOMAIN q : q[k] = e
    BY <1>2 DEF ToSet
  <2>2. PICK i \in DOMAIN q : q[i] = e /\ RemoveFirst(q, e) = RemoveAt(q, i)
    BY <2>1, RemoveFirstPlace
  <2> DEFINE r == RemoveFirst(q, e)
  <2>3. /\ DOMAIN q = 1..Len(q) /\ DOMAIN r = 1..(Len(q) - 1) /\ Len(q) \in Nat
        /\ \A j \in 1..(Len(q) - 1) : r[j] = IF j < i THEN q[j] ELSE q[j + 1]
    BY <2>2, RemoveAtElements
  <2>4. r \in Seq(S)
    <3>1. SubSeq(q, 1, i - 1) \in Seq(S) /\ SubSeq(q, i + 1, Len(q)) \in Seq(S)
      BY <2>3, SubSeqProperties
    <3> QED
      BY <2>2, <3>1 DEF RemoveAt
  <2> HIDE DEF r
  <2>5. \A j \in DOMAIN r : \E l \in DOMAIN q : l # i /\ r[j] = q[l] /\ (l = j \/ l = j + 1)
                                              /\ (l < i <=> j < i) /\ (l = j <=> j < i)
    BY <2>3
  <2>6. NoneTwice(r)
    <3> SUFFICES ASSUME NEW j \in DOMAIN r, NEW l \in DOMAIN r, r[j] = r[l] PROVE j = l
      BY DEF NoneTwice
    <3>1. PICK a \in DOMAIN q : r[j] = q[a] /\ (a = j \/ a = j + 1) /\ (a < i <=> j < i) /\ (a = j <=> j < i)
      BY <2>5
    <3>2. PICK b \in DOMAIN q : r[l] = q[b] /\ (b = l \/ b = l + 1) /\ (b < i <=> l < i) /\ (b = l <=> l < i)
      BY <2>5
    <3>3. a = b
      BY <3>1, <3>2 DEF NoneTwice
    <3> QED
      BY <2>3, <3>1, <3>2, <3>3
  <2>7. ASSUME NEW x \in ToSet(r) PROVE x \in ToSet(q) \ {e}
    BY <2>2, <2>5 DEF NoneTwice, ToSet
  <2>8. ASSUME NEW x \in ToSet(q) \ {e} PROVE x \in ToSet(r)
    <3>1. PICK l \in DOMAIN q : q[l] = x /\ l # i
      BY <2>2 DEF ToSet
    <3>2. CASE l < i
      <4>1. l \in DOMAIN r /\ r[l] = x
        BY <2>3, <3>1, <3>2
      <4> QED
        BY <4>1 DEF ToSet
    <3>3. CASE ~(l < i)
      <4>1. l - 1 \in DOMAIN r /\ ~(l - 1 < i) /\ (l - 1) + 1 = l
        BY <2>3, <3>1, <3>3
      <4>2. r[l - 1] = x
        BY <2>3, <3>1, <4>1
      <4> QED
        BY <4>1, <4>2 DEF ToSet
    <3> QED
      BY <3>2, <3>3
  <2>9. \A x : x \in ToSet(r) <=> x \in ToSet(q) \ {e}
    BY <2>7, <2>8
  <2> QED
    BY <2>4, <2>6, <2>9 DEF r
<1> QED
  BY <1>1, <1>2

=============================================================================
