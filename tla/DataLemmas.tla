------------------------------ MODULE DataLemmas ------------------------------
(***************************************************************************)
(* Facts about the data of the models.  Of the sequences that model Go     *)
(* slices and buffered channels: what appending, dropping a prefix and     *)
(* removing one element do to the elements.  And of the natural numbers:   *)
(* induction, and the repeated steps by which a tree is walked.            *)
(***************************************************************************)
EXTENDS Integers, SequencesExt, FiniteSetTheorems, SequenceTheorems, WellFoundedInduction, TLAPS

(* t is s with some elements left out and the rest in their order. *)
Thinned(s, t) ==
  \E f \in [DOMAIN t -> DOMAIN s] :
    /\ \A i, j \in DOMAIN t : i < j => f[i] < f[j]
    /\ \A i \in DOMAIN t : t[i] = s[f[i]]

(* Removing the element at i shifts the later ones down by one (removeByTag). *)
LEMMA RemoveAtProperties ==
  ASSUME NEW S, NEW s \in Seq(S), NEW i \in DOMAIN s
  PROVE  /\ RemoveAt(s, i) \in Seq(S)
         /\ Len(RemoveAt(s, i)) = Len(s) - 1
         /\ \A j \in 1..(Len(s) - 1) :
              RemoveAt(s, i)[j] = IF j < i THEN s[j] ELSE s[j + 1]
<1> DEFINE a == SubSeq(s, 1, i - 1)
           b == SubSeq(s, i + 1, Len(s))
<1>0. Len(s) \in Nat /\ i \in 1..Len(s)
  OBVIOUS
<1>1. a \in Seq(S) /\ Len(a) = i - 1 /\ \A j \in 1..(i - 1) : a[j] = s[j]
  BY <1>0
<1>2. b \in Seq(S) /\ Len(b) = Len(s) - i /\ \A j \in 1..(Len(s) - i) : b[j] = s[j + i]
  BY <1>0
<1> HIDE DEF a, b
<1>3. /\ a \o b \in Seq(S)
      /\ Len(a \o b) = Len(s) - 1
      /\ \A j \in 1..(Len(s) - 1) :
           (a \o b)[j] = IF j <= Len(a) THEN a[j] ELSE b[j - Len(a)]
  <2>1. a \in Seq(S) /\ b \in Seq(S)
    BY <1>1, <1>2
  <2>2. /\ a \o b \in Seq(S) /\ Len(a \o b) = Len(a) + Len(b)
        /\ \A j \in 1..(Len(a) + Len(b)) :
             (a \o b)[j] = IF j <= Len(a) THEN a[j] ELSE b[j - Len(a)]
    BY <2>1, ConcatProperties
  <2>3. Len(a) + Len(b) = Len(s) - 1
    BY <1>0, <1>1, <1>2
  <2> QED
    BY <2>2, <2>3
<1>4. \A j \in 1..(Len(s) - 1) : (a \o b)[j] = IF j < i THEN s[j] ELSE s[j + 1]
  <2> SUFFICES ASSUME NEW j \in 1..(Len(s) - 1)
               PROVE  (a \o b)[j] = IF j < i THEN s[j] ELSE s[j + 1]
    OBVIOUS
  <2>1. CASE j < i
    <3>1. j \in 1..(i - 1) /\ j <= Len(a)
      BY <1>0, <1>1, <2>1
    <3> QED BY <1>1, <1>3, <2>1, <3>1
  <2>2. CASE ~(j < i)
    <3>1. /\ ~(j <= Len(a)) /\ j - Len(a) \in 1..(Len(s) - i)
          /\ (j - Len(a)) + i = j + 1
      BY <1>0, <1>1, <2>2
    <3> QED BY <1>2, <1>3, <2>2, <3>1
  <2> QED BY <2>1, <2>2
<1> QED BY <1>3, <1>4 DEF RemoveAt, a, b

(* ... so it thins the sequence. *)
LEMMA RemoveAtThins ==
  ASSUME NEW S, NEW s \in Seq(S), NEW i \in DOMAIN s
  PROVE  Thinned(s, RemoveAt(s, i))
<1> DEFINE t == RemoveAt(s, i)
           f == [j \in DOMAIN t |-> IF j < i THEN j ELSE j + 1]
<1>0. Len(s) \in Nat /\ i \in 1..Len(s)
  OBVIOUS
<1>1. /\ DOMAIN t = 1..(Len(s) - 1)
      /\ \A j \in DOMAIN t : t[j] = IF j < i THEN s[j] ELSE s[j + 1]
  <2>1. t \in Seq(S) /\ Len(t) = Len(s) - 1
    BY RemoveAtProperties
  <2>2. DOMAIN t = 1..(Len(s) - 1)
    BY <2>1, LenProperties
  <2> QED BY <2>2, RemoveAtProperties
<1>2. f \in [DOMAIN t -> DOMAIN s]
  BY <1>0, <1>1
<1>3. /\ \A j, k \in DOMAIN t : j < k => f[j] < f[k]
      /\ \A j \in DOMAIN t : t[j] = s[f[j]]
  BY <1>1
<1> QED BY <1>2, <1>3 DEF Thinned

(* Dropping the first k elements (ackLE, drainAll). *)
LEMMA DropProperties ==
  ASSUME NEW S, NEW s \in Seq(S), NEW k \in 0..Len(s)
  PROVE  LET t == SubSeq(s, k + 1, Len(s))
         IN  /\ t \in Seq(S)
             /\ Len(t) = Len(s) - k
             /\ \A j \in 1..(Len(s) - k) : t[j] = s[j + k]
             /\ Thinned(s, t)
<1> DEFINE t == SubSeq(s, k + 1, Len(s))
           f == [j \in DOMAIN t |-> j + k]
<1>1. /\ t \in Seq(S)
      /\ Len(t) = Len(s) - k
      /\ \A j \in 1..(Len(s) - k) : t[j] = s[j + k]
  OBVIOUS
<1>2. f \in [DOMAIN t -> DOMAIN s]
  BY <1>1
<1>3. /\ \A i, j \in DOMAIN t : i < j => f[i] < f[j]
      /\ \A j \in DOMAIN t : t[j] = s[f[j]]
  BY <1>1
<1> QED BY <1>1, <1>2, <1>3 DEF Thinned

(* A sequence thins itself. *)
LEMMA ThinnedReflexive ==
  ASSUME NEW S, NEW s \in Seq(S)
  PROVE  Thinned(s, s)
<1> DEFINE f == [i \in DOMAIN s |-> i]
<1>1. f \in [DOMAIN s -> DOMAIN s]
  OBVIOUS
<1>2. \A i, j \in DOMAIN s : i < j => f[i] < f[j]
  OBVIOUS
<1>3. \A i \in DOMAIN s : s[i] = s[f[i]]
  OBVIOUS
<1> QED BY <1>1, <1>2, <1>3 DEF Thinned

(* A sequence with no repetition keeps that when thinned. *)
Injective(s) == \A i, j \in DOMAIN s : i # j => s[i] # s[j]

LEMMA ThinnedStaysInjective ==
  ASSUME NEW S, NEW s \in Seq(S), NEW t \in Seq(S), Thinned(s, t), Injective(s)
  PROVE  Injective(t)
<1>1. PICK f \in [DOMAIN t -> DOMAIN s] :
        /\ \A i, j \in DOMAIN t : i < j => f[i] < f[j]
        /\ \A i \in DOMAIN t : t[i] = s[f[i]]
  BY DEF Thinned
<1>2. SUFFICES ASSUME NEW i \in DOMAIN t, NEW j \in DOMAIN t, i # j
               PROVE  t[i] # t[j]
  BY DEF Injective
<1>3. f[i] # f[j]
  <2>1. i < j \/ j < i
    BY <1>2
  <2>2. f[i] \in Int /\ f[j] \in Int
    BY <1>1
  <2> QED BY <1>1, <2>1, <2>2
<1> QED BY <1>1, <1>3 DEF Injective

-----------------------------------------------------------------------------
(* Receiving from a buffered channel takes one element out of it ...       *)
LEMMA TailElements ==
  ASSUME NEW S, NEW s \in Seq(S), s # <<>>, Injective(s)
  PROVE  /\ Tail(s) \in Seq(S) /\ Len(Tail(s)) = Len(s) - 1
         /\ Injective(Tail(s))
         /\ Head(s) \in S /\ Head(s) \in Range(s)
         /\ Range(Tail(s)) = Range(s) \ {Head(s)}
<1>1. /\ Len(s) \in Nat /\ Len(s) > 0 /\ DOMAIN s = 1..Len(s)
      /\ Head(s) = s[1] /\ s[1] \in S
  OBVIOUS
<1>2. /\ Tail(s) \in Seq(S) /\ Len(Tail(s)) = Len(s) - 1
      /\ DOMAIN Tail(s) = 1..(Len(s) - 1)
      /\ \A i \in 1..(Len(s) - 1) : Tail(s)[i] = s[i + 1]
  OBVIOUS
<1>3. Injective(Tail(s))
  <2>1. SUFFICES ASSUME NEW i \in DOMAIN Tail(s), NEW j \in DOMAIN Tail(s), i # j
                 PROVE  Tail(s)[i] # Tail(s)[j]
    BY DEF Injective
  <2>2. i + 1 \in DOMAIN s /\ j + 1 \in DOMAIN s /\ i + 1 # j + 1
    BY <1>1, <1>2, <2>1
  <2> QED BY <1>2, <2>2 DEF Injective
<1>4. \A x \in Range(Tail(s)) : x \in Range(s) /\ x # Head(s)
  <2>1. SUFFICES ASSUME NEW i \in 1..(Len(s) - 1)
                 PROVE  s[i + 1] \in Range(s) /\ s[i + 1] # Head(s)
    BY <1>2 DEF Range
  <2>2. i + 1 \in DOMAIN s /\ 1 \in DOMAIN s /\ i + 1 # 1
    BY <1>1
  <2> QED BY <1>1, <2>2 DEF Range, Injective
<1>5. \A x \in Range(s) : x # Head(s) => x \in Range(Tail(s))
  <2>1. SUFFICES ASSUME NEW i \in DOMAIN s, s[i] # Head(s) PROVE s[i] \in Range(Tail(s))
    BY DEF Range
  <2>2. i - 1 \in 1..(Len(s) - 1) /\ (i - 1) + 1 = i
    BY <1>1, <2>1
  <2>3. Tail(s)[i - 1] = s[i]
    BY <1>2, <2>2
  <2> QED BY <1>2, <2>2, <2>3 DEF Range
<1>6. Head(s) \in Range(s)
  BY <1>1 DEF Range
<1> QED BY <1>1, <1>2, <1>3, <1>4, <1>5, <1>6

(* ... and sending to it adds one. *)
LEMMA AppendElements ==
  ASSUME NEW S, NEW s \in Seq(S), NEW e \in S, e \notin Range(s), Injective(s)
  PROVE  /\ Append(s, e) \in Seq(S) /\ Len(Append(s, e)) = Len(s) + 1
         /\ Injective(Append(s, e))
         /\ Range(Append(s, e)) = Range(s) \cup {e}
<1> DEFINE t == Append(s, e)
<1>1. /\ Len(s) \in Nat /\ DOMAIN s = 1..Len(s)
      /\ t \in Seq(S) /\ Len(t) = Len(s) + 1 /\ DOMAIN t = 1..(Len(s) + 1)
      /\ \A i \in 1..Len(s) : t[i] = s[i]
      /\ t[Len(s) + 1] = e
  OBVIOUS
<1> HIDE DEF t
<1>2. \A i \in 1..Len(s) : s[i] # e
  BY <1>1 DEF Range
<1>3. Injective(t)
  <2>1. SUFFICES ASSUME NEW i \in DOMAIN t, NEW j \in DOMAIN t, i # j PROVE t[i] # t[j]
    BY DEF Injective
  <2>2. CASE i \in 1..Len(s) /\ j \in 1..Len(s)
    BY <1>1, <2>1, <2>2 DEF Injective
  <2>3. CASE i = Len(s) + 1
    BY <1>1, <1>2, <2>1, <2>3
  <2>4. CASE j = Len(s) + 1
    BY <1>1, <1>2, <2>1, <2>4
  <2> QED BY <1>1, <2>2, <2>3, <2>4
<1>4. Range(t) = Range(s) \cup {e}
  <2>1. \A x \in Range(t) : x \in Range(s) \cup {e}
    BY <1>1 DEF Range
  <2>2. \A x \in Range(s) \cup {e} : x \in Range(t)
    BY <1>1 DEF Range
  <2> QED BY <2>1, <2>2
<1> QED BY <1>1, <1>3, <1>4 DEF t

-----------------------------------------------------------------------------
(* A set of naturals that is not empty has a least element.                *)
LEMMA LeastNatural ==
  ASSUME NEW T \in SUBSET Nat, T # {}
  PROVE  \E k \in T : \A j \in T : k <= j
<1> DEFINE F == {0..j : j \in T}
<1>1. \A j \in T : 0..j \in FiniteSubsetsOf(Nat)
  BY FS_Interval DEF FiniteSubsetsOf
<1>2. PICK x \in F : \A y \in F : <<y, x>> \notin StrictSubsetOrdering(Nat)
  <2>1. F \subseteq FiniteSubsetsOf(Nat) /\ F # {}
    BY <1>1
  <2> HIDE DEF F
  <2> QED
    BY <2>1, FS_StrictSubsetOrderingWellFounded, WFMin
<1>3. PICK k \in T : x = 0..k
  OBVIOUS
<1>4. ASSUME NEW j \in T, j < k  PROVE FALSE
  <2>1. 0..j \subseteq 0..k /\ 0..j # 0..k
    BY <1>4
  <2>2. 0..j \in SUBSET Nat /\ 0..k \in SUBSET Nat
    OBVIOUS
  <2>3. <<0..j, 0..k>> \in StrictSubsetOrdering(Nat)
    BY <2>1, <2>2 DEF StrictSubsetOrdering
  <2> QED
    BY <1>2, <1>3, <2>3
<1> QED
  BY <1>4

(* Induction, over a set instead of a predicate.                           *)
LEMMA SetInduction ==
  ASSUME NEW T, 0 \in T, \A k \in Nat : k \in T => k + 1 \in T
  PROVE  Nat \subseteq T
<1> SUFFICES ASSUME Nat \ T # {}  PROVE FALSE
  OBVIOUS
<1>1. PICK k \in Nat \ T : \A j \in Nat \ T : k <= j
  BY LeastNatural
<1>2. k # 0 /\ k - 1 \in Nat /\ k = (k - 1) + 1
  BY <1>1
<1>3. k - 1 \in T
  BY <1>1, <1>2
<1> QED
  BY <1>1, <1>2, <1>3

(* A function can be applied again and again from any place.               *)
LEMMA IterationExists ==
  ASSUME NEW S, NEW a \in S, NEW F \in [S -> S]
  PROVE  \E f \in [Nat -> S] : f[0] = a /\ \A k \in Nat : f[k + 1] = F[f[k]]
<1> DEFINE Upto(g, n) == /\ g \in [0..n -> S] /\ g[0] = a
                         /\ \A k \in Nat : k < n => g[k + 1] = F[g[k]]
           T == {n \in Nat : \E g : Upto(g, n)}
<1>1. Nat \subseteq T
  <2>1. 0 \in T
    <3>1. Upto([k \in 0..0 |-> a], 0)
      OBVIOUS
    <3> QED
      BY <3>1
  <2>2. ASSUME NEW n \in Nat, n \in T  PROVE n + 1 \in T
    <3>1. PICK g : Upto(g, n)
      BY <2>2
    <3> DEFINE h == [k \in 0..(n + 1) |-> IF k = n + 1 THEN F[g[n]] ELSE g[k]]
    <3>2. g[n] \in S /\ F[g[n]] \in S
      BY <3>1
    <3>3. h \in [0..(n + 1) -> S] /\ h[0] = a
      BY <3>1, <3>2
    <3>4. ASSUME NEW k \in Nat, k < n + 1  PROVE h[k + 1] = F[h[k]]
      BY <3>1, <3>4
    <3>5. Upto(h, n + 1) /\ n + 1 \in Nat
      BY <3>3, <3>4
    <3> HIDE DEF Upto, h
    <3> QED
      BY <3>5
  <2> HIDE DEF T
  <2> QED
    BY <2>1, <2>2, SetInduction
<1>2. ASSUME NEW n \in Nat, NEW m \in Nat, n <= m, NEW g, NEW h, Upto(g, n), Upto(h, m)
      PROVE  g[n] = h[n]
  <2> DEFINE A == {k \in Nat : k <= n => g[k] = h[k]}
  <2>1. 0 \in A
    BY <1>2
  <2>2. ASSUME NEW k \in Nat, k \in A  PROVE k + 1 \in A
    BY <1>2, <2>2
  <2>3. Nat \subseteq A
    <3> HIDE DEF A
    <3> QED
      BY <2>1, <2>2, SetInduction
  <2> QED
    BY <2>3
<1> DEFINE G(n) == CHOOSE g : Upto(g, n)
           f == [n \in Nat |-> G(n)[n]]
<1>3. ASSUME NEW n \in Nat  PROVE Upto(G(n), n)
  <2>1. \E g : Upto(g, n)
    BY <1>1
  <2> HIDE DEF Upto
  <2> QED
    BY <2>1
<1>4. f \in [Nat -> S] /\ f[0] = a
  <2> HIDE DEF G
  <2>1. G(0)[0] = a /\ \A n \in Nat : G(n)[n] \in S
    BY <1>3
  <2> QED
    BY <2>1
<1>5. ASSUME NEW k \in Nat  PROVE f[k + 1] = F[f[k]]
  <2> HIDE DEF G
  <2>1. Upto(G(k), k) /\ Upto(G(k + 1), k + 1)
    BY <1>3
  <2>2. G(k)[k] = G(k + 1)[k]
    BY <1>2, <2>1
  <2>3. G(k + 1)[k + 1] = F[G(k + 1)[k]]
    BY <2>1
  <2> QED
    BY <2>2, <2>3
<1> QED
  BY <1>4, <1>5

(* What only grows in a finite set has stopped after as many steps as the  *)
(* set has elements, if each step depends on the last alone.               *)
LEMMA GrowthStops ==
  ASSUME NEW U, IsFiniteSet(U), NEW F \in [SUBSET U -> SUBSET U], NEW f \in [Nat -> SUBSET U],
         \A k \in Nat : f[k] \subseteq f[k + 1] /\ f[k + 1] = F[f[k]]
  PROVE  F[f[Cardinality(U)]] = f[Cardinality(U)]
<1> DEFINE N == Cardinality(U)
           Still == {k \in Nat : f[k + 1] = f[k]}
<1>1. N \in Nat
  BY FS_CardinalityType
<1>2. ASSUME NEW k \in Still, k <= N  PROVE N \in Still
  <2> DEFINE Later == {j \in Nat : k + j \in Still}
  <2>1. 0 \in Later
    OBVIOUS
  <2>2. ASSUME NEW j \in Nat, j \in Later  PROVE j + 1 \in Later
    <3>1. k + j \in Nat /\ k + (j + 1) = (k + j) + 1 /\ (k + j) + 1 \in Nat
      OBVIOUS
    <3>2. f[(k + j) + 1] = f[k + j]
      BY <2>2
    <3>3. f[((k + j) + 1) + 1] = F[f[(k + j) + 1]] /\ f[(k + j) + 1] = F[f[k + j]]
      BY <3>1
    <3> QED
      BY <3>1, <3>2, <3>3
  <2>3. Nat \subseteq Later
    <3> HIDE DEF Later
    <3> QED
      BY <2>1, <2>2, SetInduction
  <2>4. N - k \in Nat /\ k + (N - k) = N
    BY <1>1, <1>2
  <2> QED
    BY <2>3, <2>4
<1> SUFFICES ASSUME N \notin Still  PROVE FALSE
  BY <1>1
<1> DEFINE Large == {k \in Nat : k <= N + 1 => Cardinality(f[k]) >= k}
<1>3. \A k \in Nat : IsFiniteSet(f[k]) /\ Cardinality(f[k]) \in Nat /\ Cardinality(f[k]) <= N
  BY FS_Subset, FS_CardinalityType
<1>4. 0 \in Large
  BY <1>3
<1>5. ASSUME NEW k \in Nat, k \in Large  PROVE k + 1 \in Large
  <2> SUFFICES ASSUME k + 1 <= N + 1  PROVE Cardinality(f[k + 1]) >= k + 1
    OBVIOUS
  <2>1. k <= N /\ f[k + 1] # f[k]
    BY <1>1, <1>2
  <2>2. Cardinality(f[k]) >= k
    BY <1>1, <1>5, <2>1
  <2>3. Cardinality(f[k]) <= Cardinality(f[k + 1]) /\ Cardinality(f[k + 1]) # Cardinality(f[k])
    BY <1>3, <2>1, FS_Subset
  <2> DEFINE c == Cardinality(f[k])
             d == Cardinality(f[k + 1])
  <2>4. c \in Nat /\ d \in Nat /\ c >= k /\ c <= d /\ d # c
    BY <1>3, <2>2, <2>3
  <2> HIDE DEF c, d
  <2>5. d >= k + 1
    BY <2>4
  <2> QED
    BY <2>5 DEF d
<1>6. Nat \subseteq Large
  <2> HIDE DEF Large
  <2> QED
    BY <1>4, <1>5, SetInduction
<1> QED
  BY <1>1, <1>3, <1>6
===============================================================================
