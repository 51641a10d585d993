-------------------------- MODULE SelectionProofs --------------------------
(***************************************************************************)
(* What the operators of Selection, and FlattenSeq, return for every       *)
(* sequence: the lemmas that the proofs about the addon's answers rest on. *)
(***************************************************************************)
EXTENDS Selection, SequencesExt, FiniteSetTheorems, SequenceTheorems, TLAPS

(* Induction, without an operator for the property: the least number that   *)
(* is not in S would be the end of a least interval of those that end in    *)
(* such numbers, and intervals are finite.                                  *)
LEMMA Induct ==
  ASSUME NEW S \in SUBSET Nat, 0 \in S, \A n \in S : n + 1 \in S
  PROVE  S = Nat
<1> SUFFICES ASSUME NEW m \in Nat, m \notin S PROVE FALSE
  OBVIOUS
<1> DEFINE R == StrictSubsetOrdering(Nat)
           T == {0 .. n : n \in Nat \ S}
<1>1. IsWellFoundedOn(R, FiniteSubsetsOf(Nat))
  BY FS_StrictSubsetOrderingWellFounded
<1>2. \A n \in Nat : 0 .. n \in FiniteSubsetsOf(Nat)
  BY FS_Interval DEF FiniteSubsetsOf
<1>3. T \subseteq FiniteSubsetsOf(Nat) /\ T # {}
  BY <1>2
<1>4. \E x \in T : \A y \in T : ~(<<y, x>> \in R)
  <2> HIDE DEF R, T
  <2> QED BY <1>1, <1>3, WFMin
<1>5. PICK n \in Nat \ S : \A y \in T : ~(<<y, 0 .. n>> \in R)
  BY <1>4
<1>6. n # 0 /\ n - 1 \in Nat
  OBVIOUS
<1>7. n - 1 \notin S
  BY <1>6
<1>8. <<0 .. (n - 1), 0 .. n>> \in R
  BY <1>6 DEF StrictSubsetOrdering
<1> QED BY <1>5, <1>6, <1>7, <1>8

LEMMA Least ==
  ASSUME NEW S \in SUBSET Nat, S # {}
  PROVE  \E m \in S : \A n \in S : m <= n
<1> SUFFICES ASSUME \A m \in S : \E n \in S : n < m PROVE FALSE
  OBVIOUS
<1> DEFINE None == {n \in Nat : \A m \in 0 .. n : m \notin S}
<1>1. 0 \in None
  OBVIOUS
<1>2. \A n \in None : n + 1 \in None
  <2> SUFFICES ASSUME NEW n \in None, n + 1 \in S PROVE FALSE
    OBVIOUS
  <2> QED OBVIOUS
<1>3. None = Nat
  <2> HIDE DEF None
  <2>1. None \in SUBSET Nat
    BY DEF None
  <2> QED BY <1>1, <1>2, <2>1, Induct
<1>4. \A n \in None : n \notin S
  OBVIOUS
<1> QED
  <2> HIDE DEF None
  <2> QED BY <1>3, <1>4

(* A function on 1 .. n is a sequence of n elements.                        *)
LEMMA IsSeq ==
  ASSUME NEW S, NEW n \in Nat, NEW f \in [1 .. n -> S]
  PROVE  f \in Seq(S) /\ Len(f) = n /\ DOMAIN f = 1 .. n
<1>1. f \in Seq(S)
  BY SeqDef
<1> QED BY <1>1, LenProperties

LEMMA InDomain ==
  ASSUME NEW S, NEW s \in Seq(S)
  PROVE  /\ Len(s) \in Nat /\ DOMAIN s = 1 .. Len(s)
         /\ IsFiniteSet(DOMAIN s)
         /\ \A n \in DOMAIN s : s[n] \in S
         /\ s = <<>> <=> DOMAIN s = {}
<1>1. Len(s) \in Nat /\ DOMAIN s = 1 .. Len(s) /\ s \in [1 .. Len(s) -> S]
  BY LenProperties
<1>2. IsFiniteSet(1 .. Len(s))
  BY <1>1, FS_Interval
<1>3. s = <<>> <=> Len(s) = 0
  BY EmptySeq
<1>4. 1 .. Len(s) = {} <=> Len(s) = 0
  <2>1. Len(s) # 0 => 1 \in 1 .. Len(s)
    BY <1>1
  <2> QED BY <2>1
<1>5. \A n \in DOMAIN s : s[n] \in S
  BY <1>1
<1> QED BY <1>1, <1>2, <1>3, <1>4, <1>5

LEMMA ConcatIs ==
  ASSUME NEW S, NEW u \in Seq(S), NEW v \in Seq(S), NEW w, w = u \o v
  PROVE  /\ w \in Seq(S) /\ Len(u) \in Nat /\ Len(v) \in Nat
         /\ Len(w) = Len(u) + Len(v)
         /\ \A k \in 1 .. Len(u) : k \in 1 .. Len(w) /\ w[k] = u[k]
         /\ \A k \in 1 .. Len(v) : Len(u) + k \in 1 .. Len(w) /\ w[Len(u) + k] = v[k]
         /\ \A k \in 1 .. Len(w) : k \in 1 .. Len(u) \/ k - Len(u) \in 1 .. Len(v)
<1>1. Len(u) \in Nat /\ Len(v) \in Nat
  BY LenProperties
<1>2. /\ w \in Seq(S) /\ Len(w) = Len(u) + Len(v)
      /\ \A i \in 1 .. Len(u) + Len(v) :
           w[i] = IF i <= Len(u) THEN u[i] ELSE v[i - Len(u)]
  BY ConcatProperties
<1>3. \A k \in 1 .. Len(v) : Len(u) + k \in 1 .. Len(w) /\ w[Len(u) + k] = v[k]
  <2> TAKE k \in 1 .. Len(v)
  <2>1. Len(u) + k \in 1 .. Len(u) + Len(v) /\ ~(Len(u) + k <= Len(u))
    BY <1>1
  <2>2. Len(u) + k - Len(u) = k
    BY <1>1
  <2> QED BY <1>2, <2>1, <2>2
<1> QED BY <1>1, <1>2, <1>3

LEMMA ToSetIs ==
  ASSUME NEW S, NEW s \in Seq(S)
  PROVE  ToSet(s) \subseteq S /\ (ToSet(s) = {} <=> s = <<>>)
<1>1. \A n \in DOMAIN s : s[n] \in S
  BY InDomain
<1>2. s = <<>> <=> DOMAIN s = {}
  BY InDomain
<1> QED BY <1>1, <1>2 DEF ToSet

-----------------------------------------------------------------------------
(* The members of a finite set in a strict total order: a bijection from    *)
(* 1 .. Cardinality that is monotonic.  Members differ in how many are      *)
(* before them, so every number below the cardinality is taken.             *)
LEMMA ArrangedIs ==
  ASSUME NEW P, IsFiniteSet(P), NEW B \in [P -> SUBSET P],
         \A x \in P : x \notin B[x],
         \A x, y \in P : x \in B[y] => B[x] \subseteq B[y],
         \A x, y \in P : x # y => x \in B[y] \/ y \in B[x],
         NEW a, a = Arranged(B)
  PROVE  /\ Cardinality(P) \in Nat
         /\ a \in [1 .. Cardinality(P) -> P]
         /\ \A x \in P : \E k \in 1 .. Cardinality(P) : a[k] = x
         /\ \A k, l \in 1 .. Cardinality(P) : /\ k < l <=> a[k] \in B[a[l]]
                                              /\ k # l => a[k] # a[l]
<1> DEFINE N == Cardinality(P)
           c == [x \in P |-> Cardinality(B[x])]
<1>1. N \in Nat
  BY FS_CardinalityType
<1>2. \A x \in P : IsFiniteSet(B[x]) /\ c[x] \in 0 .. N - 1
  <2> TAKE x \in P
  <2>1. IsFiniteSet(B[x]) /\ c[x] <= N /\ c[x] # N
    BY FS_Subset
  <2> QED BY <1>1, <2>1, FS_CardinalityType
<1>3. \A x, y \in P : x \in B[y] => c[x] < c[y]
  <2> SUFFICES ASSUME NEW x \in P, NEW y \in P, x \in B[y] PROVE c[x] < c[y]
    OBVIOUS
  <2>1. B[x] \in SUBSET B[y] /\ B[x] # B[y]
    OBVIOUS
  <2>2. c[x] <= c[y] /\ c[x] # c[y]
    BY <1>2, <2>1, FS_Subset
  <2> QED BY <1>2, <2>2
<1>4. \A x, y \in P : c[x] = c[y] => x = y
  BY <1>2, <1>3
<1>5. \A x, y \in P : c[x] < c[y] => x \in B[y]
  BY <1>2, <1>3
<1>6. \A n \in 0 .. N - 1 : \E x \in P : c[x] = n
  <2>1. IsFiniteSet(0 .. N - 1) /\ Cardinality(0 .. N - 1) = N
    BY <1>1, FS_Interval
  <2>2. c \in [P -> 0 .. N - 1]
    BY <1>2
  <2>3. c \in Injection(P, 0 .. N - 1)
    BY <1>4, <2>2 DEF Injection, IsInjective
  <2>4. c \in Surjection(P, 0 .. N - 1)
    BY <2>1, <2>3, FS_Injection
  <2> QED BY <2>4 DEF Surjection
<1>7. \A k \in 1 .. N : a[k] \in P /\ c[a[k]] = k - 1
  <2> TAKE k \in 1 .. N
  <2>1. a[k] = CHOOSE x \in P : Cardinality(B[x]) = k - 1
    BY DEF Arranged
  <2>2. \E x \in P : c[x] = k - 1
    BY <1>1, <1>6
  <2> QED BY <2>1, <2>2
<1>8. a \in [1 .. N -> P]
  BY <1>7 DEF Arranged
<1>9. \A x \in P : \E k \in 1 .. N : a[k] = x
  <2> TAKE x \in P
  <2>1. c[x] + 1 \in 1 .. N
    BY <1>1, <1>2
  <2>2. c[a[c[x] + 1]] = c[x]
    BY <1>2, <1>7, <2>1
  <2> QED BY <1>4, <1>7, <2>1, <2>2
<1>10. ASSUME NEW k \in 1 .. N, NEW l \in 1 .. N
      PROVE  /\ k < l <=> a[k] \in B[a[l]]
             /\ k # l => a[k] # a[l]
  <2>1. c[a[k]] = k - 1 /\ c[a[l]] = l - 1 /\ a[k] \in P /\ a[l] \in P
    BY <1>7
  <2>2. k < l <=> c[a[k]] < c[a[l]]
    BY <2>1, <1>1
  <2>3. c[a[k]] < c[a[l]] <=> a[k] \in B[a[l]]
    BY <1>3, <1>5, <2>1
  <2> QED BY <2>1, <2>2, <2>3
<1> HIDE DEF c
<1> QED BY <1>1, <1>8, <1>9, <1>10

(* The elements of a sequence at chosen positions, in their order.          *)
LEMMA ChosenIs ==
  ASSUME NEW S, NEW s \in Seq(S), NEW P \in SUBSET DOMAIN s,
         NEW c, c = Chosen(s, P), NEW a, a = Ascending(P), NEW N, N = Cardinality(P)
  PROVE  /\ N \in Nat
         /\ a \in [1 .. N -> P]
         /\ c \in Seq(S) /\ Len(c) = N
         /\ \A k \in 1 .. N : c[k] = s[a[k]]
         /\ \A n \in P : \E k \in 1 .. N : a[k] = n
         /\ \A k, l \in 1 .. N : k < l <=> a[k] < a[l]
<1> DEFINE B == [n \in P |-> {m \in P : m < n}]
<1>0. a = Arranged(B)
  BY DEF Ascending
<1>1. IsFiniteSet(P) /\ P \subseteq Nat /\ \A n \in P : s[n] \in S
  BY InDomain, FS_Subset
<1>2. B \in [P -> SUBSET P]
  OBVIOUS
<1>3. /\ \A x \in P : x \notin B[x]
      /\ \A x, y \in P : x \in B[y] => B[x] \subseteq B[y]
      /\ \A x, y \in P : x # y => x \in B[y] \/ y \in B[x]
  BY <1>1
<1>4. /\ N \in Nat
      /\ a \in [1 .. N -> P]
      /\ \A x \in P : \E k \in 1 .. N : a[k] = x
      /\ \A k, l \in 1 .. N : k < l <=> a[k] \in B[a[l]]
  <2> DEFINE b == Arranged(B)
             M == Cardinality(P)
  <2>1. /\ M \in Nat
        /\ b \in [1 .. M -> P]
        /\ \A x \in P : \E k \in 1 .. M : b[k] = x
        /\ \A k, l \in 1 .. M : k < l <=> b[k] \in B[b[l]]
    <3> HIDE DEF B
    <3> QED BY <1>1, <1>2, <1>3, ArrangedIs
  <2>2. a = b /\ N = M
    BY <1>0
  <2> HIDE DEF b, M, B
  <2> QED BY <2>1, <2>2
<1>5. \A k, l \in 1 .. N : k < l <=> a[k] < a[l]
  BY <1>1, <1>4
<1>6. c = [k \in 1 .. N |-> s[a[k]]]
  <2>1. DOMAIN a = 1 .. N
    BY <1>4
  <2> QED BY <2>1 DEF Chosen, Picked
<1>7. c \in [1 .. N -> S]
  BY <1>1, <1>4, <1>6
<1>8. c \in Seq(S) /\ Len(c) = N
  BY <1>4, <1>7, IsSeq
<1> QED BY <1>4, <1>5, <1>6, <1>8

Injective(s) == \A m, n \in DOMAIN s : s[m] = s[n] => m = n

LEMMA ChosenSet ==
  ASSUME NEW S, NEW s \in Seq(S), NEW P \in SUBSET DOMAIN s
  PROVE  /\ Chosen(s, P) \in Seq(S)
         /\ ToSet(Chosen(s, P)) = {s[n] : n \in P}
         /\ Chosen(s, P) = <<>> <=> P = {}
         /\ (\A m, n \in P : s[m] = s[n] => m = n) => Injective(Chosen(s, P))
<1> DEFINE c == Chosen(s, P)
           N == Cardinality(P)
           a == Ascending(P)
<1>1.   /\ N \in Nat
        /\ a \in [1 .. N -> P]
        /\ c \in Seq(S) /\ Len(c) = N
        /\ \A k \in 1 .. N : c[k] = s[a[k]]
        /\ \A n \in P : \E k \in 1 .. N : a[k] = n
        /\ \A k, l \in 1 .. N : k < l <=> a[k] < a[l]
  BY ChosenIs
<1> HIDE DEF c, N, a
<1>2. DOMAIN c = 1 .. N /\ P \subseteq Nat
  BY <1>1, InDomain
<1>3. ToSet(c) = {s[n] : n \in P}
  <2>1. \A k \in DOMAIN c : a[k] \in P /\ c[k] = s[a[k]]
    BY <1>1, <1>2
  <2>2. \A n \in P : \E k \in DOMAIN c : c[k] = s[n]
    <3> TAKE n \in P
    <3>1. PICK k \in 1 .. N : a[k] = n
      BY <1>1
    <3> QED BY <1>1, <1>2, <3>1
  <2> QED BY <2>1, <2>2 DEF ToSet
<1>4. c = <<>> <=> P = {}
  <2>1. c = <<>> <=> ToSet(c) = {}
    BY <1>1, ToSetIs
  <2> QED BY <1>3, <2>1
<1>5. ASSUME \A m, n \in P : s[m] = s[n] => m = n PROVE Injective(c)
  <2> SUFFICES ASSUME NEW k \in 1 .. N, NEW l \in 1 .. N, c[k] = c[l] PROVE k = l
    BY <1>2 DEF Injective
  <2>1. a[k] = a[l]
    BY <1>1, <1>5
  <2>2. k \in Int /\ l \in Int /\ a[k] \in Int
    BY <1>1, <1>2
  <2> QED BY <1>1, <2>1, <2>2
<1> QED BY <1>1, <1>3, <1>4, <1>5 DEF c

(* A list without its repeats has the same elements and begins with the     *)
(* same one.                                                                *)
LEMMA DistinctIs ==
  ASSUME NEW S, NEW s \in Seq(S)
  PROVE  /\ Distinct(s) \in Seq(S)
         /\ ToSet(Distinct(s)) = ToSet(s)
         /\ Injective(Distinct(s))
         /\ s # <<>> => Distinct(s) # <<>> /\ Distinct(s)[1] = s[1]
<1> DEFINE P == {n \in DOMAIN s : \A m \in 1 .. n - 1 : s[m] # s[n]}
           d == Chosen(s, P)
           N == Cardinality(P)
<1>1. d = Distinct(s)
  BY DEF Distinct
<1>2. P \in SUBSET DOMAIN s /\ Len(s) \in Nat /\ DOMAIN s = 1 .. Len(s)
  BY InDomain
<1>3. d \in Seq(S) /\ ToSet(d) = {s[n] : n \in P} /\ (d = <<>> <=> P = {})
  <2> HIDE DEF P
  <2> QED BY <1>2, ChosenSet
<1>4. \A m, n \in P : s[m] = s[n] => m = n
  BY <1>2
<1>5. Injective(d)
  <2> HIDE DEF P
  <2> QED BY <1>2, <1>4, ChosenSet
<1>6. {s[n] : n \in P} = ToSet(s)
  <2>1. ASSUME NEW n \in DOMAIN s PROVE \E m \in P : s[m] = s[n]
    <3> DEFINE Q == {m \in DOMAIN s : s[m] = s[n]}
    <3>1. PICK m \in Q : \A l \in Q : m <= l
      <4>1. Q \in SUBSET Nat /\ Q # {}
        BY <1>2
      <4> HIDE DEF Q
      <4> QED BY <4>1, Least
    <3>2. m \in P
      BY <1>2, <3>1
    <3> QED BY <3>1, <3>2
  <2> HIDE DEF P
  <2> QED BY <1>2, <2>1 DEF ToSet
<1>7. ASSUME s # <<>> PROVE d # <<>> /\ d[1] = s[1]
  <2>1. 1 \in P
    BY <1>2, <1>7, InDomain
  <2> HIDE DEF P
  <2> DEFINE a == Ascending(P)
  <2>2.   /\ N \in Nat /\ Len(d) = N
          /\ a \in [1 .. N -> P]
          /\ \A k \in 1 .. N : d[k] = s[a[k]]
          /\ \A n \in P : \E k \in 1 .. N : a[k] = n
          /\ \A k, l \in 1 .. N : k < l <=> a[k] < a[l]
    BY <1>2, ChosenIs
  <2> HIDE DEF a, d, N
  <2>3. PICK k \in 1 .. N : a[k] = 1
    BY <2>1, <2>2
  <2>4. 1 \in 1 .. N
    BY <2>2
  <2>5. a[1] \in Nat /\ a[1] >= 1
    BY <1>2, <2>2, <2>4
  <2>6. a[1] = 1
    BY <2>2, <2>3, <2>4, <2>5
  <2> QED BY <1>3, <2>1, <2>2, <2>4, <2>6
<1> HIDE DEF d
<1> QED BY <1>1, <1>3, <1>5, <1>6, <1>7

(* A list in another order has the same elements.                           *)
LEMMA SortedIs ==
  ASSUME NEW S, NEW s \in Seq(S), NEW B \in [DOMAIN s -> SUBSET DOMAIN s],
         \A x \in DOMAIN s : x \notin B[x],
         \A x, y \in DOMAIN s : x \in B[y] => B[x] \subseteq B[y],
         \A x, y \in DOMAIN s : x # y => x \in B[y] \/ y \in B[x],
         NEW c, c = Picked(s, Arranged(B))
  PROVE  /\ c \in Seq(S)
         /\ ToSet(c) = ToSet(s)
         /\ Injective(s) => Injective(c)
<1> DEFINE a == Arranged(B)
           N == Cardinality(DOMAIN s)
<1>1. /\ N \in Nat
      /\ a \in [1 .. N -> DOMAIN s]
      /\ \A x \in DOMAIN s : \E k \in 1 .. N : a[k] = x
      /\ \A k, l \in 1 .. N : k # l => a[k] # a[l]
  <2>1. IsFiniteSet(DOMAIN s)
    BY InDomain
  <2> QED BY <2>1, ArrangedIs
<1>2. c = Picked(s, a)
  OBVIOUS
<1> HIDE DEF a, N
<1>3. c = [k \in 1 .. N |-> s[a[k]]]
  BY <1>1, <1>2 DEF Picked
<1>4. c \in [1 .. N -> S]
  BY <1>1, <1>3, InDomain
<1>5. c \in Seq(S) /\ DOMAIN c = 1 .. N
  BY <1>1, <1>4, IsSeq
<1>6. ToSet(c) = ToSet(s)
  <2>1. \A k \in DOMAIN c : a[k] \in DOMAIN s /\ c[k] = s[a[k]]
    BY <1>1, <1>3, <1>5
  <2>2. \A n \in DOMAIN s : \E k \in DOMAIN c : c[k] = s[n]
    <3> TAKE n \in DOMAIN s
    <3>1. PICK k \in 1 .. N : a[k] = n
      BY <1>1
    <3> QED BY <1>3, <1>5, <3>1
  <2> QED BY <2>1, <2>2 DEF ToSet
<1>7. Injective(s) => Injective(c)
  BY <1>1, <1>3, <1>5 DEF Injective
<1> QED BY <1>5, <1>6, <1>7

-----------------------------------------------------------------------------
(* How a flattened list lies: off[i] elements are before the i-th block.    *)
Lies(t, f, off) ==
  /\ off \in [DOMAIN t -> Nat]
  /\ \A i \in DOMAIN t : \A j \in DOMAIN t[i] :
       off[i] + j \in DOMAIN f /\ f[off[i] + j] = t[i][j]
  /\ \A k \in DOMAIN f : \E i \in DOMAIN t : \E j \in DOMAIN t[i] : k = off[i] + j
  /\ \A i, m \in DOMAIN t : i < m => off[i] + Len(t[i]) <= off[m]

Unfolds(t, n, g) ==
  \A i \in 1 .. n : g[i] = IF i = 1 THEN t[i] ELSE g[i - 1] \o t[i]

(* The flattened list is there, although its definition is recursive.       *)
LEMMA FlatExists ==
  ASSUME NEW S, NEW t \in Seq(Seq(S)), NEW n \in Nat, n <= Len(t)
  PROVE  \E g \in [1 .. n -> Seq(S)] : Unfolds(t, n, g)
<1> DEFINE Good == {m \in Nat : m <= Len(t) => \E g \in [1 .. m -> Seq(S)] : Unfolds(t, m, g)}
<1>0. Len(t) \in Nat /\ \A i \in 1 .. Len(t) : t[i] \in Seq(S)
  BY InDomain
<1>1. 0 \in Good
  <2>1. [i \in 1 .. 0 |-> <<>>] \in [1 .. 0 -> Seq(S)]
    OBVIOUS
  <2>2. Unfolds(t, 0, [i \in 1 .. 0 |-> <<>>])
    BY DEF Unfolds
  <2> QED BY <2>1, <2>2
<1>2. ASSUME NEW m \in Good PROVE m + 1 \in Good
  <2>0. m \in Nat /\ (m <= Len(t) => \E g \in [1 .. m -> Seq(S)] : Unfolds(t, m, g))
    BY <1>2
  <2> SUFFICES ASSUME m + 1 <= Len(t)
               PROVE  \E g \in [1 .. m + 1 -> Seq(S)] : Unfolds(t, m + 1, g)
    <3> QED BY <2>0
  <2>1. PICK g \in [1 .. m -> Seq(S)] : Unfolds(t, m, g)
    <3>1. m <= Len(t)
      BY <1>0, <2>0
    <3> QED BY <2>0, <3>1
  <2> DEFINE h == [i \in 1 .. m + 1 |-> IF i <= m THEN g[i]
                                        ELSE IF i = 1 THEN t[i] ELSE g[m] \o t[i]]
  <2>2. h \in [1 .. m + 1 -> Seq(S)]
    <3>1. t[m + 1] \in Seq(S)
      BY <1>0
    <3>2. m # 0 => g[m] \o t[m + 1] \in Seq(S)
      BY <3>1, ConcatProperties
    <3> QED BY <3>1, <3>2
  <2>3. Unfolds(t, m + 1, h)
    <3> SUFFICES ASSUME NEW i \in 1 .. m + 1
                 PROVE  h[i] = IF i = 1 THEN t[i] ELSE h[i - 1] \o t[i]
      BY DEF Unfolds
    <3>1. CASE i <= m
      <4>1. i \in 1 .. m /\ (i # 1 => i - 1 \in 1 .. m)
        BY <2>0, <3>1
      <4>2. h[i] = g[i] /\ (i # 1 => h[i - 1] = g[i - 1])
        BY <2>0, <4>1
      <4> QED BY <2>1, <4>1, <4>2 DEF Unfolds
    <3>2. CASE i = m + 1
      <4>1. h[i] = IF i = 1 THEN t[i] ELSE g[m] \o t[i]
        BY <2>0, <3>2
      <4>2. i # 1 => h[i - 1] = g[m]
        BY <2>0, <3>2
      <4> QED BY <4>1, <4>2
    <3> QED BY <2>0, <3>1, <3>2
  <2> QED BY <2>2, <2>3
<1>3. Good = Nat
  <2>1. Good \in SUBSET Nat
    OBVIOUS
  <2> HIDE DEF Good
  <2> QED BY <1>1, <1>2, <2>1, Induct
<1> QED BY <1>3

LEMMA FlattenIs ==
  ASSUME NEW S, NEW t \in Seq(Seq(S)), NEW f, f = FlattenSeq(t)
  PROVE  f \in Seq(S) /\ \E off : Lies(t, f, off)
<1> DEFINE N == Len(t)
<1>0. N \in Nat /\ DOMAIN t = 1 .. N /\ \A i \in 1 .. N : t[i] \in Seq(S)
  BY InDomain
<1>1. CASE N = 0
  <2>1. t = <<>> /\ f = <<>>
    BY <1>1, EmptySeq DEF FlattenSeq
  <2>2. Lies(t, f, <<>>)
    BY <2>1 DEF Lies
  <2>3. f \in Seq(S)
    BY <2>1, EmptySeq
  <2> QED BY <2>2, <2>3
<1>2. CASE N # 0
  <2> DEFINE Flat(g) == g = [i \in 1 .. N |-> IF i = 1 THEN t[i] ELSE g[i - 1] \o t[i]]
             h == CHOOSE g : Flat(g)
  <2>1. f = h[N]
    BY <1>2 DEF FlattenSeq
  <2>2. Flat(h)
    <3>1. PICK g \in [1 .. N -> Seq(S)] : Unfolds(t, N, g)
      BY <1>0, FlatExists
    <3>2. Flat(g)
      BY <3>1 DEF Unfolds
    <3> HIDE DEF Flat
    <3> QED BY <3>2
  <2> HIDE DEF h
  <2>3. \A i \in 1 .. N : h[i] = IF i = 1 THEN t[i] ELSE h[i - 1] \o t[i]
    BY <2>2
  <2> DEFINE off == [i \in 1 .. N |-> IF i = 1 THEN 0 ELSE Len(h[i - 1])]
             Block(m, i) == \A j \in 1 .. Len(t[i]) :
                              /\ off[i] + j \in 1 .. Len(h[m])
                              /\ h[m][off[i] + j] = t[i][j]
             Covered(m) == \A k \in 1 .. Len(h[m]) :
                             \E i \in 1 .. m : \E j \in 1 .. Len(t[i]) : k = off[i] + j
             Prefix(m) ==
               /\ h[m] \in Seq(S)
               /\ \A i \in 1 .. m : Block(m, i)
               /\ Covered(m)
               /\ \A i \in 1 .. m : off[i] \in Nat /\ off[i] + Len(t[i]) <= Len(h[m])
               /\ \A i, l \in 1 .. m : i < l => off[i] + Len(t[i]) <= off[l]
             Good == {m \in Nat : m + 1 <= N => Prefix(m + 1)}
  <2>4. 0 \in Good
    <3>1. h[1] = t[1] /\ off[1] = 0 /\ t[1] \in Seq(S) /\ Len(t[1]) \in Nat
      BY <1>0, <1>2, <2>3, LenProperties
    <3>2. Prefix(1)
      <4> HIDE DEF off
      <4> QED BY <3>1
    <3> HIDE DEF Prefix
    <3> QED BY <3>2
  <2>5. ASSUME NEW n \in Good PROVE n + 1 \in Good
    <3>0. PICK m \in Nat : m = n + 1
      OBVIOUS
    <3>a. n \in Nat /\ (m <= N => Prefix(m))
      <4> HIDE DEF Prefix
      <4> QED BY <2>5, <3>0
    <3> SUFFICES ASSUME m + 1 <= N PROVE Prefix(m + 1)
      <4> HIDE DEF Prefix
      <4> QED BY <3>0, <3>a
    <3>1. Prefix(m) /\ m \in Nat \ {0} /\ m + 1 \in 1 .. N
      <4> HIDE DEF Prefix
      <4> QED BY <1>0, <3>0, <3>a
    <3>2. /\ m \in 1 .. N
          /\ h[m] \in Seq(S)
          /\ \A i \in 1 .. m : Block(m, i)
          /\ Covered(m)
          /\ \A i \in 1 .. m : off[i] \in Nat /\ off[i] + Len(t[i]) <= Len(h[m])
          /\ \A i, l \in 1 .. m : i < l => off[i] + Len(t[i]) <= off[l]
      <4>1. m \in 1 .. N
        BY <1>0, <3>1
      <4> HIDE DEF Block, Covered, off
      <4> QED BY <3>1, <4>1
    <3>3. t[m + 1] \in Seq(S) /\ h[m + 1] = h[m] \o t[m + 1] /\ off[m + 1] = Len(h[m])
      <4>1. m + 1 # 1 /\ m + 1 - 1 = m /\ m + 1 \in 1 .. N
        BY <3>1
      <4>2. off[m + 1] = Len(h[m])
        BY <4>1
      <4> HIDE DEF off, Prefix
      <4>3. h[m + 1] = h[m] \o t[m + 1]
        <5>1. PICK p \in 1 .. N : p = m + 1
          BY <4>1
        <5>2. p # 1 /\ p - 1 = m
          BY <4>1, <5>1
        <5>3. h[p] = IF p = 1 THEN t[p] ELSE h[p - 1] \o t[p]
          BY <2>3
        <5>4. h[p] = h[m] \o t[p]
          BY <5>2, <5>3
        <5> QED BY <5>1, <5>4
      <4> QED BY <1>0, <4>1, <4>2, <4>3
    <3> HIDE DEF off, Block, Covered, Prefix
    <3>4. PICK u, v, w : u = h[m] /\ v = t[m + 1] /\ w = h[m + 1]
      OBVIOUS
    <3>5. /\ w \in Seq(S) /\ Len(u) \in Nat /\ Len(v) \in Nat
          /\ Len(w) = Len(u) + Len(v)
          /\ \A k \in 1 .. Len(u) : k \in 1 .. Len(w) /\ w[k] = u[k]
          /\ \A k \in 1 .. Len(v) : Len(u) + k \in 1 .. Len(w) /\ w[Len(u) + k] = v[k]
          /\ \A k \in 1 .. Len(w) : k \in 1 .. Len(u) \/ k - Len(u) \in 1 .. Len(v)
      <4>1. u \in Seq(S) /\ v \in Seq(S) /\ w = u \o v
        BY <3>2, <3>3, <3>4
      <4> QED BY <4>1, ConcatIs
    <3>6. \A i \in 1 .. m + 1 : i \in 1 .. m \/ i = m + 1
      BY <3>1
    <3>7. \A i \in 1 .. m + 1 : Block(m + 1, i)
      <4> SUFFICES ASSUME NEW i \in 1 .. m + 1, NEW j \in 1 .. Len(t[i])
                   PROVE  off[i] + j \in 1 .. Len(w) /\ w[off[i] + j] = t[i][j]
        BY <3>4 DEF Block
      <4>1. CASE i \in 1 .. m
        <5>1. off[i] + j \in 1 .. Len(u) /\ u[off[i] + j] = t[i][j]
          BY <3>2, <3>4, <4>1 DEF Block
        <5> QED BY <3>5, <5>1
      <4>2. CASE i = m + 1
        <5>1. off[i] = Len(u) /\ t[i] = v
          BY <3>3, <3>4, <4>2
        <5> QED BY <3>5, <5>1
      <4> QED BY <3>6, <4>1, <4>2
    <3>8. Covered(m + 1)
      <4> SUFFICES ASSUME NEW k \in 1 .. Len(w)
                   PROVE  \E i \in 1 .. m + 1 : \E j \in 1 .. Len(t[i]) : k = off[i] + j
        BY <3>4 DEF Covered
      <4>1. CASE k \in 1 .. Len(u)
        <5>1. PICK i \in 1 .. m : \E j \in 1 .. Len(t[i]) : k = off[i] + j
          BY <3>2, <3>4, <4>1 DEF Covered
        <5>2. i \in 1 .. m + 1
          BY <3>1
        <5> QED BY <5>1, <5>2
      <4>2. CASE k - Len(u) \in 1 .. Len(v)
        <5>1. k - Len(u) \in 1 .. Len(t[m + 1]) /\ m + 1 \in 1 .. m + 1
          BY <3>1, <3>4, <4>2
        <5>2. k = off[m + 1] + (k - Len(u))
          BY <3>3, <3>4, <3>5
        <5> QED BY <5>1, <5>2
      <4> QED BY <3>5, <4>1, <4>2
    <3>9. \A i \in 1 .. m + 1 : off[i] \in Nat /\ off[i] + Len(t[i]) <= Len(h[m + 1])
      <4> TAKE i \in 1 .. m + 1
      <4>1. CASE i \in 1 .. m
        <5>1. Len(t[i]) \in Nat
          BY <1>0, <3>2, <4>1, LenProperties
        <5>2. off[i] \in Nat /\ off[i] + Len(t[i]) <= Len(u)
          BY <3>2, <3>4, <4>1
        <5>3. Len(w) = Len(h[m + 1])
          BY <3>4
        <5>4. Len(u) <= Len(w) /\ Len(w) \in Nat
          BY <3>5
        <5> QED BY <3>5, <5>1, <5>2, <5>3, <5>4
      <4>2. CASE i = m + 1
        <5>1. off[i] = Len(u) /\ Len(t[i]) = Len(v) /\ Len(h[m + 1]) = Len(w)
          BY <3>3, <3>4, <4>2
        <5> QED BY <3>5, <5>1
      <4> QED BY <3>6, <4>1, <4>2
    <3>10. \A i, l \in 1 .. m + 1 : i < l => off[i] + Len(t[i]) <= off[l]
      <4> SUFFICES ASSUME NEW i \in 1 .. m + 1, NEW l \in 1 .. m + 1, i < l
                   PROVE  off[i] + Len(t[i]) <= off[l]
        OBVIOUS
      <4>1. i \in 1 .. m
        BY <3>1
      <4> QED BY <3>2, <3>3, <3>6, <4>1
    <3> QED BY <3>4, <3>5, <3>7, <3>8, <3>9, <3>10 DEF Prefix
  <2>6. Good = Nat
    <3>1. Good \in SUBSET Nat
      OBVIOUS
    <3> HIDE DEF Good
    <3> QED BY <2>4, <2>5, <3>1, Induct
  <2>7. Prefix(N)
    <3>1. N - 1 \in Nat /\ N - 1 + 1 = N
      BY <1>0, <1>2
    <3>2. N - 1 \in Good
      <4> HIDE DEF Good
      <4> QED BY <2>6, <3>1
    <3> HIDE DEF Prefix
    <3> QED BY <3>1, <3>2
  <2>8. f \in Seq(S) /\ DOMAIN f = 1 .. Len(f) /\ f = h[N]
    BY <2>1, <2>7, InDomain
  <2>9. \A i \in DOMAIN t : DOMAIN t[i] = 1 .. Len(t[i])
    BY <1>0, InDomain
  <2>10. Lies(t, f, off)
    <3>1. off \in [DOMAIN t -> Nat]
      BY <1>0, <2>7
    <3> HIDE DEF off
    <3>2. \A i \in DOMAIN t : \A j \in DOMAIN t[i] :
            off[i] + j \in DOMAIN f /\ f[off[i] + j] = t[i][j]
      BY <1>0, <2>7, <2>8, <2>9
    <3>3. \A k \in DOMAIN f : \E i \in DOMAIN t : \E j \in DOMAIN t[i] : k = off[i] + j
      <4>1. Covered(N)
        <5> HIDE DEF Covered, Block
        <5> QED BY <2>7
      <4> QED BY <1>0, <2>8, <2>9, <4>1
    <3>4. \A i, m \in DOMAIN t : i < m => off[i] + Len(t[i]) <= off[m]
      BY <1>0, <2>7
    <3> QED BY <3>1, <3>2, <3>3, <3>4 DEF Lies
  <2> QED BY <2>8, <2>10
<1> QED BY <1>1, <1>2

LEMMA FlattenedSet ==
  ASSUME NEW S, NEW t \in Seq(Seq(S)), NEW f, f = FlattenSeq(t)
  PROVE  /\ f \in Seq(S)
         /\ ToSet(f) = UNION {ToSet(t[i]) : i \in DOMAIN t}
         /\ /\ \A i \in DOMAIN t : Injective(t[i])
            /\ \A i, m \in DOMAIN t : i # m => ToSet(t[i]) \cap ToSet(t[m]) = {}
            => Injective(f)
<1>1. f \in Seq(S)
  BY FlattenIs
<1>2. PICK off : Lies(t, f, off)
  BY FlattenIs
<1>3. \A k \in DOMAIN f : \E i \in DOMAIN t : \E j \in DOMAIN t[i] : f[k] = t[i][j]
  BY <1>2 DEF Lies
<1>4. \A i \in DOMAIN t : \A j \in DOMAIN t[i] : \E k \in DOMAIN f : f[k] = t[i][j]
  BY <1>2 DEF Lies
<1>5. ToSet(f) = UNION {ToSet(t[i]) : i \in DOMAIN t}
  BY <1>3, <1>4 DEF ToSet
<1>6. ASSUME \A i \in DOMAIN t : Injective(t[i]),
             \A i, m \in DOMAIN t : i # m => ToSet(t[i]) \cap ToSet(t[m]) = {}
      PROVE  Injective(f)
  <2> SUFFICES ASSUME NEW k \in DOMAIN f, NEW l \in DOMAIN f, f[k] = f[l] PROVE k = l
    BY DEF Injective
  <2>1. PICK i \in DOMAIN t : \E j \in DOMAIN t[i] : k = off[i] + j
    BY <1>2 DEF Lies
  <2>2. PICK j \in DOMAIN t[i] : k = off[i] + j
    BY <2>1
  <2>3. PICK m \in DOMAIN t : \E n \in DOMAIN t[m] : l = off[m] + n
    BY <1>2 DEF Lies
  <2>4. PICK n \in DOMAIN t[m] : l = off[m] + n
    BY <2>3
  <2>5. f[k] = t[i][j] /\ f[l] = t[m][n]
    BY <1>2, <2>2, <2>4 DEF Lies
  <2>6. t[i][j] \in ToSet(t[i]) /\ t[m][n] \in ToSet(t[m])
    BY DEF ToSet
  <2>7. i = m
    BY <1>6, <2>5, <2>6
  <2>8. j = n
    BY <1>6, <2>5, <2>7 DEF Injective
  <2> QED BY <2>2, <2>4, <2>7, <2>8
<1> QED BY <1>1, <1>5, <1>6

(* A list made from another, element by element.                            *)
LEMMA MapIs ==
  ASSUME NEW S, NEW s \in Seq(S), NEW T, NEW f \in [DOMAIN s -> T]
  PROVE  f \in Seq(T) /\ Len(f) = Len(s) /\ DOMAIN f = DOMAIN s
<1>1. Len(s) \in Nat /\ DOMAIN s = 1 .. Len(s)
  BY InDomain
<1> QED BY <1>1, IsSeq

(* At most n elements of a list, after the first from.                      *)
LEMMA SliceIs ==
  ASSUME NEW S, NEW s \in Seq(S), NEW from \in Nat, NEW n \in Nat,
         NEW p, p = SubSeq(s, from + 1, IF from + n < Len(s) THEN from + n ELSE Len(s))
  PROVE  /\ p \in Seq(S) /\ Len(s) \in Nat
         /\ Len(p) = IF from + n < Len(s) THEN n
                     ELSE IF from < Len(s) THEN Len(s) - from ELSE 0
         /\ DOMAIN p = 1 .. Len(p)
         /\ \A k \in DOMAIN p : from + k \in DOMAIN s /\ p[k] = s[from + k]
         /\ ToSet(p) \subseteq ToSet(s)
         /\ Injective(s) => Injective(p)
<1> DEFINE N == Len(s)
           to == IF from + n < N THEN from + n ELSE N
<1>1. N \in Nat /\ DOMAIN s = 1 .. N /\ \A k \in 1 .. N : s[k] \in S
  BY InDomain
<1>2. to \in Nat /\ to <= N
  BY <1>1
<1>3. p = SubSeq(s, from + 1, to)
  OBVIOUS
<1>4. /\ p \in Seq(S)
      /\ Len(p) = IF from + 1 <= to THEN to - (from + 1) + 1 ELSE 0
      /\ \A k \in 1 .. to - (from + 1) + 1 : p[k] = s[from + 1 + k - 1]
  <2>1. \A k \in from + 1 .. to : s[k] \in S
    BY <1>1, <1>2
  <2>2. from + 1 \in Int /\ to \in Int
    BY <1>2
  <2> HIDE DEF to
  <2> QED BY <1>3, <2>1, <2>2, SubSeqProperties
<1>5. Len(p) = IF from + n < N THEN n ELSE IF from < N THEN N - from ELSE 0
  BY <1>1, <1>4
<1>6. \A k \in 1 .. Len(p) : from + k \in DOMAIN s /\ p[k] = s[from + k]
  <2> TAKE k \in 1 .. Len(p)
  <2>1. k \in 1 .. to - (from + 1) + 1 /\ from + 1 + k - 1 = from + k /\ from + k \in 1 .. N
    BY <1>1, <1>2, <1>4
  <2> HIDE DEF to
  <2> QED BY <1>1, <1>4, <2>1
<1>7. DOMAIN p = 1 .. Len(p)
  BY <1>4, InDomain
<1>8. ToSet(p) \subseteq ToSet(s)
  BY <1>6, <1>7 DEF ToSet
<1>9. Injective(s) => Injective(p)
  <2> SUFFICES ASSUME Injective(s), NEW k \in 1 .. Len(p), NEW l \in 1 .. Len(p), p[k] = p[l]
               PROVE  k = l
    BY <1>7 DEF Injective
  <2>1. from + k = from + l
    <3>1. p[k] = s[from + k] /\ p[l] = s[from + l]
      BY <1>6
    <3>2. from + k \in DOMAIN s /\ from + l \in DOMAIN s
      BY <1>6
    <3>3. s[from + k] = s[from + l]
      BY <3>1
    <3> QED BY <3>2, <3>3 DEF Injective
  <2>2. k \in Int /\ l \in Int
    BY <1>4
  <2> QED BY <2>1, <2>2
<1> HIDE DEF to
<1> QED BY <1>1, <1>4, <1>5, <1>6, <1>7, <1>8, <1>9
=============================================================================
