---------------------------- MODULE CSRGraphProofs ---------------------------
(***************************************************************************)
(* What the proofs about the kernels use of a graph and of the reference   *)
(* definitions they are judged by: Connected is the equivalence the edges  *)
(* generate, Walks holds exactly what walks along the edges add up to, and *)
(* a label-correcting search that has nothing left to relax is exact.      *)
(***************************************************************************)
EXTENDS Distances, WeightedGraph, TLAPS,
        NaturalsInduction, WellFoundedInduction, FiniteSetTheorems, SequenceTheorems

(***************************************************************************)
(* Numbers and sequences.                                                  *)
(***************************************************************************)
(* A set of natural numbers that is not empty has a least element.         *)
LEMMA LeastNumber ==
  ASSUME NEW T, T \subseteq Nat, T # {}
  PROVE  \E m \in T : \A k \in T : m <= k
<1>1. \A R : IsWellFoundedOn(R, Nat) => \E m \in T : \A k \in T : <<k, m>> \notin R
  <2>. SUFFICES ASSUME NEW R, IsWellFoundedOn(R, Nat)
                PROVE  \E m \in T : \A k \in T : <<k, m>> \notin R
    OBVIOUS
  <2>1. PICK S : S = Nat
    OBVIOUS
  <2>2. IsWellFoundedOn(R, S) /\ T \subseteq S
    BY <2>1
  <2>. QED BY <2>2, WFMin
<1>2. PICK R : IsWellFoundedOn(R, Nat) /\ \A k, m \in Nat : k < m => <<k, m>> \in R
  <2>1. \A k, m \in Nat : k < m => <<k, m>> \in OpToRel(<, Nat)
    BY DEF OpToRel
  <2>. QED BY <2>1, NatLessThanWellFounded, Zenon
<1>3. PICK m \in T : \A k \in T : <<k, m>> \notin R
  BY <1>1, <1>2
<1>4. \A k \in T : m <= k
  <2>. SUFFICES ASSUME NEW k \in T PROVE m <= k
    OBVIOUS
  <2>1. k \in Nat /\ m \in Nat /\ ~(k < m)
    BY <1>2, <1>3
  <2>. QED BY <2>1
<1>. QED BY <1>4

LEMMA LeastIs ==
  ASSUME NEW T, T \subseteq Nat, NEW x \in T, \A k \in T : x <= k
  PROVE  x = CHOOSE l \in T : \A k \in T : l <= k
<1>. DEFINE c == CHOOSE l \in T : \A k \in T : l <= k
<1>1. c \in T /\ \A k \in T : c <= k
  BY Zenon
<1>. HIDE DEF c
<1>2. c = x
  <2>1. c \in Nat /\ x \in Nat /\ c <= x /\ x <= c
    BY <1>1
  <2>. QED BY <2>1
<1>. QED BY <1>2 DEF c

(* A set that holds 0 and with every number the next one holds all of Nat. *)
LEMMA Induction ==
  ASSUME NEW S, S \subseteq Nat, 0 \in S, \A n \in S : n + 1 \in S
  PROVE  S = Nat
<1>. SUFFICES ASSUME S # Nat PROVE FALSE
  OBVIOUS
<1>. DEFINE T == Nat \ S
<1>1. T \subseteq Nat /\ T # {}
  OBVIOUS
<1>2. PICK m \in T : \A k \in T : m <= k
  BY <1>1, LeastNumber
<1>3. m \in Nat /\ m # 0
  BY <1>2
<1>4. m - 1 \in Nat /\ m - 1 < m /\ (m - 1) + 1 = m
  BY <1>3
<1>5. m - 1 \in S
  BY <1>2, <1>4
<1>. QED BY <1>2, <1>4, <1>5

(***************************************************************************)
(* A recursive function on 0 .. n has a solution: base at 0, and h of the  *)
(* value before everywhere else.                                           *)
(***************************************************************************)
IsRecursion(f, D, base, h, n) ==
  /\ f \in [0 .. n -> D] /\ f[0] = base
  /\ \A k \in 1 .. n : f[k] = h[f[k - 1]]

LEMMA RecursionExists ==
  ASSUME NEW D, NEW base \in D, NEW h \in [D -> D], NEW n \in Nat
  PROVE  \E f : IsRecursion(f, D, base, h, n)
<1>. DEFINE Solves(f, m) == IsRecursion(f, D, base, h, m)
            S == {m \in Nat : \E f : Solves(f, m)}
<1>1. 0 \in S
  <2>. DEFINE f == [k \in 0 .. 0 |-> base]
  <2>1. Solves(f, 0)
    BY DEF IsRecursion
  <2>. HIDE DEF Solves
  <2>. QED BY <2>1
<1>2. ASSUME NEW m \in S PROVE m + 1 \in S
  <2>1. PICK f : Solves(f, m)
    BY <1>2
  <2>. DEFINE e == [k \in 0 .. m + 1 |-> IF k = m + 1 THEN h[f[m]] ELSE f[k]]
  <2>2. m \in Nat /\ m + 1 \in Nat /\ m \in 0 .. m /\ f[m] \in D /\ h[f[m]] \in D
    BY <2>1 DEF IsRecursion
  <2>3. e \in [0 .. m + 1 -> D] /\ e[0] = base
    <3>1. \A k \in 0 .. m + 1 : k # m + 1 => k \in 0 .. m
      BY <2>2
    <3>. QED BY <2>1, <2>2, <3>1 DEF IsRecursion
  <2>4. ASSUME NEW k \in 1 .. m + 1 PROVE e[k] = h[e[k - 1]]
    <3>1. CASE k = m + 1
      BY <2>2, <3>1
    <3>2. CASE k # m + 1
      <4>1. k \in 1 .. m /\ k - 1 \in 0 .. m + 1 /\ k - 1 # m + 1 /\ k \in 0 .. m + 1
        BY <2>2, <3>2
      <4>2. f[k] = h[f[k - 1]]
        BY <2>1, <4>1 DEF IsRecursion
      <4>. QED BY <3>2, <4>1, <4>2
    <3>. QED BY <3>1, <3>2
  <2>5. Solves(e, m + 1)
    BY <2>3, <2>4 DEF IsRecursion
  <2>. HIDE DEF Solves, e
  <2>. QED BY <2>2, <2>5
<1>. HIDE DEF Solves
<1>3. S = Nat
  <2>1. S \subseteq Nat /\ \A m \in S : m + 1 \in S
    BY <1>2
  <2>. HIDE DEF S
  <2>. QED BY <1>1, <2>1, Induction
<1>4. PICK f : Solves(f, n)
  BY <1>3
<1>. QED BY <1>4 DEF Solves

(* A quotient, and the bin of a distance: bin b of width d starts at b * d *)
LEMMA DivType ==
  ASSUME NEW a \in Nat, NEW d \in Nat \ {0}
  PROVE  a \div d \in Nat /\ d * (a \div d) <= a /\ a < d * (a \div d) + d
OBVIOUS

(* The test against the lower bound of a bin is one between bins.          *)
LEMMA DivBound ==
  ASSUME NEW a \in Nat, NEW d \in Nat \ {0}, NEW b \in Nat
  PROVE  b <= a \div d <=> d * b <= a
<1>. DEFINE q == a \div d
<1>1. q \in Nat /\ d * q <= a /\ a < d * q + d
  BY DivType
<1>. HIDE DEF q
<1>2. ASSUME b <= q PROVE d * b <= a
  <2>1. PICK r \in Nat : q = b + r
    <3>1. q - b \in Nat /\ q = b + (q - b)
      BY <1>1, <1>2
    <3>. QED BY <3>1
  <2>2. d * q = d * b + d * r /\ d * r \in Nat /\ d * b \in Nat
    BY <2>1
  <2>. QED BY <1>1, <2>2
<1>3. ASSUME ~(b <= q) PROVE ~(d * b <= a)
  <2>1. PICK r \in Nat : b = q + 1 + r
    <3>1. b - q - 1 \in Nat /\ b = q + 1 + (b - q - 1)
      BY <1>1, <1>3
    <3>. QED BY <3>1
  <2>2. d * b = d * q + d + d * r /\ d * r \in Nat /\ d * q \in Nat
    BY <1>1, <2>1
  <2>. QED BY <1>1, <2>2
<1>4. b <= q <=> d * b <= a
  BY <1>2, <1>3
<1>. QED BY <1>4 DEF q

LEMMA DivMonotone ==
  ASSUME NEW a \in Nat, NEW b \in Nat, NEW d \in Nat \ {0}, a <= b
  PROVE  a \div d <= b \div d
<1>. DEFINE q == a \div d
<1>1. q \in Nat /\ d * q <= a
  BY DivType
<1>. HIDE DEF q
<1>2. d * q <= b
  BY <1>1
<1>3. q <= b \div d
  BY <1>1, <1>2, DivBound
<1>. QED BY <1>3 DEF q

(* The remainder of a number that is a multiple and less than one more.    *)
LEMMA RemainderIs ==
  ASSUME NEW a \in Nat, NEW m \in Nat \ {0}, NEW q \in Nat, NEW r \in 0 .. m - 1,
         a = m * q + r
  PROVE  a % m = r
<1>. DEFINE p == a \div m
<1>1. p \in Nat /\ a % m = a - m * p
  OBVIOUS
<1>. HIDE DEF p
<1>2. m * q \in Nat /\ m * (q + 1) = m * q + m
  OBVIOUS
<1>3. m * q <= a /\ ~(m * (q + 1) <= a)
  BY <1>2
<1>4. q <= p /\ ~(q + 1 <= p)
  BY <1>3, DivBound DEF p
<1>5. p = q
  BY <1>1, <1>4
<1>. QED BY <1>1, <1>2, <1>5

(* A WeightT keeps every number below half its range.                      *)
LEMMA NoOverflow ==
  ASSUME NEW n \in Nat, n < WeightRange \div 2
  PROVE  Truncate(n) = n
<1>1. WeightRange \in Nat \ {0} /\ WeightRange \div 2 <= WeightRange
  BY WeightRangeAssumption
<1>2. n % WeightRange = n
  BY <1>1
<1>. QED BY <1>1, <1>2 DEF Truncate

(* Members of sequences.                                                   *)
LEMMA ElemsType ==
  ASSUME NEW S, NEW s \in Seq(S)
  PROVE  Elems(s) \subseteq S /\ (s # <<>> => \E x \in Elems(s) : TRUE)
<1>1. DOMAIN s = 1 .. Len(s) /\ Len(s) \in Nat /\ \A i \in 1 .. Len(s) : s[i] \in S
  OBVIOUS
<1>2. s # <<>> => 1 \in DOMAIN s
  BY <1>1
<1>. QED BY <1>1, <1>2 DEF Elems

LEMMA ElemsEmpty == Elems(<<>>) = {}
BY DEF Elems

LEMMA ElemsHeadTail ==
  ASSUME NEW S, NEW s \in Seq(S), s # <<>>
  PROVE  /\ Head(s) \in S /\ Tail(s) \in Seq(S)
         /\ \A x : x \in Elems(s) <=> x = Head(s) \/ x \in Elems(Tail(s))
<1>1. /\ Head(s) \in S /\ Tail(s) \in Seq(S) /\ Head(s) = s[1]
      /\ DOMAIN s = 1 .. Len(s) /\ Len(s) \in Nat \ {0}
      /\ DOMAIN Tail(s) = 1 .. Len(s) - 1
      /\ \A i \in 1 .. Len(s) - 1 : Tail(s)[i] = s[i + 1]
  BY HeadTailProperties
<1>. DEFINE q == Tail(s)
<1>2. DOMAIN q = 1 .. Len(s) - 1 /\ \A i \in 1 .. Len(s) - 1 : q[i] = s[i + 1]
  BY <1>1
<1>. HIDE DEF q
<1>3. ASSUME NEW x, x \in Elems(s) PROVE x = Head(s) \/ x \in Elems(q)
  <2>1. PICK i \in 1 .. Len(s) : x = s[i]
    BY <1>1, <1>3 DEF Elems
  <2>2. CASE i = 1
    BY <1>1, <2>1, <2>2
  <2>3. CASE i # 1
    <3>1. i - 1 \in 1 .. Len(s) - 1 /\ (i - 1) + 1 = i
      BY <1>1, <2>3
    <3>2. q[i - 1] = x
      BY <1>2, <2>1, <3>1
    <3>. QED BY <1>2, <3>1, <3>2 DEF Elems
  <2>. QED BY <2>2, <2>3
<1>4. ASSUME NEW x, x = Head(s) \/ x \in Elems(q) PROVE x \in Elems(s)
  <2>1. CASE x = Head(s)
    <3>1. 1 \in DOMAIN s /\ x = s[1]
      BY <1>1, <2>1
    <3>. QED BY <3>1 DEF Elems
  <2>2. CASE x \in Elems(q)
    <3>1. PICK i \in 1 .. Len(s) - 1 : x = s[i + 1]
      BY <1>2, <2>2 DEF Elems
    <3>2. i + 1 \in DOMAIN s
      BY <1>1
    <3>. QED BY <3>1, <3>2 DEF Elems
  <2>. QED BY <1>4, <2>1, <2>2
<1>5. \A x : x \in Elems(s) <=> x = Head(s) \/ x \in Elems(q)
  BY <1>3, <1>4
<1>. QED BY <1>1, <1>5 DEF q

LEMMA ElemsAppend ==
  ASSUME NEW S, NEW s \in Seq(S), NEW x \in S
  PROVE  /\ Append(s, x) \in Seq(S) /\ Append(s, x) # <<>>
         /\ \A y : y \in Elems(Append(s, x)) <=> y \in Elems(s) \/ y = x
<1>1. /\ Append(s, x) \in Seq(S) /\ Len(s) \in Nat /\ DOMAIN s = 1 .. Len(s)
      /\ Len(Append(s, x)) = Len(s) + 1 /\ DOMAIN Append(s, x) = 1 .. Len(s) + 1
      /\ \A i \in 1 .. Len(s) : Append(s, x)[i] = s[i]
      /\ Append(s, x)[Len(s) + 1] = x
  BY AppendProperties
<1>. DEFINE q == Append(s, x)
<1>2. /\ DOMAIN q = 1 .. Len(s) + 1 /\ q[Len(s) + 1] = x
      /\ \A i \in 1 .. Len(s) : q[i] = s[i]
      /\ q \in Seq(S) /\ Len(q) = Len(s) + 1
  BY <1>1
<1>. HIDE DEF q
<1>3. q # <<>>
  BY <1>1, <1>2
<1>4. ASSUME NEW y, y \in Elems(q) PROVE y \in Elems(s) \/ y = x
  <2>1. PICK i \in 1 .. Len(s) + 1 : y = q[i]
    BY <1>2, <1>4 DEF Elems
  <2>2. i \in 1 .. Len(s) \/ i = Len(s) + 1
    BY <1>1
  <2>. QED BY <1>1, <1>2, <2>1, <2>2 DEF Elems
<1>5. ASSUME NEW y, y \in Elems(s) \/ y = x PROVE y \in Elems(q)
  <2>1. CASE y \in Elems(s)
    <3>1. PICK i \in 1 .. Len(s) : y = s[i]
      BY <1>1, <2>1 DEF Elems
    <3>2. i \in DOMAIN q /\ q[i] = y
      BY <1>1, <1>2, <3>1
    <3>. QED BY <3>2 DEF Elems
  <2>2. CASE y = x
    <3>1. Len(s) + 1 \in DOMAIN q
      BY <1>1, <1>2
    <3>. QED BY <1>2, <2>2, <3>1 DEF Elems
  <2>. QED BY <1>5, <2>1, <2>2
<1>. QED BY <1>2, <1>3, <1>4, <1>5 DEF q
-----------------------------------------------------------------------------
(***************************************************************************)
(* Counting: a relation that gives each of the first k numbers a vertex,   *)
(* and no vertex to two of them, needs as many vertices as numbers.        *)
(***************************************************************************)
LEMMA VerticesCounted == IsFiniteSet(V) /\ Cardinality(V) = NumNodes
BY FS_Interval, NumNodesAssumption DEF V

(* A bijection preserves the number of elements.                           *)
LEMMA SameSize ==
  ASSUME NEW S, NEW T, IsFiniteSet(S), NEW f \in [S -> T],
         \A i, j \in S : f[i] = f[j] => i = j, \A y \in T : \E i \in S : f[i] = y
  PROVE  IsFiniteSet(T) /\ Cardinality(T) = Cardinality(S)
<1>1. f \in Bijection(S, T)
  BY DEF Bijection, Injection, Surjection, IsInjective
<1>2. ExistsBijection(S, T)
  BY <1>1 DEF ExistsBijection
<1>. QED BY <1>2, FS_Bijection

LEMMA SlotsFit ==
  ASSUME NEW k \in Nat, NEW R,
         \A i \in 0 .. k - 1 : \E n \in V : <<i, n>> \in R,
         \A n \in V : \A i, j \in Nat : <<i, n>> \in R /\ <<j, n>> \in R => i = j
  PROVE  k <= NumNodes
<1>. DEFINE f == [i \in 0 .. k - 1 |-> CHOOSE n \in V : <<i, n>> \in R]
<1>1. \A i \in 0 .. k - 1 : f[i] \in V /\ <<i, f[i]>> \in R
  OBVIOUS
<1>2. f \in [0 .. k - 1 -> V]
  BY <1>1
<1>. HIDE DEF f
<1>3. ASSUME NEW i \in 0 .. k - 1, NEW j \in 0 .. k - 1, f[i] = f[j] PROVE i = j
  <2>1. f[i] \in V /\ <<i, f[i]>> \in R /\ <<j, f[i]>> \in R /\ i \in Nat /\ j \in Nat
    BY <1>1, <1>3
  <2>. QED BY <2>1
<1>4. f \in Injection(0 .. k - 1, V)
  BY <1>2, <1>3 DEF Injection, IsInjective
<1>5. Cardinality(0 .. k - 1) = k
  BY FS_Interval
<1>. QED BY <1>4, <1>5, VerticesCounted, FS_Injection
-----------------------------------------------------------------------------
(***************************************************************************)
(* The total of w over a set S of vertices, added up vertex by vertex.     *)
(***************************************************************************)
Share(w, S, n) == IF n \in S THEN w[n] ELSE 0

AddsUp(f, w, S) ==
  /\ f \in [0 .. NumNodes -> Nat] /\ f[0] = 0
  /\ \A k \in V : f[k + 1] = f[k] + Share(w, S, k)

Total(w, S) == CHOOSE x \in Nat : \E f : AddsUp(f, w, S) /\ x = f[NumNodes]

LEMMA SumExists ==
  ASSUME NEW w \in [V -> Nat], NEW S
  PROVE  \E f : AddsUp(f, w, S)
<1>. DEFINE N == NumNodes
            D == Nat \X Nat
            h == [p \in D |-> <<p[1] + 1, p[2] + (IF p[1] \in V THEN Share(w, S, p[1]) ELSE 0)>>]
            base == <<0, 0>>
<1>1. N \in Nat /\ V = 0 .. N - 1 /\ \A k \in V : Share(w, S, k) \in Nat
  BY NumNodesAssumption DEF V, Share
<1>2. base \in D /\ h \in [D -> D]
  BY <1>1
<1>3. PICK q : q \in [0 .. N -> D] /\ q[0] = base /\ \A k \in 1 .. N : q[k] = h[q[k - 1]]
  <2>. HIDE DEF D, h, N, base
  <2>1. \E f : IsRecursion(f, D, base, h, N)
    BY <1>1, <1>2, RecursionExists
  <2>. QED BY <2>1 DEF IsRecursion
<1>. DEFINE T == {k \in Nat : k <= N => q[k][1] = k}
<1>4. T = Nat
  <2>1. 0 \in T
    BY <1>3
  <2>2. ASSUME NEW k \in T PROVE k + 1 \in T
    <3>. SUFFICES ASSUME k + 1 <= N PROVE q[k + 1][1] = k + 1
      OBVIOUS
    <3>1. k \in 0 .. N /\ k + 1 \in 1 .. N /\ (k + 1) - 1 = k
      BY <1>1
    <3>2. q[k] \in D /\ q[k][1] = k /\ q[k + 1] = h[q[k]]
      BY <1>3, <3>1
    <3>. QED BY <3>2
  <2>3. T \subseteq Nat /\ \A k \in T : k + 1 \in T
    BY <2>2
  <2>. HIDE DEF T
  <2>. QED BY <2>1, <2>3, Induction
<1>. DEFINE f == [k \in 0 .. N |-> q[k][2]]
<1>5. f \in [0 .. N -> Nat] /\ f[0] = 0
  BY <1>1, <1>3
<1>6. ASSUME NEW k \in V PROVE f[k + 1] = f[k] + Share(w, S, k)
  <2>1. k \in 0 .. N /\ k + 1 \in 0 .. N /\ k + 1 \in 1 .. N /\ (k + 1) - 1 = k
    BY <1>1
  <2>2. q[k] \in D /\ q[k][1] = k /\ q[k + 1] = h[q[k]]
    <3>1. \A l \in Nat : l <= N => q[l][1] = l
      BY <1>4
    <3>2. k \in Nat /\ k <= N
      BY <1>1, <2>1
    <3>. QED BY <1>3, <2>1, <3>1, <3>2
  <2>3. h[q[k]] = <<k + 1, q[k][2] + Share(w, S, k)>>
    BY <2>2
  <2>4. q[k + 1][2] = q[k][2] + Share(w, S, k)
    BY <2>2, <2>3
  <2>. QED BY <2>1, <2>4
<1>7. AddsUp(f, w, S)
  BY <1>5, <1>6 DEF AddsUp
<1>. QED BY <1>7, Zenon

LEMMA TotalIs ==
  ASSUME NEW w, NEW S, NEW f, AddsUp(f, w, S)
  PROVE  Total(w, S) = f[NumNodes] /\ Total(w, S) \in Nat
<1>. DEFINE N == NumNodes
<1>1. N \in Nat /\ V = 0 .. N - 1
  BY NumNodesAssumption DEF V
<1>2. ASSUME NEW e, AddsUp(e, w, S) PROVE e[N] = f[N]
  <2>. DEFINE T == {k \in Nat : k <= N => e[k] = f[k]}
  <2>1. 0 \in T
    BY <1>2 DEF AddsUp
  <2>2. ASSUME NEW k \in T PROVE k + 1 \in T
    <3>. SUFFICES ASSUME k + 1 <= N PROVE e[k + 1] = f[k + 1]
      OBVIOUS
    <3>1. k \in V /\ k <= N
      BY <1>1
    <3>2. e[k + 1] = e[k] + Share(w, S, k) /\ f[k + 1] = f[k] + Share(w, S, k)
      BY <1>2, <3>1 DEF AddsUp
    <3>. QED BY <3>1, <3>2
  <2>3. T \subseteq Nat /\ \A k \in T : k + 1 \in T
    BY <2>2
  <2>4. T = Nat
    <3>. HIDE DEF T
    <3>. QED BY <2>1, <2>3, Induction
  <2>. QED BY <1>1, <2>4
<1>3. f[N] \in Nat
  BY <1>1 DEF AddsUp
<1>4. \E x \in Nat : \E e : AddsUp(e, w, S) /\ x = e[N]
  BY <1>3
<1>5. Total(w, S) \in Nat /\ \E e : AddsUp(e, w, S) /\ Total(w, S) = e[N]
  BY <1>4, Zenon DEF Total
<1>. QED BY <1>2, <1>5

LEMMA TotalFacts ==
  ASSUME NEW w \in [V -> Nat]
  PROVE  /\ Total(w, {}) = 0
         /\ \A S : Total(w, S) \in Nat
         /\ \A S : \A n \in V \ S : Total(w, S \cup {n}) = Total(w, S) + w[n]
<1>. DEFINE N == NumNodes
<1>1. N \in Nat /\ V = 0 .. N - 1
  BY NumNodesAssumption DEF V
<1>2. Total(w, {}) = 0
  <2>. DEFINE z == [k \in 0 .. N |-> 0]
  <2>1. AddsUp(z, w, {})
    BY <1>1 DEF AddsUp, Share
  <2>2. z[N] = 0
    BY <1>1
  <2>. HIDE DEF z
  <2>. QED BY <2>1, <2>2, TotalIs
<1>3. ASSUME NEW S PROVE Total(w, S) \in Nat
  BY SumExists, TotalIs
<1>4. ASSUME NEW S, NEW n \in V \ S PROVE Total(w, S \cup {n}) = Total(w, S) + w[n]
  <2>1. PICK f : AddsUp(f, w, S)
    BY SumExists
  <2>. DEFINE e == [k \in 0 .. N |-> f[k] + IF k <= n THEN 0 ELSE w[n]]
  <2>2. w[n] \in Nat /\ n \in Nat /\ n < N
    BY <1>1
  <2>3. \A k \in 0 .. N : f[k] \in Nat
    BY <2>1 DEF AddsUp
  <2>4. e \in [0 .. N -> Nat] /\ e[0] = 0
    <3>1. \A k \in 0 .. N : e[k] \in Nat
      BY <2>2, <2>3
    <3>2. 0 \in 0 .. N /\ 0 <= n /\ f[0] = 0
      BY <1>1, <2>1, <2>2 DEF AddsUp
    <3>. QED BY <3>1, <3>2
  <2>5. ASSUME NEW k \in V PROVE e[k + 1] = e[k] + Share(w, S \cup {n}, k)
    <3>1. k \in 0 .. N /\ k + 1 \in 0 .. N /\ k \in Nat
      BY <1>1
    <3>2. f[k + 1] = f[k] + Share(w, S, k) /\ f[k] \in Nat /\ f[k + 1] \in Nat
      BY <2>1, <3>1 DEF AddsUp
    <3>3. CASE k = n
      <4>1. Share(w, S, k) = 0 /\ Share(w, S \cup {n}, k) = w[n]
        BY <3>3 DEF Share
      <4>2. k <= n /\ ~(k + 1 <= n)
        BY <2>2, <3>3
      <4>. QED BY <2>2, <3>1, <3>2, <4>1, <4>2
    <3>4. CASE k # n
      <4>1. Share(w, S \cup {n}, k) = Share(w, S, k) /\ Share(w, S, k) \in Nat
        BY <3>4 DEF Share
      <4>2. k <= n <=> k + 1 <= n
        BY <2>2, <3>1, <3>4
      <4>. QED BY <2>2, <3>1, <3>2, <4>1, <4>2
    <3>. QED BY <3>3, <3>4
  <2>6. AddsUp(e, w, S \cup {n})
    BY <2>4, <2>5 DEF AddsUp
  <2>7. e[N] = f[N] + w[n]
    BY <1>1, <2>2
  <2>. HIDE DEF e
  <2>. QED BY <2>1, <2>6, <2>7, TotalIs
<1>. QED BY <1>2, <1>3, <1>4
-----------------------------------------------------------------------------
(***************************************************************************)
(* Hop distances: the balls grow by the edges out of them, so the vertices *)
(* that are new in a ball have a neighbour new in the one before, and the  *)
(* vertices run out before the balls do.                                   *)
(***************************************************************************)
Wider(gr, B) == B \cup UNION {Elems(gr.out[n]) : n \in B}

GrowsBalls(gr, s, f) ==
  /\ f \in [0 .. NumNodes -> SUBSET V]
  /\ f[0] = {s} /\ \A k \in 1 .. NumNodes : f[k] = Wider(gr, f[k - 1])

LEMMA OutEdges ==
  ASSUME NEW gr, IsGraph(gr), NEW n \in V
  PROVE  gr.out[n] \in Seq(V) /\ Elems(gr.out[n]) \subseteq V
<1>1. gr.out[n] \in Seq(V)
  BY DEF IsGraph
<1>. QED BY <1>1, ElemsType

LEMMA EdgesFinite ==
  ASSUME NEW gr PROVE IsFiniteSet(Edges(gr)) /\ Cardinality(Edges(gr)) \in Nat
<1>1. IsFiniteSet(V)
  BY FS_Interval, NumNodesAssumption DEF V
<1>2. IsFiniteSet(V \X V)
  BY <1>1, FS_Product
<1>3. Edges(gr) \subseteq V \X V
  BY DEF Edges
<1>4. IsFiniteSet(Edges(gr))
  BY <1>2, <1>3, FS_Subset
<1>. QED BY <1>4, FS_CardinalityType

LEMMA BallsGrow ==
  ASSUME NEW gr, IsGraph(gr), NEW s \in V
  PROVE  GrowsBalls(gr, s, Ball(gr, s))
<1>. DEFINE D == SUBSET V
            N == NumNodes
            h == [B \in D |-> Wider(gr, B)]
            Balls(f) == [k \in 0 .. N |-> IF k = 0 THEN {s} ELSE Wider(gr, f[k - 1])]
<1>1. N \in Nat /\ N # 0
  BY NumNodesAssumption
<1>2. \A B \in D : Wider(gr, B) \in D
  BY OutEdges DEF Wider
<1>3. PICK f \in [0 .. N -> D] :
        f[0] = {s} /\ \A k \in 1 .. N : f[k] = h[f[k - 1]]
  <2>. DEFINE base == {s}
  <2>1. base \in D /\ h \in [D -> D]
    BY <1>2
  <2>. HIDE DEF D, h, N, base
  <2>2. \E f : IsRecursion(f, D, base, h, N)
    BY <1>1, <2>1, RecursionExists
  <2>. QED BY <2>2 DEF base, IsRecursion
<1>4. \A k \in 1 .. N : f[k] = Wider(gr, f[k - 1])
  <2>. SUFFICES ASSUME NEW k \in 1 .. N PROVE f[k] = Wider(gr, f[k - 1])
    OBVIOUS
  <2>1. k - 1 \in 0 .. N
    BY <1>1
  <2>2. f[k - 1] \in D /\ f[k] = h[f[k - 1]]
    BY <1>3, <2>1
  <2>. QED BY <2>2
<1>5. f = Balls(f)
  BY <1>1, <1>3, <1>4
<1>. DEFINE w == CHOOSE w : w = [k \in 0 .. N |-> IF k = 0 THEN {s}
                                                   ELSE Wider(gr, w[k - 1])]
<1>6. w = Balls(w)
  BY <1>5, Zenon
<1>7. Ball(gr, s) = w
  BY Zenon DEF Ball, Wider
<1>. HIDE DEF w, h
<1>8. w[0] = {s} /\ \A k \in 1 .. N : w[k] = Wider(gr, w[k - 1])
  <2>1. 0 \in 0 .. N /\ \A k \in 1 .. N : k \in 0 .. N /\ k # 0
    BY <1>1
  <2>. HIDE DEF N
  <2>. QED BY <1>6, <2>1
<1>. DEFINE S == {k \in Nat : k \in 0 .. N => w[k] \in D}
<1>9. S = Nat
  <2>1. 0 \in S
    BY <1>8
  <2>2. ASSUME NEW k \in S PROVE k + 1 \in S
    <3>. SUFFICES ASSUME k + 1 \in 0 .. N PROVE w[k + 1] \in D
      OBVIOUS
    <3>1. k \in 0 .. N /\ k + 1 \in 1 .. N /\ (k + 1) - 1 = k
      BY <1>1
    <3>2. w[k] \in D /\ w[k + 1] = Wider(gr, w[k])
      BY <1>8, <3>1
    <3>. QED BY <1>2, <3>2
  <2>3. S \subseteq Nat /\ \A k \in S : k + 1 \in S
    BY <2>2
  <2>. HIDE DEF S
  <2>. QED BY <2>1, <2>3, Induction
<1>10. w \in [0 .. N -> D]
  <2>1. \A k \in 0 .. N : w[k] \in D
    BY <1>1, <1>9
  <2>2. w = [k \in 0 .. N |-> w[k]]
    BY <1>6
  <2>. QED BY <2>1, <2>2
<1>. QED BY <1>7, <1>8, <1>10 DEF GrowsBalls

(* The first ball a vertex is in.                                          *)
FirstIn(f, n, k) == k \in 0 .. NumNodes /\ n \in f[k] /\ \A j \in 0 .. k - 1 : n \notin f[j]

LEMMA FirstExists ==
  ASSUME NEW f, NEW n, NEW k \in 0 .. NumNodes, n \in f[k]
  PROVE  \E j \in 0 .. k : FirstIn(f, n, j)
<1>. DEFINE T == {j \in 0 .. k : n \in f[j]}
<1>1. k \in Nat /\ T \subseteq Nat /\ k \in T
  BY NumNodesAssumption
<1>. HIDE DEF T
<1>2. PICK m \in T : \A j \in T : m <= j
  BY <1>1, LeastNumber
<1>3. m \in 0 .. k /\ n \in f[m] /\ m \in 0 .. NumNodes
  BY <1>2, NumNodesAssumption DEF T
<1>4. \A j \in 0 .. m - 1 : j \in 0 .. k /\ ~(m <= j)
  BY <1>3
<1>5. \A j \in 0 .. m - 1 : n \notin f[j]
  BY <1>2, <1>4 DEF T
<1>. QED BY <1>3, <1>5 DEF FirstIn

LEMMA FirstUnique ==
  ASSUME NEW f, NEW n, NEW j, NEW k, FirstIn(f, n, j), FirstIn(f, n, k)
  PROVE  j = k
<1>1. j \in Int /\ k \in Int /\ 0 <= j /\ 0 <= k
  BY NumNodesAssumption DEF FirstIn
<1>2. ~(j < k) /\ ~(k < j)
  <2>1. j < k => j \in 0 .. k - 1
    BY <1>1
  <2>2. k < j => k \in 0 .. j - 1
    BY <1>1
  <2>. QED BY <2>1, <2>2 DEF FirstIn
<1>. QED BY <1>1, <1>2

(* A vertex new in ball k + 1 has a neighbour new in ball k.               *)
LEMMA FirstBefore ==
  ASSUME NEW gr, IsGraph(gr), NEW s \in V, NEW f, GrowsBalls(gr, s, f),
         NEW n, NEW k \in Nat, FirstIn(f, n, k + 1)
  PROVE  \E p \in V : n \in Elems(gr.out[p]) /\ FirstIn(f, p, k)
<1>1. /\ k \in 0 .. NumNodes /\ k + 1 \in 1 .. NumNodes /\ k \in 0 .. (k + 1) - 1
      /\ (k + 1) - 1 = k
  BY NumNodesAssumption DEF FirstIn
<1>2. n \in Wider(gr, f[k]) /\ n \notin f[k] /\ f[k] \in SUBSET V
  BY <1>1 DEF FirstIn, GrowsBalls
<1>3. PICK p \in f[k] : n \in Elems(gr.out[p])
  BY <1>2 DEF Wider
<1>4. \A j \in 0 .. k - 1 : p \notin f[j]
  <2>. SUFFICES ASSUME NEW j \in 0 .. k - 1, p \in f[j] PROVE FALSE
    OBVIOUS
  <2>1. j + 1 \in 1 .. NumNodes /\ (j + 1) - 1 = j /\ j + 1 \in 0 .. (k + 1) - 1
    BY <1>1, NumNodesAssumption
  <2>2. f[j + 1] = Wider(gr, f[j])
    BY <2>1 DEF GrowsBalls
  <2>3. n \in f[j + 1]
    BY <1>3, <2>2 DEF Wider
  <2>. QED BY <2>1, <2>3 DEF FirstIn
<1>. QED BY <1>1, <1>2, <1>3, <1>4 DEF FirstIn

(* With the last ball nothing is new.                                      *)
LEMMA NeverLast ==
  ASSUME NEW gr, IsGraph(gr), NEW s \in V, NEW f, GrowsBalls(gr, s, f), NEW n
  PROVE  ~FirstIn(f, n, NumNodes)
<1>. SUFFICES ASSUME FirstIn(f, n, NumNodes) PROVE FALSE
  OBVIOUS
<1>. DEFINE New(k) == \E m \in V : FirstIn(f, m, k)
            S == {i \in Nat : i <= NumNodes => New(NumNodes - i)}
<1>0. NumNodes \in Nat /\ NumNodes # 0
  BY NumNodesAssumption
<1>1. 0 \in S
  <2>1. n \in V /\ NumNodes - 0 = NumNodes
    BY <1>0 DEF GrowsBalls, FirstIn
  <2>. QED BY <2>1
<1>2. ASSUME NEW i \in S PROVE i + 1 \in S
  <2>. SUFFICES ASSUME i + 1 <= NumNodes PROVE New(NumNodes - (i + 1))
    OBVIOUS
  <2>1. PICK k \in Nat : k = NumNodes - (i + 1) /\ NumNodes - i = k + 1 /\ i <= NumNodes
    BY <1>0
  <2>2. PICK m \in V : FirstIn(f, m, k + 1)
    BY <2>1
  <2>. QED BY <2>1, <2>2, FirstBefore
<1>3. S = Nat
  <2>1. S \subseteq Nat /\ \A i \in S : i + 1 \in S
    BY <1>2
  <2>. HIDE DEF S
  <2>. QED BY <1>1, <2>1, Induction
<1>4. \A k \in 0 .. NumNodes : New(k)
  <2>. SUFFICES ASSUME NEW k \in 0 .. NumNodes PROVE New(k)
    OBVIOUS
  <2>1. PICK i \in Nat : i = NumNodes - k /\ NumNodes - i = k /\ i <= NumNodes
    BY <1>0
  <2>2. i \in S
    BY <1>3
  <2>. QED BY <2>1, <2>2
<1>. DEFINE R == {p \in Nat \X V : FirstIn(f, p[2], p[1])}
<1>5. \A i \in Nat : \A m \in V : <<i, m>> \in R <=> FirstIn(f, m, i)
  OBVIOUS
<1>. HIDE DEF R, S
<1>6. PICK top \in Nat : top = NumNodes + 1
  BY <1>0
<1>7. \A i \in 0 .. top - 1 : \E m \in V : <<i, m>> \in R
  BY <1>0, <1>4, <1>5, <1>6
<1>8. \A m \in V : \A i, j \in Nat : <<i, m>> \in R /\ <<j, m>> \in R => i = j
  BY <1>5, FirstUnique
<1>9. top <= NumNodes
  BY <1>7, <1>8, SlotsFit
<1>. QED BY <1>0, <1>6, <1>9

(* What Depth gives.                                                       *)
LEMMA DepthIs ==
  ASSUME NEW gr, IsGraph(gr), NEW s \in V, NEW n \in V
  PROVE  IF n \in Ball(gr, s)[NumNodes]
           THEN FirstIn(Ball(gr, s), n, Depth(gr, s)[n]) /\ Depth(gr, s)[n] \in 0 .. NumNodes - 1
           ELSE Depth(gr, s)[n] = Unreachable
<1>. DEFINE f == Ball(gr, s)
            d == Depth(gr, s)[n]
<1>1. GrowsBalls(gr, s, f) /\ NumNodes \in Nat /\ NumNodes \in 0 .. NumNodes
  BY BallsGrow, NumNodesAssumption
<1>2. d = IF n \notin f[NumNodes] THEN Unreachable
          ELSE CHOOSE k \in 0 .. NumNodes : n \in f[k] /\ \A j \in 0 .. k - 1 : n \notin f[j]
  BY Zenon DEF Depth
<1>. HIDE DEF f, d
<1>3. CASE n \in f[NumNodes]
  <2>1. \E k \in 0 .. NumNodes : n \in f[k] /\ \A j \in 0 .. k - 1 : n \notin f[j]
    BY <1>1, <1>3, FirstExists DEF FirstIn
  <2>2. d = CHOOSE k \in 0 .. NumNodes : n \in f[k] /\ \A j \in 0 .. k - 1 : n \notin f[j]
    BY <1>2, <1>3
  <2>3. FirstIn(f, n, d)
    BY <2>1, <2>2, Zenon DEF FirstIn
  <2>4. d # NumNodes
    BY <1>1, <2>3, NeverLast
  <2>5. d \in 0 .. NumNodes - 1
    BY <1>1, <2>3, <2>4 DEF FirstIn
  <2>. QED BY <1>3, <2>3, <2>5 DEF f, d
<1>4. CASE n \notin f[NumNodes]
  BY <1>2, <1>4 DEF f, d
<1>. QED BY <1>3, <1>4

(* Depth is what a breadth-first search takes it for: 0 at the source      *)
(* only, at most one more along an edge, and exactly one more along some   *)
(* edge.                                                                   *)
LEMMA DepthFacts ==
  ASSUME NEW gr, IsGraph(gr), NEW s \in V, NEW d, d = Depth(gr, s)
  PROVE  /\ d \in [V -> 0 .. NumNodes] /\ d[s] = 0
         /\ \A n \in V : d[n] = 0 => n = s
         /\ \A n \in V : d[n] # Unreachable <=> n \in Ball(gr, s)[NumNodes]
         /\ \A p \in V : d[p] # Unreachable =>
              \A n \in Elems(gr.out[p]) : d[n] <= d[p] + 1 /\ d[n] # Unreachable
         /\ \A n \in V : d[n] # Unreachable /\ d[n] # 0 =>
              \E p \in V : n \in Elems(gr.out[p]) /\ d[n] = d[p] + 1
<1>. DEFINE f == Ball(gr, s)
            N == NumNodes
<1>0. N \in Nat \ {0}
  BY NumNodesAssumption
<1>1. GrowsBalls(gr, s, f)
  BY BallsGrow
<1>2. \A n \in V : IF n \in f[N] THEN FirstIn(f, n, d[n]) /\ d[n] \in 0 .. N - 1
                   ELSE d[n] = N
  BY DepthIs DEF Unreachable
<1>3. d = [n \in V |-> d[n]]
  BY DEF Depth
<1>. HIDE DEF f
<1>4. \A n \in V : d[n] \in 0 .. N
  BY <1>0, <1>2
<1>5. d \in [V -> 0 .. N]
  BY <1>3, <1>4
<1>6. \A n \in V : (d[n] # N <=> n \in f[N]) /\ (d[n] # N => FirstIn(f, n, d[n]))
  BY <1>0, <1>2
(* A vertex in a ball is at that depth or nearer.                          *)
<1>7. \A n \in V : \A k \in 0 .. N : n \in f[k] => d[n] <= k /\ d[n] # N
  <2>. SUFFICES ASSUME NEW n \in V, NEW k \in 0 .. N, n \in f[k] PROVE d[n] <= k /\ d[n] # N
    OBVIOUS
  <2>1. PICK j \in 0 .. k : FirstIn(f, n, j)
    BY FirstExists
  <2>2. n \in f[N]
    <3>. DEFINE S == {i \in Nat : k + i <= N => n \in f[k + i]}
    <3>1. 0 \in S
      BY <1>0
    <3>2. ASSUME NEW i \in S PROVE i + 1 \in S
      <4>. SUFFICES ASSUME k + (i + 1) <= N PROVE n \in f[k + (i + 1)]
        OBVIOUS
      <4>1. PICK m \in 1 .. N : m = k + (i + 1) /\ m - 1 = k + i /\ k + i <= N
        BY <1>0
      <4>2. n \in f[m - 1] /\ f[m] = Wider(gr, f[m - 1])
        BY <1>1, <4>1 DEF GrowsBalls
      <4>. QED BY <4>1, <4>2 DEF Wider
    <3>3. S = Nat
      <4>1. S \subseteq Nat /\ \A i \in S : i + 1 \in S
        BY <3>2
      <4>. HIDE DEF S
      <4>. QED BY <3>1, <4>1, Induction
    <3>4. PICK i \in Nat : k + i = N
      <4>1. N - k \in Nat /\ k + (N - k) = N
        BY <1>0
      <4>. QED BY <4>1
    <3>5. \A l \in Nat : k + l <= N => n \in f[k + l]
      BY <3>3
    <3>6. k + i <= N
      BY <1>0, <3>4
    <3>. QED BY <3>4, <3>5, <3>6
  <2>3. d[n] = j
    BY <1>6, <2>1, <2>2, FirstUnique
  <2>. QED BY <1>0, <1>6, <2>1, <2>2, <2>3
<1>8. d[s] = 0 /\ \A n \in V : d[n] = 0 => n = s
  <2>1. f[0] = {s} /\ 0 \in 0 .. N /\ 0 # N
    BY <1>0, <1>1 DEF GrowsBalls
  <2>2. d[s] <= 0 /\ d[s] \in 0 .. N
    BY <1>4, <1>7, <2>1
  <2>3. \A n \in V : d[n] = 0 => n \in f[0]
    BY <1>6, <2>1 DEF FirstIn
  <2>. QED BY <1>0, <2>1, <2>2, <2>3
<1>9. ASSUME NEW p \in V, d[p] # N, NEW n \in Elems(gr.out[p])
      PROVE  d[n] <= d[p] + 1 /\ d[n] # N
  <2>1. PICK k \in 1 .. N : k = d[p] + 1 /\ k - 1 = d[p] /\ k \in 0 .. N
    BY <1>0, <1>2, <1>6, <1>9
  <2>2. p \in f[d[p]]
    BY <1>6, <1>9 DEF FirstIn
  <2>3. f[k] = Wider(gr, f[k - 1])
    BY <1>1, <2>1 DEF GrowsBalls
  <2>4. n \in f[k]
    BY <1>9, <2>1, <2>2, <2>3 DEF Wider
  <2>5. n \in V
    BY <1>9, OutEdges
  <2>. QED BY <1>7, <2>1, <2>4, <2>5
<1>10. ASSUME NEW n \in V, d[n] # N, d[n] # 0
       PROVE  \E p \in V : n \in Elems(gr.out[p]) /\ d[n] = d[p] + 1
  <2>1. PICK k \in Nat : d[n] = k + 1
    <3>1. d[n] - 1 \in Nat /\ d[n] = (d[n] - 1) + 1
      BY <1>0, <1>4, <1>10
    <3>. QED BY <3>1
  <2>2. FirstIn(f, n, k + 1)
    BY <1>6, <1>10, <2>1
  <2>3. PICK p \in V : n \in Elems(gr.out[p]) /\ FirstIn(f, p, k)
    BY <1>1, <2>2, FirstBefore
  <2>4. p \in f[k] /\ k \in 0 .. N
    BY <2>3 DEF FirstIn
  <2>5. d[p] = k
    <3>1. d[p] # N
      BY <1>7, <2>4
    <3>. QED BY <1>6, <2>3, <3>1, FirstUnique
  <2>. QED BY <2>1, <2>3, <2>5
<1>. QED BY <1>5, <1>6, <1>8, <1>9, <1>10 DEF f, Unreachable
-----------------------------------------------------------------------------
(***************************************************************************)
(* The vertices k edges away from a source, and those up to k edges away,  *)
(* where d holds the distances.                                            *)
(***************************************************************************)
LevelOf(d, k) == {n \in V : d[n] = k /\ k # Unreachable}
UpToOf(d, k) == {n \in V : d[n] <= k /\ d[n] # Unreachable}

(* What the levels are, one by one, and where the edges out of them lead.  *)
LEMMA LevelsOf ==
  ASSUME NEW gr, IsGraph(gr), NEW s \in V, NEW d, d = Depth(gr, s), NEW k \in Nat
  PROVE  /\ LevelOf(d, k) \subseteq UpToOf(d, k) /\ UpToOf(d, k) \subseteq V
         /\ UpToOf(d, k + 1) = UpToOf(d, k) \cup LevelOf(d, k + 1) /\ UpToOf(d, k) \cap LevelOf(d, k + 1) = {}
         /\ \A p \in UpToOf(d, k) : Elems(gr.out[p]) \subseteq UpToOf(d, k + 1)
         /\ \A p \in UpToOf(d, k) \ LevelOf(d, k) : Elems(gr.out[p]) \subseteq UpToOf(d, k)
         /\ \A n \in LevelOf(d, k + 1) : \E p \in LevelOf(d, k) : n \in Elems(gr.out[p])
         /\ s \in UpToOf(d, k)
<1>. DEFINE N == Unreachable
<1>1. /\ d \in [V -> 0 .. NumNodes] /\ d[s] = 0
      /\ \A p \in V : d[p] # N => \A n \in Elems(gr.out[p]) : d[n] <= d[p] + 1 /\ d[n] # N
      /\ \A n \in V : d[n] # N /\ d[n] # 0 => \E p \in V : n \in Elems(gr.out[p]) /\ d[n] = d[p] + 1
  BY DepthFacts
<1>2. N \in Nat \ {0} /\ N = NumNodes /\ \A n \in V : d[n] \in 0 .. N /\ d[n] \in Nat
  BY <1>1, NumNodesAssumption DEF Unreachable
<1>3. \A p \in V : Elems(gr.out[p]) \subseteq V
  BY OutEdges
<1>4. /\ \A n : n \in LevelOf(d, k) <=> n \in V /\ d[n] = k /\ k # N
      /\ \A n : n \in LevelOf(d, k + 1) <=> n \in V /\ d[n] = k + 1 /\ k + 1 # N
      /\ \A n : n \in UpToOf(d, k) <=> n \in V /\ d[n] <= k /\ d[n] # N
      /\ \A n : n \in UpToOf(d, k + 1) <=> n \in V /\ d[n] <= k + 1 /\ d[n] # N
  BY DEF LevelOf, UpToOf
<1>. HIDE DEF N
<1>5. LevelOf(d, k) \subseteq UpToOf(d, k) /\ UpToOf(d, k) \subseteq V
  BY <1>2, <1>4
<1>6. UpToOf(d, k + 1) = UpToOf(d, k) \cup LevelOf(d, k + 1) /\ UpToOf(d, k) \cap LevelOf(d, k + 1) = {}
  <2>1. \A n \in V : d[n] <= k + 1 <=> d[n] <= k \/ d[n] = k + 1
    BY <1>2
  <2>2. \A n \in V : ~(d[n] <= k /\ d[n] = k + 1)
    BY <1>2
  <2>. QED BY <1>4, <2>1, <2>2
<1>7. \A p \in UpToOf(d, k) : Elems(gr.out[p]) \subseteq UpToOf(d, k + 1)
  <2>. SUFFICES ASSUME NEW p \in UpToOf(d, k), NEW n \in Elems(gr.out[p]) PROVE n \in UpToOf(d, k + 1)
    OBVIOUS
  <2>1. p \in V /\ d[p] <= k /\ d[p] # N /\ n \in V
    BY <1>3, <1>4
  <2>2. d[n] <= d[p] + 1 /\ d[n] # N
    BY <1>1, <2>1 DEF N
  <2>3. d[n] <= k + 1
    BY <1>2, <2>1, <2>2
  <2>. QED BY <1>4, <2>1, <2>2, <2>3
<1>8. \A p \in UpToOf(d, k) \ LevelOf(d, k) : Elems(gr.out[p]) \subseteq UpToOf(d, k)
  <2>. SUFFICES ASSUME NEW p \in UpToOf(d, k), p \notin LevelOf(d, k), NEW n \in Elems(gr.out[p])
                PROVE  n \in UpToOf(d, k)
    OBVIOUS
  <2>1. p \in V /\ d[p] <= k /\ d[p] # N /\ n \in V
    BY <1>3, <1>4
  <2>2. d[n] <= d[p] + 1 /\ d[n] # N
    BY <1>1, <2>1 DEF N
  <2>3. d[p] # k
    BY <1>4, <2>1
  <2>4. d[n] <= k
    BY <1>2, <2>1, <2>2, <2>3
  <2>. QED BY <1>4, <2>1, <2>2, <2>4
<1>9. \A n \in LevelOf(d, k + 1) : \E p \in LevelOf(d, k) : n \in Elems(gr.out[p])
  <2>. SUFFICES ASSUME NEW n \in LevelOf(d, k + 1)
                PROVE  \E p \in LevelOf(d, k) : n \in Elems(gr.out[p])
    OBVIOUS
  <2>1. n \in V /\ d[n] = k + 1 /\ k + 1 # N /\ d[n] # 0 /\ k # N
    BY <1>2, <1>4
  <2>2. PICK p \in V : n \in Elems(gr.out[p]) /\ d[n] = d[p] + 1
    BY <1>1, <2>1 DEF N
  <2>3. d[p] = k
    BY <1>2, <2>1, <2>2
  <2>. QED BY <1>4, <2>1, <2>2, <2>3
<1>10. s \in UpToOf(d, k)
  <2>1. d[s] = 0 /\ 0 # N
    BY <1>1, <1>2
  <2>. QED BY <1>4, <2>1
<1>. QED BY <1>5, <1>6, <1>7, <1>8, <1>9, <1>10

(* The first level is the source.                                          *)
LEMMA FirstLevelOf ==
  ASSUME NEW gr, IsGraph(gr), NEW s \in V, NEW d, d = Depth(gr, s)
  PROVE  LevelOf(d, 0) = {s} /\ UpToOf(d, 0) = {s}
<1>1. /\ d \in [V -> 0 .. NumNodes] /\ d[s] = 0
      /\ \A n \in V : d[n] = 0 => n = s
  BY DepthFacts
<1>2. Unreachable # 0 /\ Unreachable = NumNodes /\ NumNodes \in Nat
  BY NumNodesAssumption DEF Unreachable
<1>3. \A n \in V : d[n] <= 0 <=> n = s
  BY <1>1, <1>2
<1>. QED BY <1>1, <1>2, <1>3 DEF LevelOf, UpToOf

(* Behind an empty level there is nothing.                                 *)
LEMMA LastLevelOf ==
  ASSUME NEW gr, IsGraph(gr), NEW s \in V, NEW d, d = Depth(gr, s), NEW k \in Nat, LevelOf(d, k) = {}
  PROVE  UpToOf(d, k) = Ball(gr, s)[NumNodes]
<1>1. /\ d \in [V -> 0 .. NumNodes]
      /\ \A n \in V : d[n] # Unreachable <=> n \in Ball(gr, s)[NumNodes]
  BY DepthFacts
<1>2. Ball(gr, s)[NumNodes] \subseteq V
  BY BallsGrow, NumNodesAssumption DEF GrowsBalls
<1>. DEFINE S == {i \in Nat : LevelOf(d, k + i) = {}}
<1>3. 0 \in S
  OBVIOUS
<1>4. ASSUME NEW i \in S PROVE i + 1 \in S
  <2>1. PICK m \in Nat : m = k + i /\ m + 1 = k + (i + 1)
    OBVIOUS
  <2>. QED BY <2>1, LevelsOf
<1>5. S = Nat
  <2>1. S \subseteq Nat /\ \A i \in S : i + 1 \in S
    BY <1>4
  <2>. HIDE DEF S
  <2>. QED BY <1>3, <2>1, Induction
<1>6. ASSUME NEW n \in V, d[n] # Unreachable PROVE d[n] <= k
  <2>. SUFFICES ASSUME ~(d[n] <= k) PROVE FALSE
    OBVIOUS
  <2>1. d[n] \in Nat
    BY <1>1, NumNodesAssumption
  <2>2. PICK i \in Nat : k + i = d[n]
    <3>1. d[n] - k \in Nat /\ k + (d[n] - k) = d[n]
      BY <2>1
    <3>. QED BY <3>1
  <2>3. \A l \in Nat : LevelOf(d, k + l) = {}
    BY <1>5
  <2>4. n \in LevelOf(d, d[n])
    BY <1>6 DEF LevelOf
  <2>. QED BY <2>2, <2>3, <2>4
<1>. QED BY <1>1, <1>2, <1>6 DEF UpToOf

(* A level farther than the last is the last.                              *)
LEMMA LevelBoundOf ==
  ASSUME NEW gr, IsGraph(gr), NEW s \in V, NEW d, d = Depth(gr, s), NEW k \in Nat
  PROVE  \E j \in 0 .. NumNodes : LevelOf(d, j) = LevelOf(d, k) /\ UpToOf(d, j) = UpToOf(d, k)
<1>1. NumNodes \in Nat /\ \A n \in V : d[n] \in 0 .. NumNodes
  BY DepthFacts, NumNodesAssumption
<1>2. CASE k <= NumNodes
  BY <1>1, <1>2
<1>3. CASE ~(k <= NumNodes)
  <2>1. LevelOf(d, k) = {} /\ LevelOf(d, NumNodes) = {}
    BY <1>1, <1>3 DEF LevelOf, Unreachable
  <2>2. \A n \in V : d[n] <= k /\ d[n] <= NumNodes
    BY <1>1, <1>3
  <2>3. UpToOf(d, k) = UpToOf(d, NumNodes)
    BY <2>2 DEF UpToOf
  <2>4. NumNodes \in 0 .. NumNodes
    BY <1>1
  <2>. QED BY <2>1, <2>3, <2>4
<1>. QED BY <1>2, <1>3
-----------------------------------------------------------------------------
(***************************************************************************)
(* Walks(g, s): its recursive function, and what is in it.                 *)
(***************************************************************************)

(* Walks one edge longer, or as they are.                                  *)
Longer(gr, S) ==
  S \cup UNION {{<<e.v, p[2] + e.w>> : e \in Elems(gr.out[p[1]])} : p \in S}

(* f holds the walks of up to k edges for every k below NumNodes.          *)
GrowsWalks(gr, s, f) ==
  /\ f \in [0 .. NumNodes - 1 -> SUBSET (V \X Nat)]
  /\ f[0] = {<<s, 0>>}
  /\ \A k \in 1 .. NumNodes - 1 : f[k] = Longer(gr, f[k - 1])
  /\ f[NumNodes - 1] = Walks(gr, s)

LEMMA EdgesType ==
  ASSUME NEW gr, IsWeightedGraph(gr), NEW n \in V
  PROVE  /\ gr.out[n] \in Seq(NodeWeight)
         /\ \A e \in Elems(gr.out[n]) : e \in NodeWeight /\ e.v \in V /\ e.w \in Nat
<1>1. gr.out[n] \in Seq(NodeWeight)
  BY DEF IsWeightedGraph
<1>2. Elems(gr.out[n]) \subseteq NodeWeight
  BY <1>1, ElemsType
<1>. QED BY <1>1, <1>2 DEF NodeWeight

LEMMA LongerType ==
  ASSUME NEW gr, IsWeightedGraph(gr), NEW S \in SUBSET (V \X Nat)
  PROVE  Longer(gr, S) \in SUBSET (V \X Nat)
<1>. SUFFICES ASSUME NEW q \in Longer(gr, S), q \notin S PROVE q \in V \X Nat
  OBVIOUS
<1>1. PICK p \in S : \E e \in Elems(gr.out[p[1]]) : q = <<e.v, p[2] + e.w>>
  BY DEF Longer
<1>2. p[1] \in V /\ p[2] \in Nat
  OBVIOUS
<1>3. PICK e \in Elems(gr.out[p[1]]) : q = <<e.v, p[2] + e.w>>
  BY <1>1
<1>4. e.v \in V /\ e.w \in Nat
  BY <1>2, <1>3, EdgesType
<1>. QED BY <1>2, <1>3, <1>4

LEMMA WalksGrow ==
  ASSUME NEW gr, IsWeightedGraph(gr), NEW s \in V
  PROVE  \E f : GrowsWalks(gr, s, f)
<1>. DEFINE D == SUBSET (V \X Nat)
            N == NumNodes - 1
            h == [S \in D |-> Longer(gr, S)]
            Walk(f) == [k \in 0 .. N |-> IF k = 0 THEN {<<s, 0>>} ELSE Longer(gr, f[k - 1])]
<1>1. N \in Nat
  BY NumNodesAssumption
<1>2. h \in [D -> D] /\ {<<s, 0>>} \in D
  BY LongerType
<1>3. PICK f \in [0 .. N -> D] :
        f[0] = {<<s, 0>>} /\ \A k \in 1 .. N : f[k] = h[f[k - 1]]
  <2>. DEFINE base == {<<s, 0>>}
  <2>1. base \in D /\ h \in [D -> D]
    BY <1>2
  <2>. HIDE DEF D, h, N, base
  <2>2. \E f : IsRecursion(f, D, base, h, N)
    BY <1>1, <2>1, RecursionExists
  <2>. QED BY <2>2 DEF base, IsRecursion
<1>4. \A k \in 1 .. N : f[k] = Longer(gr, f[k - 1])
  <2>. SUFFICES ASSUME NEW k \in 1 .. N PROVE f[k] = Longer(gr, f[k - 1])
    OBVIOUS
  <2>1. k - 1 \in 0 .. N
    BY <1>1
  <2>2. f[k - 1] \in D /\ f[k] = h[f[k - 1]]
    BY <1>3, <2>1
  <2>. QED BY <2>2
<1>5. f = Walk(f)
  BY <1>1, <1>3, <1>4
<1>. DEFINE w == CHOOSE w : w = [k \in 0 .. N |-> IF k = 0 THEN {<<s, 0>>}
                                                   ELSE Longer(gr, w[k - 1])]
<1>6. w = Walk(w)
  BY <1>5, Zenon
<1>7. Walks(gr, s) = w[N]
  BY Zenon DEF Walks, Longer
<1>. HIDE DEF w, h, D
<1>8. w[0] = {<<s, 0>>} /\ \A k \in 1 .. N : w[k] = Longer(gr, w[k - 1])
  <2>1. 0 \in 0 .. N /\ \A k \in 1 .. N : k \in 0 .. N /\ k # 0
    BY <1>1
  <2>. HIDE DEF N
  <2>. QED BY <1>6, <2>1
<1>. DEFINE S == {k \in Nat : k \in 0 .. N => w[k] \in D}
<1>9. S = Nat
  <2>1. 0 \in S
    BY <1>2, <1>8
  <2>2. ASSUME NEW k \in S PROVE k + 1 \in S
    <3>. SUFFICES ASSUME k + 1 \in 0 .. N PROVE w[k + 1] \in D
      OBVIOUS
    <3>1. k \in 0 .. N /\ k + 1 \in 1 .. N /\ (k + 1) - 1 = k
      BY <1>1
    <3>2. w[k] \in D /\ w[k + 1] = Longer(gr, w[k])
      BY <1>8, <3>1
    <3>. QED BY <3>2, LongerType DEF D
  <2>3. S \subseteq Nat /\ \A k \in S : k + 1 \in S
    BY <2>2
  <2>. HIDE DEF S
  <2>. QED BY <2>1, <2>3, Induction
<1>10. w \in [0 .. N -> D]
  <2>1. \A k \in 0 .. N : w[k] \in D
    BY <1>1, <1>9
  <2>2. w = [k \in 0 .. N |-> w[k]]
    BY <1>6
  <2>. QED BY <2>1, <2>2
<1>. QED BY <1>7, <1>8, <1>10 DEF GrowsWalks, D

(* No walk is lost as they grow longer.                                    *)
LEMMA WalksMonotone ==
  ASSUME NEW gr, NEW s, NEW f, GrowsWalks(gr, s, f), NEW k \in 0 .. NumNodes - 1
  PROVE  f[k] \subseteq Walks(gr, s)
<1>. DEFINE N == NumNodes - 1
            S == {j \in Nat : j \in 0 .. N => f[N - j] \subseteq Walks(gr, s)}
<1>1. N \in Nat
  BY NumNodesAssumption
<1>2. 0 \in S
  BY <1>1 DEF GrowsWalks
<1>3. ASSUME NEW j \in S PROVE j + 1 \in S
  <2>. SUFFICES ASSUME j + 1 \in 0 .. N PROVE f[N - (j + 1)] \subseteq Walks(gr, s)
    OBVIOUS
  <2>1. j \in 0 .. N /\ N - j \in 1 .. N /\ (N - j) - 1 = N - (j + 1)
    BY <1>1
  <2>2. f[N - j] \subseteq Walks(gr, s) /\ f[N - j] = Longer(gr, f[N - (j + 1)])
    BY <2>1 DEF GrowsWalks
  <2>3. f[N - (j + 1)] \subseteq Longer(gr, f[N - (j + 1)])
    BY DEF Longer
  <2>. QED BY <2>2, <2>3
<1>4. S = Nat
  <2>1. S \subseteq Nat /\ \A j \in S : j + 1 \in S
    BY <1>3
  <2>. HIDE DEF S
  <2>. QED BY <1>2, <2>1, Induction
<1>5. N - k \in 0 .. N /\ N - (N - k) = k /\ N - k \in Nat
  BY <1>1
<1>. QED BY <1>4, <1>5

LEMMA WalksType ==
  ASSUME NEW gr, IsWeightedGraph(gr), NEW s \in V
  PROVE  Walks(gr, s) \subseteq V \X Nat /\ <<s, 0>> \in Walks(gr, s)
<1>1. PICK f : GrowsWalks(gr, s, f)
  BY WalksGrow
<1>2. NumNodes - 1 \in 0 .. NumNodes - 1 /\ 0 \in 0 .. NumNodes - 1
  BY NumNodesAssumption
<1>3. f[NumNodes - 1] \subseteq V \X Nat /\ <<s, 0>> \in f[0]
  BY <1>1, <1>2 DEF GrowsWalks
<1>. QED BY <1>1, <1>2, <1>3, WalksMonotone DEF GrowsWalks

(***************************************************************************)
(* A trace: a path of a search from s, as the ends and lengths of its      *)
(* beginnings.  It visits no vertex twice, and lab is nowhere above it.    *)
(***************************************************************************)
Onward(gr, p) == {<<e.v, p[2] + e.w>> : e \in Elems(gr.out[p[1]])}

IsTrace(gr, s, lab, q) ==
  /\ q \in Seq(V \X Nat) /\ q # <<>> /\ q[1] = <<s, 0>>
  /\ \A i \in 1 .. Len(q) - 1 : q[i + 1] \in Onward(gr, q[i])
  /\ \A i, j \in 1 .. Len(q) : q[i][1] = q[j][1] => i = j
  /\ \A i \in 1 .. Len(q) : lab[q[i][1]] <= q[i][2] /\ q[i][2] <= q[Len(q)][2]

(* d is the length of a trace to n.                                        *)
Traced(gr, s, lab, n, d) ==
  \E q : IsTrace(gr, s, lab, q) /\ q[Len(q)] = <<n, d>>

LEMMA TraceShort ==
  ASSUME NEW gr, NEW s, NEW lab, NEW q, IsTrace(gr, s, lab, q)
  PROVE  Len(q) \in 1 .. NumNodes
<1>1. q \in Seq(V \X Nat) /\ q # <<>>
  BY DEF IsTrace
<1>2. Len(q) \in Nat /\ Len(q) # 0 /\ \A i \in 1 .. Len(q) : q[i] \in V \X Nat
  BY <1>1
<1>. DEFINE f == [i \in 1 .. Len(q) |-> q[i][1]]
            A == 1 .. Len(q)
<1>3. f \in [A -> V] /\ \A i, j \in A : f[i] = f[j] => i = j
  <2>1. \A i \in A : q[i][1] \in V
    BY <1>2
  <2>2. \A i, j \in A : q[i][1] = q[j][1] => i = j
    BY DEF IsTrace
  <2>. QED BY <2>1, <2>2
<1>4. IsFiniteSet(V) /\ Cardinality(V) = NumNodes
  <2>1. 0 \in Int /\ NumNodes - 1 \in Int /\ NumNodes \in Nat /\ NumNodes # 0
    BY NumNodesAssumption
  <2>2. IsFiniteSet(0 .. NumNodes - 1)
        /\ Cardinality(0 .. NumNodes - 1) = IF 0 > NumNodes - 1 THEN 0 ELSE (NumNodes - 1) - 0 + 1
    BY <2>1, FS_Interval
  <2>. QED BY <2>1, <2>2 DEF V
<1>5. IsFiniteSet(A) /\ Cardinality(A) = Len(q)
  <2>1. 1 \in Int /\ Len(q) \in Int /\ ~(1 > Len(q))
    BY <1>2
  <2>2. IsFiniteSet(A) /\ Cardinality(A) = IF 1 > Len(q) THEN 0 ELSE Len(q) - 1 + 1
    BY <2>1, FS_Interval
  <2>. QED BY <1>2, <2>1, <2>2
<1>. HIDE DEF f
<1>6. ~(NumNodes < Len(q))
  <2>. SUFFICES ASSUME NumNodes < Len(q) PROVE FALSE
    OBVIOUS
  <2>. HIDE DEF A
  <2>. QED BY <1>3, <1>4, <1>5, FS_PigeonHole
<1>. QED BY <1>2, <1>6, NumNodesAssumption

LEMMA TraceIsWalk ==
  ASSUME NEW gr, IsWeightedGraph(gr), NEW s \in V, NEW lab, NEW n, NEW d,
         Traced(gr, s, lab, n, d)
  PROVE  <<n, d>> \in Walks(gr, s)
<1>1. PICK q : IsTrace(gr, s, lab, q) /\ q[Len(q)] = <<n, d>>
  BY DEF Traced
<1>2. Len(q) \in 1 .. NumNodes
  BY <1>1, TraceShort
<1>3. PICK f : GrowsWalks(gr, s, f)
  BY WalksGrow
<1>. DEFINE S == {i \in Nat : i + 1 \in 1 .. Len(q) => q[i + 1] \in f[i]}
<1>4. 0 \in S
  BY <1>1, <1>3 DEF IsTrace, GrowsWalks
<1>5. ASSUME NEW i \in S PROVE i + 1 \in S
  <2>. SUFFICES ASSUME (i + 1) + 1 \in 1 .. Len(q) PROVE q[(i + 1) + 1] \in f[i + 1]
    OBVIOUS
  <2>1. /\ i \in Nat /\ i + 1 \in 1 .. Len(q) - 1 /\ i + 1 \in 1 .. Len(q)
        /\ i + 1 \in 1 .. NumNodes - 1 /\ (i + 1) - 1 = i
    BY <1>2, NumNodesAssumption
  <2>2. q[i + 1] \in f[i] /\ q[(i + 1) + 1] \in Onward(gr, q[i + 1])
    BY <1>1, <2>1 DEF IsTrace
  <2>3. f[i + 1] = Longer(gr, f[i])
    BY <1>3, <2>1 DEF GrowsWalks
  <2>. QED BY <2>2, <2>3 DEF Longer, Onward
<1>6. S = Nat
  <2>1. S \subseteq Nat /\ \A i \in S : i + 1 \in S
    BY <1>5
  <2>. HIDE DEF S
  <2>. QED BY <1>4, <2>1, Induction
<1>. DEFINE m == Len(q) - 1
<1>7. m \in Nat /\ m + 1 = Len(q) /\ m + 1 \in 1 .. Len(q) /\ m \in 0 .. NumNodes - 1
  BY <1>2, NumNodesAssumption
<1>8. q[m + 1] \in f[m]
  BY <1>6, <1>7
<1>9. f[m] \subseteq Walks(gr, s)
  <2>. HIDE DEF m
  <2>. QED BY <1>3, <1>7, WalksMonotone
<1>. QED BY <1>1, <1>7, <1>8, <1>9

(* The source is the end of a trace of length 0.                           *)
LEMMA TraceStart ==
  ASSUME NEW s \in V, NEW gr, NEW lab, lab[s] = 0
  PROVE  Traced(gr, s, lab, s, 0)
<1>. DEFINE q == <<<<s, 0>>>>
<1>1. q \in Seq(V \X Nat) /\ q # <<>> /\ Len(q) = 1 /\ q[1] = <<s, 0>>
  OBVIOUS
<1>. HIDE DEF q
<1>2. IsTrace(gr, s, lab, q)
  BY <1>1 DEF IsTrace
<1>. QED BY <1>1, <1>2 DEF Traced

(* Labels that drop break no trace.                                        *)
LEMMA TraceStays ==
  ASSUME NEW gr, NEW s, NEW lab \in [V -> Nat], NEW low \in [V -> Nat],
         \A n \in V : low[n] <= lab[n],
         NEW n, NEW d, Traced(gr, s, lab, n, d)
  PROVE  Traced(gr, s, low, n, d)
<1>1. PICK q : IsTrace(gr, s, lab, q) /\ q[Len(q)] = <<n, d>>
  BY DEF Traced
<1>2. q \in Seq(V \X Nat)
  BY <1>1 DEF IsTrace
<1>3. ASSUME NEW i \in 1 .. Len(q) PROVE low[q[i][1]] <= q[i][2]
  <2>1. q[i] \in V \X Nat /\ lab[q[i][1]] <= q[i][2]
    BY <1>1, <1>2 DEF IsTrace
  <2>2. q[i][1] \in V /\ q[i][2] \in Nat
    BY <2>1
  <2>3. low[q[i][1]] <= lab[q[i][1]] /\ low[q[i][1]] \in Nat /\ lab[q[i][1]] \in Nat
    BY <2>2
  <2>. QED BY <2>1, <2>2, <2>3
<1>4. IsTrace(gr, s, low, q)
  BY <1>1, <1>3 DEF IsTrace
<1>. QED BY <1>1, <1>4 DEF Traced

(* What a trace and its end look like.                                     *)
LEMMA TraceEnd ==
  ASSUME NEW gr, NEW s, NEW lab, NEW n, NEW d, Traced(gr, s, lab, n, d)
  PROVE  n \in V /\ d \in Nat /\ lab[n] <= d
<1>1. PICK q : IsTrace(gr, s, lab, q) /\ q[Len(q)] = <<n, d>>
  BY DEF Traced
<1>2. q \in Seq(V \X Nat) /\ Len(q) \in 1 .. Len(q)
  BY <1>1, TraceShort DEF IsTrace
<1>3. q[Len(q)] \in V \X Nat /\ lab[q[Len(q)][1]] <= q[Len(q)][2]
  BY <1>1, <1>2 DEF IsTrace
<1>. QED BY <1>1, <1>3

(***************************************************************************)
(* The step of every label-correcting search.  An edge onwards from a      *)
(* trace to a vertex whose label is still higher goes to a vertex that the *)
(* trace has not visited, and makes the trace longer.                      *)
(***************************************************************************)
LEMMA TraceExtends ==
  ASSUME NEW gr, IsWeightedGraph(gr), NEW s, NEW lab \in [V -> Nat],
         NEW n \in V, NEW d \in Nat, Traced(gr, s, lab, n, d),
         NEW e \in Elems(gr.out[n]), d + e.w < lab[e.v],
         NEW low \in [V -> Nat], \A m \in V : low[m] <= lab[m], low[e.v] <= d + e.w
  PROVE  Traced(gr, s, low, e.v, d + e.w)
<1>1. Traced(gr, s, low, n, d)
  BY TraceStays
<1>2. PICK q : IsTrace(gr, s, lab, q) /\ q[Len(q)] = <<n, d>>
  BY DEF Traced
<1>3. e.v \in V /\ e.w \in Nat
  BY EdgesType
<1>. DEFINE N == Len(q)
            x == <<e.v, d + e.w>>
            p == Append(q, x)
<1>4. q \in Seq(V \X Nat) /\ N \in 1 .. NumNodes
  BY <1>2, TraceShort DEF IsTrace
<1>5. x \in V \X Nat /\ x[1] = e.v /\ x[2] = d + e.w /\ x \in Onward(gr, q[N])
  BY <1>2, <1>3 DEF Onward
<1>6. /\ p \in Seq(V \X Nat) /\ p # <<>> /\ Len(p) = N + 1
      /\ \A i \in 1 .. N : p[i] = q[i]
      /\ p[N + 1] = x
  <2>1. PICK D : D = V \X Nat
    OBVIOUS
  <2>2. q \in Seq(D) /\ x \in D
    BY <1>4, <1>5, <2>1
  <2>. HIDE DEF x
  <2>3. /\ p \in Seq(D) /\ p # <<>> /\ Len(p) = N + 1
        /\ \A i \in 1 .. N : p[i] = q[i]
        /\ p[N + 1] = x
    BY <2>2, AppendProperties
  <2>. QED BY <2>1, <2>3
<1>7. /\ N \in Nat /\ N # 0 /\ q[1] = <<s, 0>>
      /\ \A i \in 1 .. N - 1 : q[i + 1] \in Onward(gr, q[i])
      /\ \A i, j \in 1 .. N : q[i][1] = q[j][1] => i = j
      /\ \A i \in 1 .. N : lab[q[i][1]] <= q[i][2] /\ q[i][2] <= q[N][2]
  BY <1>2, <1>4 DEF IsTrace
<1>8. \A i \in 1 .. N : q[i][1] \in V /\ q[i][2] \in Nat /\ q[i][2] <= d
  <2>1. \A i \in 1 .. N : q[i] \in V \X Nat
    BY <1>4
  <2>. QED BY <1>2, <1>7, <2>1
<1>. HIDE DEF p, x, N
<1>9. \A i \in 1 .. N : q[i][1] # e.v
  <2>. SUFFICES ASSUME NEW i \in 1 .. N, q[i][1] = e.v PROVE FALSE
    OBVIOUS
  <2>1. PICK a, b, c : a = lab[e.v] /\ b = q[i][2] /\ c = e.w
    OBVIOUS
  <2>2. a <= b /\ b <= d /\ a \in Nat /\ b \in Nat /\ c \in Nat
    BY <1>3, <1>7, <1>8, <2>1
  <2>3. d + c < a
    BY <2>1
  <2>. QED BY <2>2, <2>3
<1>10. p[1] = <<s, 0>>
  <2>1. 1 \in 1 .. N
    BY <1>7
  <2>. QED BY <1>6, <1>7, <2>1
<1>11. ASSUME NEW i \in 1 .. Len(p) - 1 PROVE p[i + 1] \in Onward(gr, p[i])
  <2>1. CASE i = N
    BY <1>5, <1>6, <1>7, <2>1
  <2>2. CASE i # N
    <3>1. i \in 1 .. N - 1 /\ i \in 1 .. N /\ i + 1 \in 1 .. N
      BY <1>6, <1>7, <2>2
    <3>. QED BY <1>6, <1>7, <3>1
  <2>. QED BY <2>1, <2>2
<1>12. ASSUME NEW i \in 1 .. Len(p), NEW j \in 1 .. Len(p), p[i][1] = p[j][1]
       PROVE  i = j
  <2>1. /\ i \in 1 .. N \/ i = N + 1
        /\ j \in 1 .. N \/ j = N + 1
    <3>1. N \in Nat /\ i \in 1 .. N + 1 /\ j \in 1 .. N + 1
      BY <1>6, <1>7
    <3>. QED BY <3>1
  <2>2. p[N + 1][1] = e.v
    BY <1>5, <1>6
  <2>3. \A k \in 1 .. N : p[k][1] = q[k][1] /\ p[k][1] # e.v
    BY <1>6, <1>9
  <2>4. CASE i \in 1 .. N /\ j \in 1 .. N
    BY <1>7, <1>12, <2>3, <2>4
  <2>. QED BY <1>12, <2>1, <2>2, <2>3, <2>4
<1>13. ASSUME NEW i \in 1 .. Len(p)
       PROVE  low[p[i][1]] <= p[i][2] /\ p[i][2] <= p[Len(p)][2]
  <2>1. p[Len(p)][2] = d + e.w
    BY <1>5, <1>6
  <2>2. CASE i = N + 1
    BY <1>3, <1>5, <1>6, <2>1, <2>2
  <2>3. CASE i \in 1 .. N
    <3>1. p[i] = q[i] /\ q[i][1] \in V /\ q[i][2] \in Nat /\ q[i][2] <= d
      BY <1>6, <1>8, <2>3
    <3>2. lab[q[i][1]] <= q[i][2] /\ low[q[i][1]] <= lab[q[i][1]]
          /\ low[q[i][1]] \in Nat /\ lab[q[i][1]] \in Nat
      BY <1>7, <2>3, <3>1
    <3>3. low[p[i][1]] <= p[i][2]
      BY <3>1, <3>2
    <3>4. p[i][2] <= d + e.w
      BY <1>3, <3>1
    <3>. QED BY <2>1, <3>3, <3>4
  <2>4. i = N + 1 \/ i \in 1 .. N
    BY <1>6, <1>7
  <2>. QED BY <2>2, <2>3, <2>4
<1>14. IsTrace(gr, s, low, p)
  BY <1>6, <1>10, <1>11, <1>12, <1>13 DEF IsTrace
<1>15. p[Len(p)] = <<e.v, d + e.w>>
  BY <1>6 DEF x
<1>. QED BY <1>14, <1>15 DEF Traced

(***************************************************************************)
(* Where no label below bound can improve another one, no walk shorter     *)
(* than bound is shorter than the label of its end.                        *)
(***************************************************************************)
LEMMA RelaxedBelowWalks ==
  ASSUME NEW gr, IsWeightedGraph(gr), NEW s \in V, NEW lab \in [V -> Nat], NEW bound \in Nat,
         lab[s] = 0,
         \A n \in V : \A e \in Elems(gr.out[n]) : lab[n] < bound => lab[e.v] <= lab[n] + e.w,
         NEW p \in Walks(gr, s), p[2] < bound
  PROVE  lab[p[1]] <= p[2]
<1>1. PICK f : GrowsWalks(gr, s, f)
  BY WalksGrow
<1>2. NumNodes - 1 \in Nat
  BY NumNodesAssumption
<1>. DEFINE S == {k \in Nat : k \in 0 .. NumNodes - 1 =>
                                 \A q \in f[k] : q[2] < bound => lab[q[1]] <= q[2]}
<1>3. 0 \in S
  BY <1>1 DEF GrowsWalks
<1>4. ASSUME NEW k \in S PROVE k + 1 \in S
  <2>. SUFFICES ASSUME k + 1 \in 0 .. NumNodes - 1, NEW q \in f[k + 1], q[2] < bound
                PROVE  lab[q[1]] <= q[2]
    OBVIOUS
  <2>1. k \in 0 .. NumNodes - 1 /\ k + 1 \in 1 .. NumNodes - 1 /\ (k + 1) - 1 = k
    BY <1>2
  <2>2. f[k + 1] = Longer(gr, f[k]) /\ f[k] \subseteq V \X Nat
    BY <1>1, <2>1 DEF GrowsWalks
  <2>3. CASE q \in f[k]
    BY <2>1, <2>3
  <2>4. CASE q \notin f[k]
    <3>1. PICK r \in f[k] : \E e \in Elems(gr.out[r[1]]) : q = <<e.v, r[2] + e.w>>
      BY <2>2, <2>4 DEF Longer
    <3>2. PICK e \in Elems(gr.out[r[1]]) : q = <<e.v, r[2] + e.w>>
      BY <3>1
    <3>3. r[1] \in V /\ r[2] \in Nat /\ lab[r[1]] \in Nat
      BY <2>2, <3>1
    <3>4. e.v \in V /\ e.w \in Nat /\ lab[e.v] \in Nat
      BY <3>2, <3>3, EdgesType
    <3>5. q[1] = e.v /\ q[2] = r[2] + e.w /\ r[2] < bound
      BY <3>2, <3>3, <3>4
    <3>6. lab[r[1]] <= r[2]
      BY <2>1, <3>1, <3>5
    <3>7. lab[e.v] <= lab[r[1]] + e.w
      BY <3>2, <3>3, <3>5, <3>6
    <3>. QED BY <3>3, <3>4, <3>5, <3>6, <3>7
  <2>. QED BY <2>3, <2>4
<1>5. S = Nat
  <2>1. S \subseteq Nat /\ \A k \in S : k + 1 \in S
    BY <1>4
  <2>. HIDE DEF S
  <2>. QED BY <1>3, <2>1, Induction
<1>6. NumNodes - 1 \in S /\ NumNodes - 1 \in 0 .. NumNodes - 1
  BY <1>2, <1>5
<1>7. p \in f[NumNodes - 1]
  BY <1>1 DEF GrowsWalks
<1>. QED BY <1>6, <1>7

(* The walks to one vertex, and what is said of the shortest.              *)
LEMMA ShortestIs ==
  ASSUME NEW gr, IsWeightedGraph(gr), NEW s \in V, NEW far, NEW n \in V
  PROVE  LET short == ShortestLengths(gr, s, far)[n] IN
           \/ short = far /\ \A l : <<n, l>> \notin Walks(gr, s)
           \/ /\ short \in Nat /\ <<n, short>> \in Walks(gr, s)
              /\ \A l : <<n, l>> \in Walks(gr, s) => l \in Nat /\ short <= l
<1>. DEFINE Lengths == {p[2] : p \in {q \in Walks(gr, s) : q[1] = n}}
            short == ShortestLengths(gr, s, far)[n]
<1>1. short = IF Lengths = {} THEN far
              ELSE CHOOSE l \in Lengths : \A m \in Lengths : l <= m
  BY DEF ShortestLengths
<1>2. \A l : l \in Lengths <=> <<n, l>> \in Walks(gr, s)
  <2>1. Walks(gr, s) \subseteq V \X Nat
    BY WalksType
  <2>2. ASSUME NEW l \in Lengths PROVE <<n, l>> \in Walks(gr, s)
    <3>1. PICK q \in Walks(gr, s) : q[1] = n /\ q[2] = l
      OBVIOUS
    <3>2. q = <<n, l>>
      BY <2>1, <3>1
    <3>. QED BY <3>1, <3>2
  <2>3. ASSUME NEW l, <<n, l>> \in Walks(gr, s) PROVE l \in Lengths
    <3>1. PICK q \in Walks(gr, s) : q = <<n, l>>
      BY <2>3
    <3>2. q[1] = n /\ q[2] = l
      BY <3>1
    <3>. QED BY <3>2
  <2>. QED BY <2>2, <2>3
<1>3. \A l \in Lengths : l \in Nat
  <2>1. Walks(gr, s) \subseteq V \X Nat
    BY WalksType
  <2>. QED BY <2>1
<1>4. PICK L : L = Lengths
  OBVIOUS
<1>. HIDE DEF Lengths, short
<1>5. CASE L = {}
  BY <1>1, <1>2, <1>4, <1>5 DEF short
<1>6. CASE L # {}
  <2>1. L \subseteq Nat
    BY <1>3, <1>4
  <2>2. PICK x \in L : \A k \in L : x <= k
    BY <1>6, <2>1, LeastNumber
  <2>3. x = CHOOSE l \in L : \A m \in L : l <= m
    BY <2>1, <2>2, LeastIs
  <2>4. short = CHOOSE l \in L : \A m \in L : l <= m
    BY <1>1, <1>4, <1>6, Zenon
  <2>5. short = x
    BY <2>3, <2>4
  <2>. QED BY <1>2, <1>3, <1>4, <2>2, <2>5 DEF short
<1>. QED BY <1>5, <1>6 DEF short

(***************************************************************************)
(* Labels that are far or the lengths of walks are exact below a bound     *)
(* when none below it can improve another: such distances are settled.     *)
(***************************************************************************)
LEMMA SettledLabels ==
  ASSUME NEW gr, IsWeightedGraph(gr), NEW s \in V, NEW lab \in [V -> Nat], NEW far \in Nat,
         NEW bound \in Nat, lab[s] = 0,
         \A n \in V : \A e \in Elems(gr.out[n]) : lab[n] < bound => lab[e.v] <= lab[n] + e.w,
         \A n \in V : lab[n] = far \/ <<n, lab[n]>> \in Walks(gr, s),
         NEW n \in V, ShortestLengths(gr, s, far)[n] < bound,
         ShortestLengths(gr, s, far)[n] < far
  PROVE  lab[n] = ShortestLengths(gr, s, far)[n]
<1>1. PICK short : short = ShortestLengths(gr, s, far)[n]
  OBVIOUS
<1>2. /\ short \in Nat /\ <<n, short>> \in Walks(gr, s)
      /\ \A l : <<n, l>> \in Walks(gr, s) => l \in Nat /\ short <= l
  BY <1>1, ShortestIs
<1>. DEFINE p == <<n, short>>
<1>3. p \in Walks(gr, s) /\ p[1] = n /\ p[2] = short /\ p[2] < bound
  BY <1>1, <1>2
<1>. HIDE DEF p
<1>4. lab[p[1]] <= p[2]
  BY <1>3, RelaxedBelowWalks
<1>5. lab[n] <= short /\ lab[n] \in Nat /\ short < far
  BY <1>1, <1>3, <1>4
<1>6. <<n, lab[n]>> \in Walks(gr, s)
  BY <1>2, <1>5
<1>. QED BY <1>1, <1>2, <1>5, <1>6

(***************************************************************************)
(* A label-correcting search is right when it has nothing left to relax:   *)
(* every label is far or the length of a walk, and so a shortest one.      *)
(***************************************************************************)
LEMMA RelaxedLabelsExact ==
  ASSUME NEW gr, IsWeightedGraph(gr), NEW s \in V, NEW lab \in [V -> Nat], NEW far \in Nat,
         \A n \in V : ShortestLengths(gr, s, far)[n] <= far,
         \A n \in V : lab[n] <= far,
         lab[s] = 0,
         \A n \in V : \A e \in Elems(gr.out[n]) : lab[n] < far => lab[e.v] <= lab[n] + e.w,
         \A n \in V : lab[n] = far \/ <<n, lab[n]>> \in Walks(gr, s)
  PROVE  lab = ShortestLengths(gr, s, far)
<1>1. ASSUME NEW n \in V PROVE lab[n] = ShortestLengths(gr, s, far)[n]
  <2>1. PICK short : short = ShortestLengths(gr, s, far)[n]
    OBVIOUS
  <2>2. \/ short = far /\ \A l : <<n, l>> \notin Walks(gr, s)
        \/ /\ short \in Nat /\ <<n, short>> \in Walks(gr, s)
           /\ \A l : <<n, l>> \in Walks(gr, s) => l \in Nat /\ short <= l
    BY <2>1, ShortestIs
  <2>3. short <= far /\ lab[n] <= far /\ lab[n] \in Nat
    BY <2>1
  <2>4. CASE short < far
    BY <2>1, <2>4, SettledLabels
  <2>5. CASE ~(short < far)
    <3>1. short = far
      BY <2>2, <2>3, <2>5
    <3>2. lab[n] = far
      <4>1. CASE <<n, lab[n]>> \in Walks(gr, s)
        BY <2>2, <2>3, <3>1, <4>1
      <4>. QED BY <4>1
    <3>. QED BY <2>1, <3>1, <3>2
  <2>. QED BY <2>4, <2>5
<1>2. ShortestLengths(gr, s, far) = [n \in V |-> ShortestLengths(gr, s, far)[n]]
  BY DEF ShortestLengths
<1>. QED BY <1>1, <1>2

-----------------------------------------------------------------------------
(* Connected is an equivalence that contains the edges.                    *)
LEMMA ConnectedRefl == \A gr, a : Connected(gr, a, a)
BY DEF Connected

LEMMA ConnectedSym == \A gr, a, b : Connected(gr, a, b) => Connected(gr, b, a)
BY DEF Connected

LEMMA ConnectedTrans ==
  \A gr, a, b, d : Connected(gr, a, b) /\ Connected(gr, b, d) => Connected(gr, a, d)
BY DEF Connected

LEMMA EdgeConnected ==
  ASSUME NEW gr, IsGraph(gr), NEW a \in V, NEW b \in V, b \in Elems(gr.out[a])
  PROVE  Connected(gr, a, b) /\ Connected(gr, b, a)
<1>. DEFINE e == <<a, b>>
<1>1. e \in Edges(gr) /\ e[1] = a /\ e[2] = b
  BY DEF Edges
<1>. HIDE DEF e
<1>. QED BY <1>1 DEF Connected, Closed

(* Labels that lie in their vertices' components and agree along every     *)
(* edge tell the components apart and nothing more.                        *)
LEMMA AgreeingLabelsExact ==
  ASSUME NEW gr, NEW lab \in [V -> V],
         \A n \in V : Connected(gr, n, lab[n]),
         \A e \in Edges(gr) : lab[e[1]] = lab[e[2]]
  PROVE  \A a, b \in V : lab[a] = lab[b] <=> Connected(gr, a, b)
<1>. SUFFICES ASSUME NEW a \in V, NEW b \in V
              PROVE  lab[a] = lab[b] <=> Connected(gr, a, b)
  OBVIOUS
<1>1. ASSUME lab[a] = lab[b] PROVE Connected(gr, a, b)
  <2>1. Connected(gr, a, lab[a]) /\ Connected(gr, lab[a], b)
    BY <1>1, ConnectedSym
  <2>. QED BY <2>1, ConnectedTrans
<1>2. ASSUME Connected(gr, a, b) PROVE lab[a] = lab[b]
  <2>. DEFINE S == {n \in V : lab[n] = lab[a]}
  <2>1. \A e \in Edges(gr) : e[1] \in V /\ e[2] \in V
    BY DEF Edges
  <2>2. Closed(gr, S)
    BY <2>1 DEF Closed
  <2>3. S \in SUBSET V /\ a \in S
    OBVIOUS
  <2>4. b \in S
    BY <1>2, <2>2, <2>3 DEF Connected
  <2>. QED BY <2>4
<1>. QED BY <1>1, <1>2
=============================================================================
