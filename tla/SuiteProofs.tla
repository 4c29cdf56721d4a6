---------------------------- MODULE SuiteProofs ------------------------------
(***************************************************************************)
(* Proofs about the programs of Suite.                                     *)
(*                                                                         *)
(* Triangle counting: the iterator that OrderedCount keeps in the middle   *)
(* list is never dereferenced past its end, because an undirected graph    *)
(* without self-loops, renumbered or not, has in the list of v the vertex  *)
(* u itself, at which every scan stops.  The loops pass every triangle     *)
(* once, and TCVerifier counts the same number.                            *)
(*                                                                         *)
(* The verifiers: the list of a search holds no vertex twice, CCVerifier   *)
(* accepts the labellings that tell the components apart and nothing else, *)
(* BFSVerifier the trees of shortest paths and nothing else.               *)
(***************************************************************************)
EXTENDS Suite, CSRGraphProofs

(* The vertices at two places differ in degree or in number.               *)
LEMMA OrderInjective ==
  ASSUME NEW order \in TC!PermutationsOf(TC!V), NEW lesserFirst \in BOOLEAN,
         TC!ByDegree(order, lesserFirst), graph \in TCGraphs,
         NEW a \in TC!V, NEW b \in TC!V, order[a] = order[b]
  PROVE  a = b
<1>1. TC!V \subseteq Int
  BY NumNodesAssumption DEF TC!V
<1>2. \A n \in TC!V : TC!OutDegree(graph, n) \in Nat
  BY TrianglesAssumption DEF TC!Assumptions, TC!IsGraph, TC!OutDegree
<1>3. ASSUME NEW x \in TC!V, NEW y \in TC!V, x < y
      PROVE  order[x] # order[y]
  <2>1. \/ TC!OutDegree(graph, order[x]) > TC!OutDegree(graph, order[y])
        \/ order[x] < order[y] \/ order[x] > order[y]
    BY <1>3, Zenon DEF TC!ByDegree
  <2>2. TC!OutDegree(graph, order[x]) \in Nat /\ order[x] \in Int /\ order[y] \in Int
    BY <1>1, <1>2 DEF TC!PermutationsOf
  <2>3. SUFFICES ASSUME order[x] = order[y] PROVE FALSE
    OBVIOUS
  <2>4. TC!OutDegree(graph, order[x]) = TC!OutDegree(graph, order[y])
    BY <2>3
  <2>5. ~(TC!OutDegree(graph, order[x]) > TC!OutDegree(graph, order[y]))
    BY <2>2, <2>4
  <2>6. ~(order[x] < order[y]) /\ ~(order[x] > order[y])
    BY <2>2, <2>3
  <2>. QED BY <2>1, <2>5, <2>6
<1>4. ~(a < b) /\ ~(b < a)
  BY <1>3
<1>. QED BY <1>1, <1>4

(* NewId is the inverse of the order.                                      *)
LEMMA NewIdInverse ==
  ASSUME NEW order \in TC!PermutationsOf(TC!V), NEW lesserFirst \in BOOLEAN,
         TC!ByDegree(order, lesserFirst), graph \in TCGraphs
  PROVE  /\ \A n \in TC!V : TC!NewId(order, n) \in TC!V /\ order[TC!NewId(order, n)] = n
         /\ \A k \in TC!V : TC!NewId(order, order[k]) = k
<1>1. ASSUME NEW n \in TC!V
      PROVE  TC!NewId(order, n) \in TC!V /\ order[TC!NewId(order, n)] = n
  <2>1. order \in [TC!V -> TC!V] /\ n \in TC!Elems(order)
    BY DEF TC!PermutationsOf
  <2>2. \E k \in TC!V : order[k] = n
    BY <2>1 DEF TC!Elems
  <2>. QED BY <2>2 DEF TC!NewId
<1>2. ASSUME NEW k \in TC!V
      PROVE  TC!NewId(order, order[k]) = k
  <2>1. order[k] \in TC!V
    BY DEF TC!PermutationsOf
  <2>. QED BY <1>1, <2>1, OrderInjective
<1>. QED BY <1>1, <1>2

(* RelabelByDegree leaves lists that mirror one another.                   *)
LEMMA PlacedMirrored ==
  ASSUME NEW order \in TC!PermutationsOf(TC!V), NEW lesserFirst \in BOOLEAN,
         TC!ByDegree(order, lesserFirst), graph \in TCGraphs
  PROVE  TC!Placed(order) \in [TC!V -> Seq(TC!V)] /\ TC!Mirrored(TC!Placed(order))
<1>1. order \in [TC!V -> TC!V] /\ graph.out \in [TC!V -> Seq(TC!V)] /\ TC!Mirrored(graph.out)
  BY TrianglesAssumption DEF TC!Assumptions, TC!PermutationsOf, TC!IsGraph
<1>2. ASSUME NEW k \in TC!V
      PROVE  /\ TC!Placed(order)[k] \in Seq(TC!V)
             /\ DOMAIN TC!Placed(order)[k] = DOMAIN graph.out[order[k]]
             /\ \A p \in DOMAIN graph.out[order[k]] :
                  TC!Placed(order)[k][p] = TC!NewId(order, graph.out[order[k]][p])
  <2>. DEFINE s == graph.out[order[k]]
  <2>1. s \in Seq(TC!V) /\ DOMAIN s = 1 .. Len(s) /\ Len(s) \in Nat
    BY <1>1
  <2>2. TC!Placed(order)[k] = [p \in 1 .. Len(s) |-> TC!NewId(order, s[p])]
    BY DEF TC!Placed, TC!OutDegree
  <2>3. \A p \in 1 .. Len(s) : TC!NewId(order, s[p]) \in TC!V
    BY <2>1, NewIdInverse
  <2>. HIDE DEF s
  <2>4. [p \in 1 .. Len(s) |-> TC!NewId(order, s[p])] \in Seq(TC!V)
    BY <2>1, <2>3
  <2>. QED BY <2>1, <2>2, <2>4 DEF s
<1>3. ASSUME NEW a \in TC!V, NEW b \in TC!V, b \in TC!Elems(TC!Placed(order)[a])
      PROVE  a # b /\ a \in TC!Elems(TC!Placed(order)[b])
  <2>1. PICK p \in DOMAIN graph.out[order[a]] : b = TC!NewId(order, graph.out[order[a]][p])
    BY <1>2, <1>3 DEF TC!Elems
  <2>2. order[a] \in TC!V /\ order[b] \in TC!V /\ graph.out[order[a]][p] \in TC!V
    BY <1>1, <2>1
  <2>3. order[b] = graph.out[order[a]][p]
    BY <2>1, <2>2, NewIdInverse
  <2>4. order[b] \in TC!Elems(graph.out[order[a]])
    BY <2>3 DEF TC!Elems
  <2>5. order[a] # order[b] /\ order[a] \in TC!Elems(graph.out[order[b]])
    BY <1>1, <2>2, <2>4 DEF TC!Mirrored
  <2>6. PICK q \in DOMAIN graph.out[order[b]] : graph.out[order[b]][q] = order[a]
    BY <2>5 DEF TC!Elems
  <2>7. q \in DOMAIN TC!Placed(order)[b] /\ TC!Placed(order)[b][q] = a
    BY <1>2, <2>6, NewIdInverse
  <2>. QED BY <2>5, <2>7 DEF TC!Elems
<1>4. TC!Placed(order) \in [TC!V -> Seq(TC!V)]
  BY <1>2 DEF TC!Placed
<1>. QED BY <1>3, <1>4 DEF TC!Mirrored

(* Sorting a list keeps what is in it.                                     *)
LEMMA PermutedElems ==
  ASSUME NEW s \in Seq(TC!V), NEW p \in TC!PermutationsOf(DOMAIN s),
         NEW r, r = [k \in DOMAIN s |-> s[p[k]]]
  PROVE  r \in Seq(TC!V) /\ TC!Elems(r) = TC!Elems(s)
<1>1. p \in [DOMAIN s -> DOMAIN s] /\ TC!Elems(p) = DOMAIN s
  BY DEF TC!PermutationsOf
<1>2. DOMAIN s = 1 .. Len(s) /\ Len(s) \in Nat /\ \A k \in DOMAIN s : s[p[k]] \in TC!V
  BY <1>1
<1>3. r \in Seq(TC!V)
  BY <1>2
<1>4. \A x : x \in TC!Elems(r) => x \in TC!Elems(s)
  BY <1>1 DEF TC!Elems
<1>5. ASSUME NEW x \in TC!Elems(s)
      PROVE  x \in TC!Elems(r)
  <2>1. PICK k \in DOMAIN s : s[k] = x
    BY DEF TC!Elems
  <2>2. PICK l \in DOMAIN p : p[l] = k
    BY <1>1, <2>1 DEF TC!Elems
  <2>. QED BY <1>1, <2>1, <2>2 DEF TC!Elems
<1>. QED BY <1>3, <1>4, <1>5

(* What the conjuncts of the invariant say at the test of a neighbour, and *)
(* what the scan may assume.                                               *)
LEMMA Types ==
  ASSUME TC!TypeOK
  PROVE  /\ TC!V \subseteq Int /\ 0 \in TC!V
         /\ out[at] \in Seq(TC!V) /\ DOMAIN out[at] = 1 .. Len(out[at]) /\ Len(out[at]) \in Nat
         /\ \A k \in DOMAIN out[at] : /\ out[at][k] \in TC!V
                                     /\ out[out[at][k]] \in Seq(TC!V)
                                     /\ DOMAIN out[out[at][k]] = 1 .. Len(out[out[at][k]])
                                     /\ Len(out[out[at][k]]) \in Nat
<1>1. TC!V \subseteq Int /\ 0 \in TC!V
  BY NumNodesAssumption DEF TC!V
<1>2. out \in [TC!V -> Seq(TC!V)] /\ at \in TC!V
  BY DEF TC!TypeOK
<1>3. \A s \in Seq(TC!V) : /\ DOMAIN s = 1 .. Len(s) /\ Len(s) \in Nat
                        /\ \A k \in DOMAIN s : s[k] \in TC!V
  OBVIOUS
<1>4. out[at] \in Seq(TC!V)
  BY <1>2
<1>5. ASSUME NEW k \in DOMAIN out[at]
      PROVE  out[at][k] \in TC!V /\ out[out[at][k]] \in Seq(TC!V)
  BY <1>2, <1>3, <1>4
<1>. QED BY <1>1, <1>3, <1>4, <1>5
-----------------------------------------------------------------------------
LEMMA InitScanInv == TC!Init => TC!ScanInv
<1>. SUFFICES ASSUME TC!Init PROVE TC!ScanInv
  OBVIOUS
<1>1. TC!IsGraph(graph) /\ TC!Mirrored(graph.out)
  BY TrianglesAssumption DEF TC!Assumptions, TC!Init
<1>2. 0 \in TC!V
  BY NumNodesAssumption DEF TC!V
<1>. QED BY <1>1, <1>2 DEF TC!Init, TC!ScanInv, TC!TypeOK, TC!ScanStaysInList, TC!IsGraph

LEMMA NextScanInv == TC!ScanInv /\ [TC!Next]_(TC!vars) => TC!ScanInv'
<1>. SUFFICES ASSUME TC!ScanInv, [TC!Next]_(TC!vars) PROVE TC!ScanInv'
  OBVIOUS
<1>. USE DEF TC!loop
<1>0. TC!TypeOK /\ TC!Mirrored(out)
  BY DEF TC!ScanInv
<1>1. CASE TC!CountDirectly
  BY <1>1 DEF TC!CountDirectly, TC!ScanInv, TC!TypeOK, TC!ScanStaysInList
<1>2. CASE TC!Relabel
  <2>1. graph \in TCGraphs
    BY <1>0 DEF TC!TypeOK
  <2>2. out' \in [TC!V -> Seq(TC!V)] /\ TC!Mirrored(out')
    BY <1>2, <2>1, PlacedMirrored DEF TC!Relabel
  <2>. QED BY <1>2, <2>2 DEF TC!Relabel, TC!ScanInv, TC!TypeOK, TC!ScanStaysInList
<1>3. CASE TC!SortNeighbours
  <2>1. PICK n \in work : \E p \in TC!PermutationsOf(DOMAIN out[n]) :
          /\ out' = [out EXCEPT ![n] = [k \in DOMAIN out[n] |-> out[n][p[k]]]]
          /\ work' = work \ {n}
    BY <1>3 DEF TC!SortNeighbours
  <2>2. n \in TC!V /\ out \in [TC!V -> Seq(TC!V)] /\ out[n] \in Seq(TC!V)
    BY <1>0, <2>1 DEF TC!TypeOK
  <2>3. out'[n] \in Seq(TC!V) /\ TC!Elems(out'[n]) = TC!Elems(out[n])
    <3>1. PICK p \in TC!PermutationsOf(DOMAIN out[n]) :
            out' = [out EXCEPT ![n] = [k \in DOMAIN out[n] |-> out[n][p[k]]]]
      BY <2>1
    <3>2. out'[n] = [k \in DOMAIN out[n] |-> out[n][p[k]]]
      BY <2>2, <3>1
    <3>. QED BY <2>2, <3>2, PermutedElems
  <2>4. out' \in [TC!V -> Seq(TC!V)] /\ \A m \in TC!V : TC!Elems(out'[m]) = TC!Elems(out[m])
    BY <2>1, <2>2, <2>3
  <2>5. TC!Mirrored(out')
    BY <1>0, <2>4 DEF TC!Mirrored
  <2>6. work' \in SUBSET TC!V
    BY <1>0, <2>1 DEF TC!TypeOK
  <2>. QED BY <1>3, <2>4, <2>5, <2>6
         DEF TC!SortNeighbours, TC!ScanInv, TC!TypeOK, TC!ScanStaysInList
<1>4. CASE TC!EndSort
  BY <1>4 DEF TC!EndSort, TC!ScanInv, TC!TypeOK, TC!ScanStaysInList
<1>5. CASE TC!NextVertex
  BY <1>5 DEF TC!NextVertex, TC!ScanInv, TC!TypeOK, TC!ScanStaysInList
<1>6. CASE TC!NextNeighbour
  <2>1. /\ vpos \in DOMAIN out[at] /\ TC!v \in TC!V /\ TC!v <= at /\ at \in TC!V
        /\ TC!V \subseteq Int
        /\ DOMAIN out[TC!v] = 1 .. Len(out[TC!v]) /\ Len(out[TC!v]) \in Nat
    <3>1. vpos \in Nat /\ vpos >= 1 /\ vpos <= Len(out[at]) /\ TC!v <= at /\ at \in TC!V
      BY <1>6 DEF TC!NextNeighbour, TC!Lower, TC!ScanInv, TC!TypeOK
    <3>2. vpos \in DOMAIN out[at]
      BY <1>0, <3>1, Types
    <3>. QED BY <1>0, <3>1, <3>2, Types DEF TC!v
  <2>2. TC!v \in TC!Elems(out[at])
    BY <2>1 DEF TC!Elems, TC!v
  <2>3. TC!v # at /\ at \in TC!Elems(out[TC!v])
    BY <1>0, <2>1, <2>2 DEF TC!Mirrored
  <2>4. \E k \in DOMAIN out[TC!v] : k >= 1 /\ out[TC!v][k] = at
    BY <2>1, <2>3 DEF TC!Elems
  <2>5. TC!v < at
    BY <2>1, <2>3
  <2>. QED BY <1>6, <2>1, <2>4, <2>5
         DEF TC!NextNeighbour, TC!ScanInv, TC!TypeOK, TC!ScanStaysInList, TC!v
<1>7. CASE TC!EndVertex
  <2>1. 0 \in TC!V
    BY NumNodesAssumption DEF TC!V
  <2>. QED BY <1>7, <2>1 DEF TC!EndVertex, TC!ScanInv, TC!TypeOK, TC!ScanStaysInList
<1>8. CASE TC!NextCandidate
  <2>1. wpos \in DOMAIN out[at]
    BY <1>0, <1>8, Types DEF TC!NextCandidate, TC!ScanInv, TC!TypeOK
  <2>. QED BY <1>8, <2>1
         DEF TC!NextCandidate, TC!ScanInv, TC!TypeOK, TC!ScanStaysInList, TC!v, TC!w
<1>9. CASE TC!EndCandidates
  BY <1>9 DEF TC!EndCandidates, TC!ScanInv, TC!TypeOK, TC!ScanStaysInList
<1>10. CASE TC!Advance
  <2>1. /\ vpos \in DOMAIN out[at] /\ TC!v < at /\ it \in Nat /\ it >= 1
        /\ wpos \in DOMAIN out[at] /\ TC!w <= TC!v
        /\ out[TC!v][it] < TC!w /\ it \in DOMAIN out[TC!v]
    BY <1>10 DEF TC!Advance, TC!ScanInv, TC!TypeOK, TC!ScanStaysInList
  <2>2. PICK k \in DOMAIN out[TC!v] : k >= it /\ out[TC!v][k] = at
    BY <1>10 DEF TC!Advance, TC!ScanInv, TC!ScanStaysInList
  <2>3. /\ at \in TC!V /\ TC!v \in TC!V /\ TC!w \in TC!V /\ TC!V \subseteq Int
        /\ out[TC!v] \in Seq(TC!V) /\ DOMAIN out[TC!v] = 1 .. Len(out[TC!v])
        /\ Len(out[TC!v]) \in Nat
    <3>1. at \in TC!V
      BY <1>0 DEF TC!TypeOK
    <3>. QED BY <1>0, <2>1, <3>1, Types DEF TC!v, TC!w
  <2>4. k # it
    BY <2>1, <2>2, <2>3
  <2>5. k >= it + 1
    BY <2>1, <2>2, <2>3, <2>4
  <2>6. /\ it' = it + 1 /\ control = "scan"
        /\ UNCHANGED <<graph, out, control, work, at, vpos, wpos, sum>>
    BY <1>10 DEF TC!Advance
  <2>7. TC!v' = TC!v /\ TC!w' = TC!w
    BY <2>6 DEF TC!v, TC!w
  <2>8. TC!TypeOK'
    BY <1>0, <2>6 DEF TC!TypeOK
  <2>9. TC!ScanStaysInList'
    BY <2>1, <2>2, <2>5, <2>6, <2>7 DEF TC!ScanStaysInList
  <2>. QED BY <1>0, <2>1, <2>6, <2>7, <2>8, <2>9 DEF TC!ScanInv, TC!Mirrored
<1>11. CASE TC!Match
  <2>1. /\ control = "scan" /\ control' = "candidate" /\ wpos' = wpos + 1
        /\ sum' \in {sum, sum + 1}
        /\ UNCHANGED <<graph, out, work, at, vpos, it>>
    BY <1>11 DEF TC!Match
  <2>2. TC!v' = TC!v
    BY <2>1 DEF TC!v
  <2>3. TC!TypeOK'
    BY <1>0, <2>1 DEF TC!TypeOK
  <2>4. TC!ScanStaysInList'
    BY <2>1, <2>2 DEF TC!ScanInv, TC!ScanStaysInList
  <2>5. vpos' >= 1 /\ it' >= 1 /\ wpos' >= 1
    BY <1>0, <2>1 DEF TC!ScanInv, TC!TypeOK
  <2>. QED BY <1>0, <2>1, <2>3, <2>4, <2>5 DEF TC!ScanInv, TC!Mirrored
<1>12. CASE TC!Return
  BY <1>12 DEF TC!Return, TC!ScanInv, TC!TypeOK, TC!ScanStaysInList
<1>13. CASE TC!Done \/ UNCHANGED TC!vars
  BY <1>13 DEF TC!Done, TC!vars, TC!ScanInv, TC!TypeOK, TC!ScanStaysInList, TC!v, TC!w
<1>. QED
  BY <1>1, <1>2, <1>3, <1>4, <1>5, <1>6, <1>7, <1>8, <1>9, <1>10, <1>11, <1>12, <1>13
  DEF TC!Next

-----------------------------------------------------------------------------
(***************************************************************************)
(* The count.  A triangle is looked for in all six orders of its vertices  *)
(* where sets of triangles are compared: by what renumbering maps them to, *)
(* and by what TCVerifier counts.                                          *)
(***************************************************************************)
(* The size of a union of two disjoint sets.                               *)
LEMMA DisjointUnion ==
  ASSUME NEW S, NEW T, IsFiniteSet(S), IsFiniteSet(T), S \cap T = {}
  PROVE  /\ IsFiniteSet(S \cup T) /\ Cardinality(S) \in Nat /\ Cardinality(T) \in Nat
         /\ Cardinality(S \cup T) = Cardinality(S) + Cardinality(T)
<1>1. /\ IsFiniteSet(S \cup T)
      /\ Cardinality(S \cup T) = Cardinality(S) + Cardinality(T) - Cardinality(S \cap T)
  BY FS_Union
<1>2. Cardinality(S \cap T) = 0
  BY FS_EmptySet
<1>3. Cardinality(S) \in Nat /\ Cardinality(T) \in Nat
  BY FS_CardinalityType
<1>. QED BY <1>1, <1>2, <1>3

(* The sum of the sizes of disjoint sets is the size of their union.       *)
LEMMA SumOfSizes ==
  ASSUME NEW m \in Nat, NEW S, NEW f \in [1 .. m -> Nat],
         \A x \in 1 .. m : IsFiniteSet(S[x]) /\ f[x] = Cardinality(S[x]),
         \A x, y \in 1 .. m : x # y => S[x] \cap S[y] = {},
         NEW All, All = UNION {S[x] : x \in 1 .. m}
  PROVE  IsFiniteSet(All) /\ TC!Sum(f, m) = Cardinality(All)
<1>. DEFINE U(l) == UNION {S[x] : x \in 1 .. l}
            T == {l \in Nat : l <= m => IsFiniteSet(U(l))}
            Rec(c, k) == IF k = 0 THEN 0 ELSE c[k - 1] + f[k]
            size == [k \in 0 .. m |-> Cardinality(U(k))]
<1>1. U(0) = {}
  OBVIOUS
<1>2. ASSUME NEW l \in Nat, l + 1 <= m
      PROVE  /\ l + 1 \in 1 .. m
             /\ U(l + 1) = U(l) \cup S[l + 1] /\ U(l) \cap S[l + 1] = {}
  <2>1. l + 1 \in 1 .. m /\ \A x : x \in 1 .. l => x \in 1 .. m /\ x # l + 1
    BY <1>2
  <2>2. \A x : x \in 1 .. l + 1 <=> x \in 1 .. l \/ x = l + 1
    OBVIOUS
  <2>3. \A x \in 1 .. l : S[x] \cap S[l + 1] = {}
    BY <2>1
  <2>4. U(l + 1) = U(l) \cup S[l + 1]
    BY <2>2, Zenon
  <2>5. U(l) \cap S[l + 1] = {}
    BY <2>3, Zenon
  <2>. QED BY <2>1, <2>4, <2>5
<1>3. T = Nat
  <2>1. 0 \in T
    BY <1>1, FS_EmptySet
  <2>2. ASSUME NEW l \in T PROVE l + 1 \in T
    <3>. SUFFICES ASSUME l + 1 <= m PROVE IsFiniteSet(U(l + 1))
      OBVIOUS
    <3>1. l \in Nat /\ l <= m /\ l + 1 \in 1 .. m /\ IsFiniteSet(U(l))
      OBVIOUS
    <3>2. /\ U(l + 1) = U(l) \cup S[l + 1] /\ U(l) \cap S[l + 1] = {}
          /\ IsFiniteSet(S[l + 1])
      BY <1>2, <3>1
    <3>. HIDE DEF U
    <3>3. IsFiniteSet(U(l) \cup S[l + 1])
      BY <3>1, <3>2, DisjointUnion
    <3>. QED BY <3>2, <3>3
  <2>. HIDE DEF T
  <2>3. T \subseteq Nat
    BY DEF T
  <2>. QED BY <2>1, <2>2, <2>3, Induction
<1>4. \A k \in 0 .. m : size[k] = Rec(size, k)
  <2>. SUFFICES ASSUME NEW k \in 0 .. m PROVE size[k] = Rec(size, k)
    OBVIOUS
  <2>. HIDE DEF U
  <2>1. CASE k = 0
    BY <1>1, <2>1, FS_EmptySet
  <2>2. CASE k # 0
    <3>. DEFINE l == k - 1
    <3>1. l \in Nat /\ l + 1 = k /\ k \in 1 .. m /\ l \in 0 .. m /\ l <= m
      BY <2>2
    <3>2. U(k) = U(l) \cup S[k] /\ U(l) \cap S[k] = {}
      BY <1>2, <3>1
    <3>3. IsFiniteSet(U(l)) /\ IsFiniteSet(S[k]) /\ f[k] = Cardinality(S[k])
      BY <1>3, <3>1
    <3>4. Cardinality(U(k)) = Cardinality(U(l)) + Cardinality(S[k])
      <4>. HIDE DEF l
      <4>1. Cardinality(U(l) \cup S[k]) = Cardinality(U(l)) + Cardinality(S[k])
        BY <3>2, <3>3, DisjointUnion
      <4>. QED BY <3>2, <4>1
    <3>. QED BY <2>2, <3>1, <3>3, <3>4
  <2>. QED BY <2>1, <2>2
<1>5. size = [k \in 0 .. m |-> Rec(size, k)]
  BY <1>4, Zenon
<1>. DEFINE c == CHOOSE c : c = [k \in 0 .. m |-> Rec(c, k)]
<1>6. c = [k \in 0 .. m |-> Rec(c, k)]
  <2>. HIDE DEF size, Rec
  <2>. QED BY <1>5, Zenon
<1>7. TC!Sum(f, m) = c[m]
  BY Zenon DEF TC!Sum
<1>. HIDE DEF c
<1>. DEFINE R == {k \in Nat : k <= m => c[k] = size[k]}
<1>8. R = Nat
  <2>1. 0 \in R
    <3>1. 0 \in 0 .. m
      OBVIOUS
    <3>2. size[0] = 0 /\ c[0] = 0
      <4>. HIDE DEF size
      <4>. QED BY <1>4, <1>6, <3>1
    <3>. HIDE DEF size
    <3>. QED BY <3>2
  <2>2. ASSUME NEW k \in R PROVE k + 1 \in R
    <3>. SUFFICES ASSUME k + 1 <= m PROVE c[k + 1] = size[k + 1]
      OBVIOUS
    <3>1. k \in Nat /\ k + 1 \in 0 .. m /\ k + 1 # 0 /\ (k + 1) - 1 = k /\ c[k] = size[k]
      OBVIOUS
    <3>2. size[k + 1] = Rec(size, k + 1)
      BY <1>4, <3>1
    <3>3. c[k + 1] = Rec(c, k + 1)
      <4>. HIDE DEF Rec
      <4>. QED BY <1>6, <3>1, Zenon
    <3>. HIDE DEF size
    <3>. QED BY <3>1, <3>2, <3>3
  <2>. HIDE DEF R
  <2>3. R \subseteq Nat
    BY DEF R
  <2>. QED BY <2>1, <2>2, <2>3, Induction
<1>9. m \in R /\ m \in T /\ m \in 0 .. m
  <2>. HIDE DEF R, T
  <2>. QED BY <1>3, <1>8
<1>10. c[m] = size[m] /\ IsFiniteSet(U(m)) /\ size[m] = Cardinality(U(m))
  <2>. HIDE DEF U
  <2>. QED BY <1>9
<1>. QED BY <1>7, <1>10

Ascending(s) == \A a, b \in DOMAIN s : a < b => s[a] < s[b]
(* What is yet to be found from positions a and b on.                      *)
Rest(s, t, a, b) ==
  {x \in TC!V : /\ \E k \in DOMAIN s : k >= a /\ s[k] = x
                /\ \E l \in DOMAIN t : l >= b /\ t[l] = x}

(* The three cases of a step of the walk through two lists.                *)
LEMMA RestStep ==
  ASSUME NEW s \in Seq(TC!V), NEW t \in Seq(TC!V), Ascending(s), Ascending(t),
         NEW a \in 1 .. Len(s) + 1, NEW b \in 1 .. Len(t) + 1
  PROVE  /\ IsFiniteSet(Rest(s, t, a, b))
         /\ a > Len(s) \/ b > Len(t) => Rest(s, t, a, b) = {}
         /\ a <= Len(s) /\ b <= Len(t) =>
              /\ s[a] \in Int /\ t[b] \in Int
              /\ s[a] = t[b] =>
                   Cardinality(Rest(s, t, a, b)) = 1 + Cardinality(Rest(s, t, a + 1, b + 1))
              /\ s[a] < t[b] => Rest(s, t, a, b) = Rest(s, t, a + 1, b)
              /\ s[a] > t[b] => Rest(s, t, a, b) = Rest(s, t, a, b + 1)
<1>1. /\ DOMAIN s = 1 .. Len(s) /\ Len(s) \in Nat /\ \A k \in DOMAIN s : s[k] \in TC!V
      /\ DOMAIN t = 1 .. Len(t) /\ Len(t) \in Nat /\ \A k \in DOMAIN t : t[k] \in TC!V
  OBVIOUS
<1>2. (\A x \in TC!V : x \in Int) /\ IsFiniteSet(TC!V)
  BY NumNodesAssumption, FS_Interval DEF TC!V
<1>3. \A x, y : IsFiniteSet(Rest(s, t, x, y))
  <2>. SUFFICES ASSUME NEW x, NEW y PROVE IsFiniteSet(Rest(s, t, x, y))
    OBVIOUS
  <2>1. Rest(s, t, x, y) \in SUBSET TC!V
    BY DEF Rest
  <2>. QED BY <1>2, <2>1, FS_Subset
<1>4. ASSUME a > Len(s) \/ b > Len(t) PROVE Rest(s, t, a, b) = {}
  BY <1>1, <1>4 DEF Rest
<1>5. ASSUME a <= Len(s), b <= Len(t)
      PROVE  /\ s[a] \in Int /\ t[b] \in Int
             /\ s[a] = t[b] =>
                  Cardinality(Rest(s, t, a, b)) = 1 + Cardinality(Rest(s, t, a + 1, b + 1))
             /\ s[a] < t[b] => Rest(s, t, a, b) = Rest(s, t, a + 1, b)
             /\ s[a] > t[b] => Rest(s, t, a, b) = Rest(s, t, a, b + 1)
  <2>1. /\ a \in DOMAIN s /\ b \in DOMAIN t /\ s[a] \in TC!V /\ t[b] \in TC!V
        /\ s[a] \in Int /\ t[b] \in Int
    <3>1. a \in Nat /\ b \in Nat /\ a >= 1 /\ b >= 1
      OBVIOUS
    <3>2. a \in DOMAIN s /\ b \in DOMAIN t
      BY <1>1, <1>5, <3>1
    <3>. QED BY <1>1, <1>2, <3>2
  <2>0. a \in Int /\ b \in Int
    OBVIOUS
  <2>2. \A k \in DOMAIN s : s[k] \in Int /\ (k >= a <=> k = a \/ k >= a + 1)
    BY <1>1, <1>2, <2>0
  <2>3. \A l \in DOMAIN t : t[l] \in Int /\ (l >= b <=> l = b \/ l >= b + 1)
    BY <1>1, <1>2, <2>0
  <2>4. /\ \A k \in DOMAIN s : k >= a + 1 => s[k] > s[a]
        /\ \A l \in DOMAIN t : l >= b + 1 => t[l] > t[b]
    BY <1>1, <2>1, <2>2, <2>3 DEF Ascending
  <2>5. ASSUME s[a] = t[b]
        PROVE  Cardinality(Rest(s, t, a, b)) = 1 + Cardinality(Rest(s, t, a + 1, b + 1))
    <3>. DEFINE R == Rest(s, t, a + 1, b + 1)
    <3>1. s[a] \notin R
      BY <2>1, <2>2, <2>4 DEF Rest
    <3>2. \A x \in TC!V : x \in Rest(s, t, a, b) => x \in R \cup {s[a]}
      <4>. SUFFICES ASSUME NEW x \in Rest(s, t, a, b), x # s[a] PROVE x \in R
        OBVIOUS
      <4>1. PICK k \in DOMAIN s : k >= a /\ s[k] = x
        BY DEF Rest
      <4>2. PICK l \in DOMAIN t : l >= b /\ t[l] = x
        BY DEF Rest
      <4>3. k >= a + 1 /\ l >= b + 1
        BY <2>2, <2>3, <2>5, <4>1, <4>2
      <4>. QED BY <4>1, <4>2, <4>3 DEF Rest
    <3>3. \A x \in R \cup {s[a]} : x \in Rest(s, t, a, b)
      BY <2>1, <2>2, <2>3, <2>5 DEF Rest
    <3>4. Rest(s, t, a, b) = R \cup {s[a]}
      <4>1. \A x \in Rest(s, t, a, b) : x \in TC!V
        BY DEF Rest
      <4>. HIDE DEF R
      <4>. QED BY <3>2, <3>3, <4>1
    <3>5. IsFiniteSet(R)
      BY <1>3
    <3>. HIDE DEF R
    <3>6. Cardinality(R \cup {s[a]}) = Cardinality(R) + 1 /\ Cardinality(R) \in Nat
      BY <3>1, <3>5, FS_AddElement, FS_CardinalityType
    <3>. QED BY <3>4, <3>6 DEF R
  <2>6. ASSUME s[a] < t[b]
        PROVE  Rest(s, t, a, b) = Rest(s, t, a + 1, b)
    <3>1. \A l \in DOMAIN t : l >= b => t[l] # s[a]
      BY <2>1, <2>3, <2>4, <2>6
    <3>. QED BY <2>2, <3>1 DEF Rest
  <2>7. ASSUME s[a] > t[b]
        PROVE  Rest(s, t, a, b) = Rest(s, t, a, b + 1)
    <3>1. \A k \in DOMAIN s : k >= a => s[k] # t[b]
      BY <2>1, <2>2, <2>4, <2>7
    <3>. QED BY <2>3, <3>1 DEF Rest
  <2>. QED BY <2>1, <2>5, <2>6, <2>7
<1>. QED BY <1>3, <1>4, <1>5

(* Walking two sorted lists in step finds what they have in common.        *)
LEMMA InCommonCounts ==
  ASSUME NEW s \in Seq(TC!V), NEW t \in Seq(TC!V), Ascending(s), Ascending(t)
  PROVE  LET Both == {x \in TC!V : x \in TC!Elems(s) /\ x \in TC!Elems(t)}
         IN  IsFiniteSet(Both) /\ TC!InCommon(s, t) = Cardinality(Both)
<1>. DEFINE D == (1 .. Len(s) + 1) \X (1 .. Len(t) + 1)
            Rec(c, p) == IF p[1] > Len(s) \/ p[2] > Len(t) THEN 0
                         ELSE IF s[p[1]] = t[p[2]] THEN 1 + c[<<p[1] + 1, p[2] + 1>>]
                         ELSE IF s[p[1]] < t[p[2]] THEN c[<<p[1] + 1, p[2]>>]
                         ELSE c[<<p[1], p[2] + 1>>]
            size == [p \in D |-> Cardinality(Rest(s, t, p[1], p[2]))]
            c == CHOOSE c : c = [p \in D |-> Rec(c, p)]
<1>1. Len(s) \in Nat /\ Len(t) \in Nat
  OBVIOUS
<1>2. ASSUME NEW p \in D
      PROVE  /\ p[1] \in 1 .. Len(s) + 1 /\ p[2] \in 1 .. Len(t) + 1
             /\ ~(p[1] > Len(s) \/ p[2] > Len(t)) =>
                  {<<p[1] + 1, p[2] + 1>>, <<p[1] + 1, p[2]>>, <<p[1], p[2] + 1>>} \subseteq D
  BY <1>1
<1>3. ASSUME NEW p \in D PROVE size[p] = Rec(size, p)
  <2>. DEFINE a == p[1]
              b == p[2]
  <2>1. a \in 1 .. Len(s) + 1 /\ b \in 1 .. Len(t) + 1 /\ a \in Nat /\ b \in Nat
    BY <1>1, <1>2
  <2>2. size[p] = Cardinality(Rest(s, t, a, b))
    OBVIOUS
  <2>3. CASE a > Len(s) \/ b > Len(t)
    BY <2>1, <2>2, <2>3, RestStep, FS_EmptySet
  <2>4. CASE ~(a > Len(s) \/ b > Len(t))
    <3>1. /\ <<a + 1, b + 1>> \in D /\ <<a + 1, b>> \in D /\ <<a, b + 1>> \in D
      BY <1>2, <2>4
    <3>2. /\ size[<<a + 1, b + 1>>] = Cardinality(Rest(s, t, a + 1, b + 1))
          /\ size[<<a + 1, b>>] = Cardinality(Rest(s, t, a + 1, b))
          /\ size[<<a, b + 1>>] = Cardinality(Rest(s, t, a, b + 1))
      BY <3>1
    <3>3. a <= Len(s) /\ b <= Len(t)
      BY <1>1, <2>1, <2>4
    <3>. HIDE DEF size, D, a, b
    <3>4. /\ s[a] \in Int /\ t[b] \in Int
          /\ s[a] = t[b] => size[p] = 1 + size[<<a + 1, b + 1>>]
          /\ s[a] < t[b] => size[p] = size[<<a + 1, b>>]
          /\ s[a] > t[b] => size[p] = size[<<a, b + 1>>]
      BY <2>1, <2>2, <3>2, <3>3, RestStep
    <3>5. size[p] = IF s[a] = t[b] THEN 1 + size[<<a + 1, b + 1>>]
                    ELSE IF s[a] < t[b] THEN size[<<a + 1, b>>] ELSE size[<<a, b + 1>>]
      BY <3>4
    <3>. QED BY <2>4, <3>5 DEF a, b
  <2>. QED BY <2>3, <2>4
<1>4. size = [p \in D |-> Rec(size, p)]
  <2>1. \A p \in D : size[p] = Rec(size, p)
    BY <1>3
  <2>2. size = [p \in D |-> size[p]]
    BY Zenon
  <2>. HIDE DEF size, Rec, D
  <2>. QED BY <2>1, <2>2, Zenon
<1>5. c = [p \in D |-> Rec(c, p)]
  <2>. HIDE DEF size, Rec, D
  <2>. QED BY <1>4, Zenon
<1>6. TC!InCommon(s, t) = c[<<1, 1>>]
  BY Zenon DEF TC!InCommon
<1>. HIDE DEF c
<1>. DEFINE weight(p) == (Len(s) + 1 - p[1]) + (Len(t) + 1 - p[2])
            T == {d \in Nat : \A p \in D : weight(p) <= d => c[p] = size[p]}
<1>7. T = Nat
  <2>0. \A p \in D : c[p] = Rec(c, p) /\ size[p] = Rec(size, p)
    <3>1. \A p \in D : c[p] = Rec(c, p)
      <4>. HIDE DEF Rec, D
      <4>. QED BY <1>5
    <3>. HIDE DEF size
    <3>. QED BY <1>3, <3>1
  <2>1. 0 \in T
    <3>. SUFFICES ASSUME NEW p \in D, weight(p) <= 0 PROVE c[p] = size[p]
      OBVIOUS
    <3>1. p[1] > Len(s)
      BY <1>1, <1>2
    <3>. HIDE DEF size, D
    <3>. QED BY <2>0, <3>1
  <2>2. ASSUME NEW d \in T PROVE d + 1 \in T
    <3>. SUFFICES ASSUME NEW p \in D, weight(p) <= d + 1 PROVE c[p] = size[p]
      OBVIOUS
    <3>1. d \in Nat /\ \A q \in D : weight(q) <= d => c[q] = size[q]
      OBVIOUS
    <3>2. c[p] = Rec(c, p) /\ size[p] = Rec(size, p)
      BY <2>0
    <3>. HIDE DEF size
    <3>3. CASE p[1] > Len(s) \/ p[2] > Len(t)
      <4>. HIDE DEF D
      <4>. QED BY <3>2, <3>3
    <3>4. CASE ~(p[1] > Len(s) \/ p[2] > Len(t))
      <4>. DEFINE q1 == <<p[1] + 1, p[2] + 1>>
                  q2 == <<p[1] + 1, p[2]>>
                  q3 == <<p[1], p[2] + 1>>
      <4>1. q1 \in D /\ q2 \in D /\ q3 \in D
        BY <1>2, <3>4
      <4>2. weight(q1) <= d /\ weight(q2) <= d /\ weight(q3) <= d
        <5>1. /\ p[1] \in Int /\ p[2] \in Int
              /\ (Len(s) + 1 - p[1]) + (Len(t) + 1 - p[2]) <= d + 1
          BY <1>1, <1>2
        <5>2. /\ weight(q1) = (Len(s) + 1 - (p[1] + 1)) + (Len(t) + 1 - (p[2] + 1))
              /\ weight(q2) = (Len(s) + 1 - (p[1] + 1)) + (Len(t) + 1 - p[2])
              /\ weight(q3) = (Len(s) + 1 - p[1]) + (Len(t) + 1 - (p[2] + 1))
          BY Zenon
        <5>3. \A m, n, x, y, e \in Int :
                (m + 1 - x) + (n + 1 - y) <= e + 1 =>
                  /\ (m + 1 - (x + 1)) + (n + 1 - (y + 1)) <= e
                  /\ (m + 1 - (x + 1)) + (n + 1 - y) <= e
                  /\ (m + 1 - x) + (n + 1 - (y + 1)) <= e
          OBVIOUS
        <5>4. d \in Int /\ Len(s) \in Int /\ Len(t) \in Int
          BY <1>1
        <5>5. /\ (Len(s) + 1 - (p[1] + 1)) + (Len(t) + 1 - (p[2] + 1)) <= d
              /\ (Len(s) + 1 - (p[1] + 1)) + (Len(t) + 1 - p[2]) <= d
              /\ (Len(s) + 1 - p[1]) + (Len(t) + 1 - (p[2] + 1)) <= d
          BY <5>1, <5>3, <5>4, Zenon
        <5>. QED BY <5>2, <5>5, Zenon
      <4>3. c[q1] = size[q1] /\ c[q2] = size[q2] /\ c[q3] = size[q3]
        <5>. HIDE DEF D, weight, q1, q2, q3
        <5>. QED BY <3>1, <4>1, <4>2
      <4>. HIDE DEF D
      <4>. QED BY <3>2, <3>4, <4>3
    <3>. QED BY <3>3, <3>4
  <2>. HIDE DEF T
  <2>3. T \subseteq Nat
    BY DEF T
  <2>. QED BY <2>1, <2>2, <2>3, Induction
<1>8. <<1, 1>> \in D /\ weight(<<1, 1>>) = Len(s) + Len(t) /\ Len(s) + Len(t) \in T
  <2>1. Len(s) + Len(t) \in T
    <3>. HIDE DEF T
    <3>. QED BY <1>1, <1>7
  <2>. HIDE DEF T
  <2>. QED BY <1>1, <2>1
<1>9. c[<<1, 1>>] = size[<<1, 1>>]
  <2>. HIDE DEF size
  <2>. QED BY <1>1, <1>8
<1>10. size[<<1, 1>>] = Cardinality(Rest(s, t, 1, 1))
  BY <1>8
<1>11. Rest(s, t, 1, 1) = {x \in TC!V : x \in TC!Elems(s) /\ x \in TC!Elems(t)}
  <2>1. /\ \A k \in DOMAIN s : k >= 1
        /\ \A k \in DOMAIN t : k >= 1
    OBVIOUS
  <2>. QED BY <2>1 DEF Rest, TC!Elems
<1>12. IsFiniteSet(Rest(s, t, 1, 1))
  BY <1>1, RestStep
<1>. QED BY <1>6, <1>9, <1>10, <1>11, <1>12

Triples == TC!V \X TC!V \X TC!V
(* The triangles, each in all six orders.                                  *)
Ordered(lists) ==
  {t \in Triples : {t[2], t[3]} \subseteq TC!Elems(lists[t[1]]) /\ t[3] \in TC!Elems(lists[t[2]])}

(* Sets of triples can be counted.                                         *)
LEMMA TriplesFinite ==
  ASSUME NEW S, S \subseteq Triples
  PROVE  IsFiniteSet(S) /\ Cardinality(S) \in Nat
<1>1. IsFiniteSet(TC!V)
  BY NumNodesAssumption, FS_Interval DEF TC!V
<1>2. IsFiniteSet((TC!V \X TC!V) \X TC!V)
  BY <1>1, FS_Product
<1>. DEFINE f == [p \in (TC!V \X TC!V) \X TC!V |-> <<p[1][1], p[1][2], p[2]>>]
<1>3. f \in [(TC!V \X TC!V) \X TC!V -> Triples]
  BY DEF Triples
<1>4. \A i, j \in (TC!V \X TC!V) \X TC!V : f[i] = f[j] => i = j
  OBVIOUS
<1>5. ASSUME NEW t \in Triples
      PROVE  \E p \in (TC!V \X TC!V) \X TC!V : f[p] = t
  <2>1. <<<<t[1], t[2]>>, t[3]>> \in (TC!V \X TC!V) \X TC!V
    BY DEF Triples
  <2>2. f[<<<<t[1], t[2]>>, t[3]>>] = t
    BY <2>1 DEF Triples
  <2>. QED BY <2>1, <2>2
<1>6. IsFiniteSet(Triples)
  <2>. HIDE DEF f, Triples
  <2>. QED BY <1>2, <1>3, <1>4, <1>5, SameSize
<1>. QED BY <1>6, FS_Subset, FS_CardinalityType

(* Exchanging two places of the triples of a set keeps its size.           *)
LEMMA SwapFirst ==
  ASSUME NEW S, NEW T, S \subseteq Triples,
         T = {t \in Triples : <<t[2], t[1], t[3]>> \in S}
  PROVE  Cardinality(T) = Cardinality(S)
<1>. DEFINE f == [t \in S |-> <<t[2], t[1], t[3]>>]
<1>1. \A t \in Triples : /\ <<t[2], t[1], t[3]>> \in Triples
                         /\ t = <<t[1], t[2], t[3]>>
  BY DEF Triples
<1>2. \A t \in S : f[t] \in T
  BY <1>1
<1>3. f \in [S -> T]
  BY <1>2
<1>4. \A t, r \in S : f[t] = f[r] => t = r
  BY <1>1
<1>5. ASSUME NEW t \in T PROVE \E r \in S : f[r] = t
  <2>1. <<t[2], t[1], t[3]>> \in S /\ t \in Triples
    OBVIOUS
  <2>2. f[<<t[2], t[1], t[3]>>] = t
    BY <1>1, <2>1
  <2>. QED BY <2>1, <2>2
<1>6. IsFiniteSet(S)
  BY TriplesFinite
<1>. HIDE DEF f
<1>. QED BY <1>3, <1>4, <1>5, <1>6, SameSize

LEMMA SwapLast ==
  ASSUME NEW S, NEW T, S \subseteq Triples,
         T = {t \in Triples : <<t[1], t[3], t[2]>> \in S}
  PROVE  Cardinality(T) = Cardinality(S)
<1>. DEFINE f == [t \in S |-> <<t[1], t[3], t[2]>>]
<1>1. \A t \in Triples : /\ <<t[1], t[3], t[2]>> \in Triples
                         /\ t = <<t[1], t[2], t[3]>>
  BY DEF Triples
<1>2. \A t \in S : f[t] \in T
  BY <1>1
<1>3. f \in [S -> T]
  BY <1>2
<1>4. \A t, r \in S : f[t] = f[r] => t = r
  BY <1>1
<1>5. ASSUME NEW t \in T PROVE \E r \in S : f[r] = t
  <2>1. <<t[1], t[3], t[2]>> \in S /\ t \in Triples
    OBVIOUS
  <2>2. f[<<t[1], t[3], t[2]>>] = t
    BY <1>1, <2>1
  <2>. QED BY <2>1, <2>2
<1>6. IsFiniteSet(S)
  BY TriplesFinite
<1>. HIDE DEF f
<1>. QED BY <1>3, <1>4, <1>5, <1>6, SameSize

(* Each triangle is found in six orders.                                   *)
LEMMA SixOrders ==
  ASSUME NEW lists, TC!Mirrored(lists)
  PROVE  Cardinality(Ordered(lists)) = 6 * Cardinality(TC!Clique(lists))
<1>. DEFINE O == Ordered(lists)
            A == {t \in O : t[1] > t[2]}
            B == {t \in O : t[2] > t[1]}
            A1 == {t \in A : t[2] > t[3]}
            A2 == {t \in A : t[3] > t[2] /\ t[1] > t[3]}
            A3 == {t \in A : t[3] > t[1]}
<1>1. \A t \in Triples : t[1] \in Int /\ t[2] \in Int /\ t[3] \in Int
  BY NumNodesAssumption DEF Triples, TC!V
<1>2. \A t \in O : /\ t[1] # t[2] /\ t[1] # t[3] /\ t[2] # t[3]
                   /\ t \in Triples
                   /\ <<t[2], t[1], t[3]>> \in O /\ <<t[1], t[3], t[2]>> \in O
  <2>. SUFFICES ASSUME NEW t \in O
                PROVE  /\ t[1] # t[2] /\ t[1] # t[3] /\ t[2] # t[3]
                       /\ t \in Triples
                       /\ <<t[2], t[1], t[3]>> \in O /\ <<t[1], t[3], t[2]>> \in O
    OBVIOUS
  <2>1. /\ t \in Triples /\ t[1] \in TC!V /\ t[2] \in TC!V /\ t[3] \in TC!V
        /\ t[2] \in TC!Elems(lists[t[1]]) /\ t[3] \in TC!Elems(lists[t[1]])
        /\ t[3] \in TC!Elems(lists[t[2]])
    BY DEF Ordered, Triples
  <2>2. /\ t[1] # t[2] /\ t[1] # t[3] /\ t[2] # t[3]
        /\ t[1] \in TC!Elems(lists[t[2]]) /\ t[2] \in TC!Elems(lists[t[3]])
    BY <2>1 DEF TC!Mirrored
  <2>3. <<t[2], t[1], t[3]>> \in Triples /\ <<t[1], t[3], t[2]>> \in Triples
    BY <2>1 DEF Triples
  <2>4. <<t[2], t[1], t[3]>> \in O
    BY <2>1, <2>2, <2>3 DEF Ordered
  <2>5. <<t[1], t[3], t[2]>> \in O
    BY <2>1, <2>2, <2>3 DEF Ordered
  <2>. QED BY <2>1, <2>2, <2>4, <2>5
<1>3. \A t \in Triples : /\ <<t[2], t[1], t[3]>> \in O => t \in O
                         /\ <<t[1], t[3], t[2]>> \in O => t \in O
  <2>1. \A t \in Triples : t = <<t[1], t[2], t[3]>>
    BY DEF Triples
  <2>. HIDE DEF O
  <2>. QED BY <1>2, <2>1
<1>4. O \subseteq Triples
  BY DEF Ordered
<1>5. A1 = TC!Clique(lists)
  BY DEF Ordered, TC!Clique, Triples
<1>. HIDE DEF O
<1>6. \A t \in Triples : <<t[1], t[3], t[2]>> \in Triples /\ <<t[2], t[1], t[3]>> \in Triples
  BY DEF Triples
<1>7. B = {t \in Triples : <<t[2], t[1], t[3]>> \in A}
  BY <1>2, <1>3, <1>4
<1>8. A2 = {t \in Triples : <<t[1], t[3], t[2]>> \in A1}
  <2>1. \A t \in O : t \in Triples /\ <<t[1], t[3], t[2]>> \in O
    BY <1>2
  <2>2. \A t \in A2 : <<t[1], t[3], t[2]>> \in A1
    BY <1>1, <2>1
  <2>3. ASSUME NEW t \in Triples, <<t[1], t[3], t[2]>> \in A1
        PROVE  t \in A2
    <3>1. t \in O /\ t[1] \in Int /\ t[2] \in Int /\ t[3] \in Int
      BY <1>1, <1>3, <2>3
    <3>2. t[1] > t[3] /\ t[3] > t[2]
      BY <2>3
    <3>. QED BY <3>1, <3>2
  <2>4. \A t \in A2 : t \in Triples
    BY <1>4
  <2>. HIDE DEF A1, A2
  <2>. QED BY <2>2, <2>3, <2>4
<1>9. A3 = {t \in Triples : <<t[1], t[3], t[2]>> \in {r \in B : r[1] > r[3]}}
  BY <1>1, <1>2, <1>3, <1>4
<1>10. {r \in B : r[1] > r[3]} = {t \in Triples : <<t[2], t[1], t[3]>> \in A1}
  BY <1>1, <1>2, <1>3, <1>4
<1>11. /\ Cardinality(B) = Cardinality(A) /\ Cardinality(A2) = Cardinality(A1)
       /\ Cardinality(A3) = Cardinality(A1)
  <2>. DEFINE C == {r \in B : r[1] > r[3]}
  <2>1. A \subseteq Triples /\ A1 \subseteq Triples /\ C \subseteq Triples
    BY <1>4
  <2>2. /\ A3 = {t \in Triples : <<t[1], t[3], t[2]>> \in C}
        /\ C = {t \in Triples : <<t[2], t[1], t[3]>> \in A1}
    BY <1>9, <1>10
  <2>. HIDE DEF A, B, A1, A2, A3, C
  <2>3. Cardinality(B) = Cardinality(A)
    BY <1>7, <2>1, SwapFirst
  <2>4. Cardinality(C) = Cardinality(A1)
    BY <2>1, <2>2, SwapFirst
  <2>5. Cardinality(A2) = Cardinality(A1)
    BY <1>8, <2>1, SwapLast
  <2>6. Cardinality(A3) = Cardinality(C)
    BY <2>1, <2>2, SwapLast
  <2>. QED BY <2>3, <2>4, <2>5, <2>6
<1>12. /\ O = A \cup B /\ A \cap B = {}
       /\ A = (A1 \cup A2) \cup A3 /\ A1 \cap A2 = {} /\ (A1 \cup A2) \cap A3 = {}
  <2>1. \A t \in O : /\ t[1] # t[2] /\ t[1] # t[3] /\ t[2] # t[3]
                     /\ t[1] \in Int /\ t[2] \in Int /\ t[3] \in Int
    BY <1>1, <1>2
  <2>. QED BY <2>1
<1>13. /\ IsFiniteSet(A) /\ IsFiniteSet(B) /\ IsFiniteSet(A1) /\ IsFiniteSet(A2)
       /\ IsFiniteSet(A1 \cup A2) /\ IsFiniteSet(A3)
  <2>1. /\ A \subseteq Triples /\ B \subseteq Triples /\ A1 \subseteq Triples
        /\ A2 \subseteq Triples /\ A1 \cup A2 \subseteq Triples /\ A3 \subseteq Triples
    BY <1>4
  <2>. HIDE DEF A, B, A1, A2, A3
  <2>. QED BY <2>1, TriplesFinite
<1>. HIDE DEF A, B, A1, A2, A3
<1>14. /\ Cardinality(O) = Cardinality(A) + Cardinality(B)
       /\ Cardinality(A) = Cardinality(A1 \cup A2) + Cardinality(A3)
       /\ Cardinality(A1 \cup A2) = Cardinality(A1) + Cardinality(A2)
       /\ Cardinality(A1) \in Nat
  <2>1. Cardinality(A \cup B) = Cardinality(A) + Cardinality(B)
    BY <1>12, <1>13, DisjointUnion
  <2>2. Cardinality((A1 \cup A2) \cup A3) = Cardinality(A1 \cup A2) + Cardinality(A3)
    BY <1>12, <1>13, DisjointUnion
  <2>3. Cardinality(A1 \cup A2) = Cardinality(A1) + Cardinality(A2)
    BY <1>12, <1>13, DisjointUnion
  <2>4. Cardinality(A1) \in Nat
    BY <1>13, FS_CardinalityType
  <2>. QED BY <1>12, <2>1, <2>2, <2>3, <2>4
<1>. QED BY <1>5, <1>11, <1>14 DEF O

(* Renumbering the vertices keeps the number of triangles.                 *)
LEMMA CliquesPlaced ==
  ASSUME NEW order \in TC!PermutationsOf(TC!V), NEW lesserFirst \in BOOLEAN,
         TC!ByDegree(order, lesserFirst), graph \in TCGraphs
  PROVE  Cardinality(TC!Clique(TC!Placed(order))) = Cardinality(TC!Clique(graph.out))
<1>. DEFINE P == TC!Placed(order)
            f == [t \in Ordered(P) |-> <<order[t[1]], order[t[2]], order[t[3]]>>]
<1>1. /\ order \in [TC!V -> TC!V] /\ graph.out \in [TC!V -> Seq(TC!V)]
      /\ TC!Mirrored(graph.out) /\ TC!Mirrored(P)
  BY PlacedMirrored, TrianglesAssumption DEF TC!Assumptions, TC!PermutationsOf, TC!IsGraph
<1>2. ASSUME NEW k \in TC!V, NEW l \in TC!V
      PROVE  l \in TC!Elems(P[k]) <=> order[l] \in TC!Elems(graph.out[order[k]])
  <2>. DEFINE s == graph.out[order[k]]
  <2>1. s \in Seq(TC!V) /\ DOMAIN s = 1 .. Len(s) /\ \A p \in DOMAIN s : s[p] \in TC!V
    BY <1>1
  <2>2. P[k] = [p \in 1 .. Len(s) |-> TC!NewId(order, s[p])]
    BY DEF TC!Placed, TC!OutDegree
  <2>. HIDE DEF s, P
  <2>3. ASSUME l \in TC!Elems(P[k]) PROVE order[l] \in TC!Elems(s)
    <3>1. PICK p \in 1 .. Len(s) : TC!NewId(order, s[p]) = l
      BY <2>2, <2>3 DEF TC!Elems
    <3>2. order[l] = s[p]
      BY <2>1, <3>1, NewIdInverse
    <3>. QED BY <2>1, <3>1, <3>2 DEF TC!Elems
  <2>4. ASSUME order[l] \in TC!Elems(s) PROVE l \in TC!Elems(P[k])
    <3>1. PICK p \in 1 .. Len(s) : s[p] = order[l]
      BY <2>1, <2>4 DEF TC!Elems
    <3>2. P[k][p] = l
      BY <2>2, <3>1, NewIdInverse
    <3>. QED BY <2>2, <3>1, <3>2 DEF TC!Elems
  <2>. QED BY <2>3, <2>4 DEF s
<1>. HIDE DEF P
<1>3. \A t \in Ordered(P) : f[t] \in Ordered(graph.out)
  BY <1>1, <1>2 DEF Ordered, Triples
<1>4. \A a, b \in TC!V : order[a] = order[b] => a = b
  BY OrderInjective
<1>5. ASSUME NEW t \in Ordered(P), NEW r \in Ordered(P), f[t] = f[r]
      PROVE  t = r
  <2>1. /\ t = <<t[1], t[2], t[3]>> /\ r = <<r[1], r[2], r[3]>>
        /\ t[1] \in TC!V /\ t[2] \in TC!V /\ t[3] \in TC!V
        /\ r[1] \in TC!V /\ r[2] \in TC!V /\ r[3] \in TC!V
    BY DEF Ordered, Triples
  <2>2. order[t[1]] = order[r[1]] /\ order[t[2]] = order[r[2]] /\ order[t[3]] = order[r[3]]
    BY <1>5
  <2>. QED BY <1>4, <2>1, <2>2
<1>6. ASSUME NEW t \in Ordered(graph.out)
      PROVE  \E r \in Ordered(P) : f[r] = t
  <2>. DEFINE a == TC!NewId(order, t[1])
              b == TC!NewId(order, t[2])
              c == TC!NewId(order, t[3])
  <2>1. /\ t = <<t[1], t[2], t[3]>>
        /\ t[1] \in TC!V /\ t[2] \in TC!V /\ t[3] \in TC!V
        /\ t[2] \in TC!Elems(graph.out[t[1]]) /\ t[3] \in TC!Elems(graph.out[t[1]])
        /\ t[3] \in TC!Elems(graph.out[t[2]])
    BY DEF Ordered, Triples
  <2>2. /\ a \in TC!V /\ b \in TC!V /\ c \in TC!V
        /\ order[a] = t[1] /\ order[b] = t[2] /\ order[c] = t[3]
    BY <2>1, NewIdInverse
  <2>. HIDE DEF a, b, c
  <2>3. <<a, b, c>> \in Ordered(P)
    BY <1>2, <2>1, <2>2 DEF Ordered, Triples
  <2>4. f[<<a, b, c>>] = t
    BY <2>1, <2>2, <2>3
  <2>. QED BY <2>3, <2>4
<1>7. IsFiniteSet(Ordered(P)) /\ f \in [Ordered(P) -> Ordered(graph.out)]
  BY <1>3, TriplesFinite DEF Ordered
<1>8. Cardinality(Ordered(graph.out)) = Cardinality(Ordered(P))
  <2>. HIDE DEF f
  <2>. QED BY <1>5, <1>6, <1>7, SameSize
<1>9. /\ Cardinality(Ordered(P)) = 6 * Cardinality(TC!Clique(P))
      /\ Cardinality(Ordered(graph.out)) = 6 * Cardinality(TC!Clique(graph.out))
  BY <1>1, SixOrders
<1>10. Cardinality(TC!Clique(P)) \in Nat /\ Cardinality(TC!Clique(graph.out)) \in Nat
  BY TriplesFinite DEF TC!Clique, Triples
<1>. QED BY <1>8, <1>9, <1>10 DEF P

(* What TCVerifier counts in one iteration of its outer loop.              *)
StartingAt(n) == {t \in Ordered(graph.out) : t[1] = n}

LEMMA InCommonOfCounts ==
  ASSUME graph \in TCGraphs, NEW n \in TC!V
  PROVE  IsFiniteSet(StartingAt(n)) /\ TC!InCommonOf(n) = Cardinality(StartingAt(n))
<1>. DEFINE s == graph.out[n]
            m == Len(s)
            f == [k \in DOMAIN s |-> TC!InCommon(s, graph.out[s[k]])]
            Both(k) == {x \in TC!V : x \in TC!Elems(s) /\ x \in TC!Elems(graph.out[s[k]])}
            S == [k \in 1 .. m |-> {t \in StartingAt(n) : t[2] = s[k]}]
<1>1. /\ graph.out \in [TC!V -> Seq(TC!V)] /\ TC!Mirrored(graph.out)
      /\ \A l \in TC!V : Ascending(graph.out[l])
  BY TrianglesAssumption
  DEF TC!Assumptions, TC!IsGraph, TC!Squished, Ascending
<1>2. /\ s \in Seq(TC!V) /\ m \in Nat /\ DOMAIN s = 1 .. m
      /\ \A k \in 1 .. m : s[k] \in TC!V
  BY <1>1
<1>3. \A x, y \in 1 .. m : s[x] = s[y] => x = y
  <2>1. \A x, y \in 1 .. m : x < y => s[x] < s[y]
    BY <1>1, <1>2 DEF Ascending
  <2>2. \A x, y \in 1 .. m : x < y \/ y < x \/ x = y
    OBVIOUS
  <2>3. \A x \in 1 .. m : s[x] \in Int
    BY <1>2, NumNodesAssumption DEF TC!V
  <2>. HIDE DEF s
  <2>. QED BY <2>1, <2>2, <2>3
<1>4. ASSUME NEW k \in 1 .. m
      PROVE  IsFiniteSet(S[k]) /\ f[k] = Cardinality(S[k]) /\ f[k] \in Nat
  <2>. DEFINE h == [x \in Both(k) |-> <<n, s[k], x>>]
  <2>0. s[k] \in TC!V /\ graph.out[s[k]] \in Seq(TC!V) /\ Ascending(graph.out[s[k]])
        /\ Ascending(s)
    BY <1>1, <1>2
  <2>1. IsFiniteSet(Both(k)) /\ f[k] = Cardinality(Both(k))
    BY <1>2, <2>0, InCommonCounts
  <2>2. S[k] = {t \in StartingAt(n) : t[2] = s[k]}
    OBVIOUS
  <2>3. s[k] \in TC!Elems(s)
    BY <1>2 DEF TC!Elems
  <2>4. \A x \in Both(k) : h[x] \in S[k]
    BY <2>0, <2>2, <2>3 DEF StartingAt, Ordered, Triples
  <2>5. \A x, y \in Both(k) : h[x] = h[y] => x = y
    OBVIOUS
  <2>6. ASSUME NEW t \in S[k] PROVE \E x \in Both(k) : h[x] = t
    <3>1. /\ t[1] = n /\ t[2] = s[k] /\ t[3] \in Both(k)
          /\ t = <<t[1], t[2], t[3]>>
      BY <2>2 DEF StartingAt, Ordered, Triples
    <3>. QED BY <3>1
  <2>7. h \in [Both(k) -> S[k]]
    BY <2>4
  <2>. HIDE DEF h, Both, S
  <2>8. IsFiniteSet(S[k]) /\ Cardinality(S[k]) = Cardinality(Both(k))
    BY <2>1, <2>5, <2>6, <2>7, SameSize
  <2>. QED BY <2>1, <2>8, FS_CardinalityType
<1>5. f \in [1 .. m -> Nat]
  <2>1. \A k \in 1 .. m : TC!InCommon(s, graph.out[s[k]]) \in Nat
    BY <1>2, <1>4
  <2>. QED BY <1>2, <2>1
<1>6. \A x, y \in 1 .. m : x # y => S[x] \cap S[y] = {}
  <2>. HIDE DEF s, m
  <2>. QED BY <1>3
<1>7. UNION {S[x] : x \in 1 .. m} = StartingAt(n)
  <2>1. \A x \in 1 .. m : \A t \in S[x] : t \in StartingAt(n)
    OBVIOUS
  <2>2. ASSUME NEW t \in StartingAt(n)
        PROVE  \E x \in 1 .. m : t \in S[x]
    <3>1. t[2] \in TC!Elems(s)
      BY DEF StartingAt, Ordered
    <3>2. PICK x \in 1 .. m : t[2] = s[x]
      BY <1>2, <3>1 DEF TC!Elems
    <3>. QED BY <3>2
  <2>. HIDE DEF S
  <2>. QED BY <2>1, <2>2
<1>8. IsFiniteSet(StartingAt(n)) /\ TC!Sum(f, m) = Cardinality(StartingAt(n))
  <2>1. m \in Nat /\ \A x \in 1 .. m : IsFiniteSet(S[x]) /\ f[x] = Cardinality(S[x])
    BY <1>2, <1>4
  <2>. HIDE DEF S, f, m
  <2>. QED BY <1>5, <1>6, <1>7, <2>1, SumOfSizes
<1>9. TC!InCommonOf(n) = TC!Sum(f, m)
  BY DEF TC!InCommonOf, TC!OutDegree
<1>. QED BY <1>8, <1>9

(* What TCVerifier counts is the number of triangles.                      *)
LEMMA CountedExact ==
  ASSUME graph \in TCGraphs
  PROVE  TC!Counted = Cardinality(TC!Clique(graph.out))
<1>. DEFINE f == [x \in 1 .. NumNodes |-> TC!InCommonOf(x - 1)]
            S == [x \in 1 .. NumNodes |-> StartingAt(x - 1)]
<1>1. /\ NumNodes \in Nat /\ TC!V = 0 .. NumNodes - 1
      /\ \A x \in 1 .. NumNodes : x - 1 \in TC!V
  BY NumNodesAssumption DEF TC!V
<1>2. \A x \in 1 .. NumNodes : IsFiniteSet(S[x]) /\ f[x] = Cardinality(S[x])
  BY <1>1, InCommonOfCounts
<1>3. \A x \in 1 .. NumNodes : f[x] \in Nat
  <2>. HIDE DEF f, S
  <2>. QED BY <1>2, FS_CardinalityType
<1>4. f \in [1 .. NumNodes -> Nat]
  BY <1>3
<1>5. \A x, y \in 1 .. NumNodes : x # y => S[x] \cap S[y] = {}
  BY <1>1 DEF StartingAt
<1>6. UNION {S[x] : x \in 1 .. NumNodes} = Ordered(graph.out)
  <2>1. \A x \in 1 .. NumNodes : \A t \in S[x] : t \in Ordered(graph.out)
    BY DEF StartingAt
  <2>2. ASSUME NEW t \in Ordered(graph.out)
        PROVE  \E x \in 1 .. NumNodes : t \in S[x]
    <3>1. t[1] \in TC!V
      BY DEF Ordered, Triples
    <3>2. t[1] + 1 \in 1 .. NumNodes /\ (t[1] + 1) - 1 = t[1]
      BY <1>1, <3>1
    <3>3. t \in S[t[1] + 1]
      BY <3>2 DEF StartingAt
    <3>. QED BY <3>2, <3>3
  <2>. HIDE DEF S
  <2>. QED BY <2>1, <2>2
<1>7. ASSUME NEW m, m = NumNodes, NEW h, h = f, NEW s, s = S, NEW all, all = Ordered(graph.out)
      PROVE  TC!Sum(h, m) = Cardinality(all)
  <2>. HIDE DEF f, S
  <2>1. m \in Nat /\ \A x \in 1 .. m : IsFiniteSet(s[x]) /\ h[x] = Cardinality(s[x])
    BY <1>1, <1>2, <1>7
  <2>2. h \in [1 .. m -> Nat]
    BY <1>4, <1>7
  <2>3. \A x, y \in 1 .. m : x # y => s[x] \cap s[y] = {}
    BY <1>5, <1>7
  <2>4. all = UNION {s[x] : x \in 1 .. m}
    BY <1>6, <1>7
  <2>5. /\ m \in Nat /\ h \in [1 .. m -> Nat]
        /\ \A x \in 1 .. m : IsFiniteSet(s[x]) /\ h[x] = Cardinality(s[x])
        /\ \A x, y \in 1 .. m : x # y => s[x] \cap s[y] = {}
        /\ all = UNION {s[x] : x \in 1 .. m}
        => IsFiniteSet(all) /\ TC!Sum(h, m) = Cardinality(all)
    BY SumOfSizes
  <2>. QED BY <2>1, <2>2, <2>3, <2>4, <2>5
<1>8. Cardinality(Ordered(graph.out)) = 6 * Cardinality(TC!Clique(graph.out))
  <2>1. TC!Mirrored(graph.out)
    BY TrianglesAssumption DEF TC!Assumptions
  <2>. QED BY <2>1, SixOrders
<1>9. Cardinality(TC!Clique(graph.out)) \in Nat
  BY TriplesFinite DEF TC!Clique, Triples
<1>10. TC!Counted = TC!Sum(f, NumNodes) \div 6
  BY DEF TC!Counted
<1>. HIDE DEF f, S
<1>11. TC!Sum(f, NumNodes) = 6 * Cardinality(TC!Clique(graph.out))
  BY <1>6, <1>7, <1>8
<1>12. \A c \in Nat : (6 * c) \div 6 = c
  OBVIOUS
<1>. QED BY <1>9, <1>10, <1>11, <1>12

(* The invariant of the count, beside ScanInv.                             *)
InLoops == control \in {"neighbour", "candidate", "scan"}
NoDuplicates(s) == \A a, b \in DOMAIN s : s[a] = s[b] => a = b

(* The lists are in order once they are sorted; a graph's own lists are    *)
(* from the start.                                                         *)
SortedInv ==
  /\ \A n \in TC!V : NoDuplicates(out[n])
  /\ \A n \in TC!V : control # "sort" \/ n \notin work => Ascending(out[n])
  /\ control = "worth" => out = graph.out /\ work = TC!V
  /\ control \in {"worth", "sort"} => sum = 0
  /\ Cardinality(TC!Clique(out)) = Cardinality(TC!Clique(graph.out))

(* The iterator has passed only what is below every candidate to come.     *)
BehindInv ==
  /\ InLoops => at \notin work
  /\ control \in {"candidate", "scan"} =>
       \A k \in DOMAIN out[TC!v] : k < it =>
         \A p \in DOMAIN out[at] : p >= wpos => out[TC!v][k] < out[at][p]
  /\ control = "done" => work = {}

CountInv == SortedInv /\ BehindInv /\ TC!TrianglesCounted

(* No vertex is twice in a list in order.                                  *)
LEMMA AscendingDistinct ==
  ASSUME NEW s \in Seq(TC!V), Ascending(s)
  PROVE  NoDuplicates(s)
<1>1. \A k \in DOMAIN s : s[k] \in Int /\ k \in Int
  BY NumNodesAssumption DEF TC!V
<1>2. \A k, l \in DOMAIN s : k < l \/ l < k \/ k = l
  BY <1>1
<1>. QED BY <1>1, <1>2 DEF Ascending, NoDuplicates

(* Sorting a list in which no vertex is twice.                             *)
LEMMA SortedAscending ==
  ASSUME NEW s \in Seq(TC!V), NoDuplicates(s), NEW p \in TC!PermutationsOf(DOMAIN s),
         NEW r, r = [k \in DOMAIN s |-> s[p[k]]], TC!InOrder(r)
  PROVE  Ascending(r) /\ NoDuplicates(r)
<1>1. p \in [DOMAIN s -> DOMAIN s] /\ TC!Elems(p) = DOMAIN s
  BY DEF TC!PermutationsOf
<1>2. DOMAIN s = 1 .. Len(s) /\ Len(s) \in Nat /\ \A k \in DOMAIN s : s[k] \in Int
  BY NumNodesAssumption DEF TC!V
<1>3. IsFiniteSet(DOMAIN s)
  BY <1>2, FS_Interval
<1>4. p \in Surjection(DOMAIN s, DOMAIN s)
  BY <1>1 DEF Surjection, TC!Elems
<1>5. p \in Injection(DOMAIN s, DOMAIN s)
  BY <1>3, <1>4, FS_Surjection
<1>6. \A k, l \in DOMAIN s : p[k] = p[l] => k = l
  BY <1>5 DEF Injection, IsInjective
<1>7. NoDuplicates(r)
  BY <1>1, <1>6 DEF NoDuplicates
<1>8. DOMAIN r = DOMAIN s /\ \A k \in DOMAIN r : r[k] \in Int /\ k \in Int
  BY <1>1, <1>2
<1>. QED BY <1>7, <1>8 DEF NoDuplicates, TC!InOrder, Ascending

(* Nor in a renumbered list, which is not in order yet.                    *)
LEMMA PlacedDistinct ==
  ASSUME NEW order \in TC!PermutationsOf(TC!V), NEW lesserFirst \in BOOLEAN,
         TC!ByDegree(order, lesserFirst), graph \in TCGraphs, NEW k \in TC!V
  PROVE  NoDuplicates(TC!Placed(order)[k])
<1>. DEFINE s == graph.out[order[k]]
<1>1. order \in [TC!V -> TC!V] /\ graph.out \in [TC!V -> Seq(TC!V)] /\ TC!Squished(graph.out)
  BY TrianglesAssumption DEF TC!Assumptions, TC!PermutationsOf, TC!IsGraph
<1>2. s \in Seq(TC!V) /\ DOMAIN s = 1 .. Len(s) /\ \A p \in DOMAIN s : s[p] \in TC!V
  BY <1>1
<1>3. Ascending(s)
  BY <1>1 DEF TC!Squished, Ascending
<1>4. TC!Placed(order)[k] = [p \in 1 .. Len(s) |-> TC!NewId(order, s[p])]
  BY DEF TC!Placed, TC!OutDegree
<1>5. \A m, n \in TC!V : TC!NewId(order, m) = TC!NewId(order, n) => m = n
  BY NewIdInverse
<1>6. NoDuplicates(s)
  BY <1>2, <1>3, AscendingDistinct
<1>. HIDE DEF s
<1>. QED BY <1>2, <1>4, <1>5, <1>6 DEF NoDuplicates

(* The triangles do not depend on the order of the lists.                  *)
LEMMA SameCliques ==
  ASSUME NEW a, NEW b, \A n \in TC!V : TC!Elems(a[n]) = TC!Elems(b[n])
  PROVE  TC!Clique(a) = TC!Clique(b)
BY DEF TC!Clique

(* The steps up to the count.                                              *)
LEMMA SortedStep ==
  ASSUME TC!ScanInv, SortedInv, [TC!Next]_(TC!vars)
  PROVE  SortedInv'
<1>. USE DEF TC!loop
<1>0. TC!TypeOK /\ TC!Mirrored(out) /\ graph \in TCGraphs /\ out \in [TC!V -> Seq(TC!V)]
      /\ work \subseteq TC!V
  BY DEF TC!ScanInv, TC!TypeOK
<1>1. CASE TC!Relabel
  <2>1. PICK order \in TC!PermutationsOf(TC!V), lesserFirst \in BOOLEAN :
          TC!ByDegree(order, lesserFirst) /\ out' = TC!Placed(order)
    BY <1>1 DEF TC!Relabel
  <2>2. \A n \in TC!V : NoDuplicates(out'[n])
    BY <1>0, <2>1, PlacedDistinct
  <2>3. Cardinality(TC!Clique(out')) = Cardinality(TC!Clique(graph.out))
    BY <1>0, <2>1, CliquesPlaced
  <2>4. /\ control = "worth" /\ control' = "sort" /\ graph' = graph /\ work' = work
        /\ sum' = sum
    BY <1>1 DEF TC!Relabel
  <2>. QED BY <2>2, <2>3, <2>4 DEF SortedInv
<1>2. CASE TC!SortNeighbours
  <2>1. PICK n \in work : \E p \in TC!PermutationsOf(DOMAIN out[n]) :
          LET sorted == [k \in DOMAIN out[n] |-> out[n][p[k]]]
          IN  /\ TC!InOrder(sorted) /\ out' = [out EXCEPT ![n] = sorted]
              /\ work' = work \ {n}
    BY <1>2 DEF TC!SortNeighbours
  <2>2. PICK p \in TC!PermutationsOf(DOMAIN out[n]) :
          LET sorted == [k \in DOMAIN out[n] |-> out[n][p[k]]]
          IN  /\ TC!InOrder(sorted) /\ out' = [out EXCEPT ![n] = sorted]
              /\ work' = work \ {n}
    BY <2>1
  <2>. DEFINE r == [k \in DOMAIN out[n] |-> out[n][p[k]]]
  <2>3. n \in TC!V /\ out[n] \in Seq(TC!V) /\ NoDuplicates(out[n])
    BY <1>0 DEF SortedInv
  <2>4. /\ TC!InOrder(r) /\ out' = [out EXCEPT ![n] = r] /\ work' = work \ {n}
        /\ out'[n] = r /\ \A m \in TC!V : m # n => out'[m] = out[m]
    BY <1>0, <2>2, <2>3
  <2>5. Ascending(r) /\ NoDuplicates(r) /\ TC!Elems(r) = TC!Elems(out[n])
    BY <2>3, <2>4, SortedAscending, PermutedElems
  <2>6. control = "sort" /\ control' = "sort" /\ graph' = graph /\ sum' = sum
    BY <1>2 DEF TC!SortNeighbours
  <2>. HIDE DEF r
  <2>7. \A m \in TC!V : TC!Elems(out'[m]) = TC!Elems(out[m])
    BY <2>4, <2>5
  <2>8. TC!Clique(out') = TC!Clique(out)
    BY <2>7, SameCliques
  <2>9. \A m \in TC!V : NoDuplicates(out'[m])
    BY <2>4, <2>5 DEF SortedInv
  <2>10. \A m \in TC!V : m \notin work' => Ascending(out'[m])
    BY <2>4, <2>5, <2>6 DEF SortedInv
  <2>. QED BY <2>6, <2>8, <2>9, <2>10 DEF SortedInv
<1>3. CASE TC!CountDirectly
  BY <1>3 DEF TC!CountDirectly, SortedInv
<1>4. CASE TC!EndSort
  BY <1>4 DEF TC!EndSort, SortedInv
<1>5. CASE \/ TC!NextVertex \/ TC!NextNeighbour \/ TC!EndVertex \/ TC!NextCandidate
           \/ TC!EndCandidates \/ TC!Advance \/ TC!Match \/ TC!Return
  <2>1. /\ out' = out /\ graph' = graph
        /\ control \notin {"worth", "sort"} /\ control' \notin {"worth", "sort"}
    BY <1>5 DEF TC!NextVertex, TC!NextNeighbour, TC!EndVertex, TC!NextCandidate,
                TC!EndCandidates, TC!Advance, TC!Match, TC!Return
  <2>. QED BY <2>1 DEF SortedInv
<1>6. CASE TC!Done \/ UNCHANGED TC!vars
  BY <1>6 DEF TC!Done, TC!vars, SortedInv
<1>. QED
  BY <1>1, <1>2, <1>3, <1>4, <1>5, <1>6 DEF TC!Next

(* The word of Triangles for the size of a set means what the library has. *)
LEMMA SameCardinality == \A S : TC!Cardinality(S) = Cardinality(S)
BY DEF TC!Cardinality, Cardinality

(* What a step that passes no triangle leaves to show.                     *)
LEMMA SamePassed ==
  ASSUME out' = out, sum' = sum, control \notin {"worth", "sort"}, TC!TrianglesCounted,
         \A t \in TC!Clique(out) : TC!Passed(t)' <=> TC!Passed(t)
  PROVE  TC!TrianglesCounted'
<1>1. {t \in TC!Clique(out') : TC!Passed(t)'} = {t \in TC!Clique(out) : TC!Passed(t)}
  OBVIOUS
<1>. QED BY <1>1 DEF TC!TrianglesCounted

(* At the start of the count nothing is passed.                            *)
LEMMA NonePassed ==
  ASSUME sum' = 0, control' = "count", work' = TC!V
  PROVE  TC!TrianglesCounted'
<1>1. \A t \in TC!Clique(out') : t[1] \in TC!V
  BY DEF TC!Clique
<1>2. {t \in TC!Clique(out') : TC!Passed(t)'} = {}
  BY <1>1 DEF TC!Passed
<1>3. TC!Cardinality({}) = 0
  BY FS_EmptySet, SameCardinality
<1>. QED BY <1>2, <1>3 DEF TC!TrianglesCounted

(* While triangles are counted all lists are in order.                     *)
LEMMA InLists ==
  ASSUME TC!ScanInv, SortedInv, control \notin {"worth", "sort"}
  PROVE  /\ out \in [TC!V -> Seq(TC!V)] /\ TC!Mirrored(out)
         /\ at \in TC!V /\ work \subseteq TC!V
         /\ vpos \in Nat /\ wpos \in Nat /\ it \in Nat /\ sum \in Nat
         /\ \A n \in TC!V : n \in Int
         /\ \A n \in TC!V : /\ out[n] \in Seq(TC!V) /\ DOMAIN out[n] = 1 .. Len(out[n])
                            /\ Len(out[n]) \in Nat
                            /\ \A k \in DOMAIN out[n] : out[n][k] \in TC!V
                            /\ \A k, l \in DOMAIN out[n] : k < l => out[n][k] < out[n][l]
<1>1. /\ out \in [TC!V -> Seq(TC!V)] /\ TC!Mirrored(out)
      /\ at \in TC!V /\ work \subseteq TC!V
      /\ vpos \in Nat /\ wpos \in Nat /\ it \in Nat /\ sum \in Nat
  BY DEF TC!ScanInv, TC!TypeOK
<1>2. \A n \in TC!V : n \in Int
  BY NumNodesAssumption DEF TC!V
<1>3. \A n \in TC!V : out[n] \in Seq(TC!V) /\ Ascending(out[n])
  BY <1>1 DEF SortedInv
<1>4. ASSUME NEW n \in TC!V
      PROVE  /\ out[n] \in Seq(TC!V) /\ DOMAIN out[n] = 1 .. Len(out[n])
             /\ Len(out[n]) \in Nat
             /\ \A k \in DOMAIN out[n] : out[n][k] \in TC!V
             /\ \A k, l \in DOMAIN out[n] : k < l => out[n][k] < out[n][l]
  BY <1>3 DEF Ascending
<1>. QED BY <1>1, <1>2, <1>4

(* A place in the list of u.                                               *)
LEMMA ListOfVertex ==
  ASSUME TC!ScanInv, SortedInv, control \notin {"worth", "sort"}, NEW p \in DOMAIN out[at]
  PROVE  /\ DOMAIN out[at] = 1 .. Len(out[at]) /\ Len(out[at]) \in Nat
         /\ p \in Nat /\ p >= 1 /\ p <= Len(out[at]) /\ out[at][p] \in Int /\ at \in Int
<1>1. /\ at \in Int /\ DOMAIN out[at] = 1 .. Len(out[at]) /\ Len(out[at]) \in Nat
      /\ out[at][p] \in Int
  BY InLists
<1>. QED BY <1>1

(* The vertices of a triangle are at places of one another's lists.        *)
LEMMA CliqueFacts ==
  ASSUME TC!ScanInv, SortedInv, control \notin {"worth", "sort"}, NEW t \in TC!Clique(out)
  PROVE  /\ t[1] \in TC!V /\ t[2] \in TC!V /\ t[3] \in TC!V
         /\ t[1] > t[2] /\ t[2] > t[3]
         /\ t = <<t[1], t[2], t[3]>>
         /\ \E p \in DOMAIN out[t[1]] : out[t[1]][p] = t[2]
         /\ \E p \in DOMAIN out[t[1]] : out[t[1]][p] = t[3]
         /\ \E p \in DOMAIN out[t[2]] : out[t[2]][p] = t[3]
BY DEF TC!Clique, TC!Elems

(* A match is a triangle that no step has passed before, and the only one  *)
(* the loop passes with this w.                                            *)
LEMMA MatchStep ==
  ASSUME TC!ScanInv, SortedInv, BehindInv, TC!TrianglesCounted, TC!Match
  PROVE  BehindInv' /\ TC!TrianglesCounted'
<1>. DEFINE found == <<at, TC!v, TC!w>>
            Seen == {t \in TC!Clique(out) : TC!Passed(t)}
<1>1. /\ control = "scan" /\ it \in DOMAIN out[TC!v] /\ out[TC!v][it] >= TC!w
      /\ sum' = (IF out[TC!v][it] = TC!w THEN sum + 1 ELSE sum)
      /\ wpos' = wpos + 1 /\ control' = "candidate"
      /\ out' = out /\ work' = work /\ at' = at /\ vpos' = vpos /\ it' = it
  BY DEF TC!Match
<1>2. TC!v' = TC!v
  BY <1>1 DEF TC!v
<1>3. /\ vpos \in DOMAIN out[at] /\ wpos \in DOMAIN out[at] /\ TC!w <= TC!v /\ TC!v < at
      /\ wpos >= 1
  BY <1>1 DEF TC!ScanInv, TC!ScanStaysInList
<1>4. /\ at \in TC!V /\ TC!v \in TC!V /\ TC!w \in TC!V /\ sum \in Nat
      /\ TC!v = out[at][vpos] /\ TC!w = out[at][wpos]
      /\ TC!v \in Int /\ TC!w \in Int /\ at \in Int
      /\ vpos \in Nat /\ wpos \in Nat /\ it \in Nat /\ at \notin work
  BY <1>1, <1>3, InLists DEF TC!v, TC!w, BehindInv, InLoops
<1>5. BehindInv'
  <2>1. \A p \in DOMAIN out[at] : p >= wpos + 1 => p >= wpos
    BY <1>1, <1>4, ListOfVertex
  <2>. QED BY <1>1, <1>2, <2>1 DEF BehindInv, InLoops
<1>6. found \in TC!Clique(out) <=> out[TC!v][it] = TC!w
  <2>1. \A k \in DOMAIN out[TC!v] : /\ k \in Nat /\ out[TC!v][k] \in Int
                                    /\ it < k => out[TC!v][it] < out[TC!v][k]
    <3>1. DOMAIN out[TC!v] = 1 .. Len(out[TC!v])
      BY <1>1, <1>4, InLists
    <3>2. \A k \in DOMAIN out[TC!v] : out[TC!v][k] \in TC!V /\ k \in Nat
      BY <1>1, <1>4, <3>1, InLists
    <3>3. \A k \in DOMAIN out[TC!v] : it < k => out[TC!v][it] < out[TC!v][k]
      BY <1>1, <1>4, InLists
    <3>. QED BY <1>1, <3>2, <3>3, InLists
  <2>2. \A k \in DOMAIN out[TC!v] : k < it => out[TC!v][k] < TC!w
    BY <1>1, <1>3, <1>4 DEF BehindInv
  <2>3. ASSUME found \in TC!Clique(out) PROVE out[TC!v][it] = TC!w
    <3>1. PICK k \in DOMAIN out[TC!v] : out[TC!v][k] = TC!w
      BY <1>1, <2>3, CliqueFacts
    <3>2. /\ TC!w \in Int /\ k \in Nat /\ it \in Nat
          /\ out[TC!v][it] \in Int /\ out[TC!v][it] >= TC!w
      BY <1>1, <1>4, <2>1
    <3>3. ~(k < it)
      BY <2>2, <3>1, <3>2
    <3>4. ~(k > it)
      <4>1. k > it => TC!w > out[TC!v][it]
        BY <2>1, <3>1
      <4>. QED BY <3>2, <4>1
    <3>5. k = it
      BY <3>2, <3>3, <3>4
    <3>. QED BY <3>1, <3>5
  <2>4. ASSUME out[TC!v][it] = TC!w PROVE found \in TC!Clique(out)
    <3>1. TC!w \in TC!Elems(out[TC!v])
      BY <1>1, <2>4 DEF TC!Elems
    <3>2. TC!w # TC!v
      BY <1>1, <1>4, <3>1, InLists DEF TC!Mirrored
    <3>3. TC!v \in TC!Elems(out[at]) /\ TC!w \in TC!Elems(out[at])
      BY <1>3, <1>4 DEF TC!Elems
    <3>. QED BY <1>3, <1>4, <3>1, <3>2, <3>3 DEF TC!Clique
  <2>. QED BY <2>3, <2>4
<1>7. ~TC!Passed(found)
  <2>1. \A p \in DOMAIN out[at] : /\ p \in Nat
                                  /\ out[at][p] = TC!v => p = vpos
                                  /\ out[at][p] = TC!w => p = wpos
    <3>1. NoDuplicates(out[at])
      BY <1>4 DEF SortedInv
    <3>. QED BY <1>1, <1>3, <1>4, <3>1, ListOfVertex DEF NoDuplicates
  <2>2. ~TC!Before(vpos, TC!v) /\ ~TC!Before(wpos, TC!w)
    BY <1>4, <2>1 DEF TC!Before
  <2>. QED BY <1>1, <1>4, <2>2 DEF TC!Passed
<1>8. ASSUME NEW t \in TC!Clique(out)
      PROVE  TC!Passed(t)' <=> TC!Passed(t) \/ t = found
  <2>1. TC!Before(wpos + 1, t[3]) <=> TC!Before(wpos, t[3]) \/ t[3] = TC!w
    <3>1. \A p : p \in 1 .. (wpos + 1) - 1 <=> p \in 1 .. wpos - 1 \/ p = wpos
      BY <1>3, <1>4
    <3>. QED BY <1>3, <1>4, <3>1 DEF TC!Before
  <2>2. /\ TC!Before(wpos, t[3])' <=> TC!Before(wpos + 1, t[3])
        /\ TC!Before(vpos, t[2])' <=> TC!Before(vpos, t[2])
    BY <1>1 DEF TC!Before
  <2>3. t = found <=> t[1] = at /\ t[2] = TC!v /\ t[3] = TC!w
    BY <1>1, CliqueFacts
  <2>. HIDE DEF found
  <2>. QED BY <1>1, <1>2, <1>4, <2>1, <2>2, <2>3 DEF TC!Passed
<1>9. IsFiniteSet(Seen) /\ Cardinality(Seen) \in Nat
  BY TriplesFinite DEF TC!Clique, Triples
<1>10. sum = Cardinality(Seen)
  BY <1>1, SameCardinality DEF TC!TrianglesCounted
<1>11. sum' = Cardinality({t \in TC!Clique(out) : TC!Passed(t)'})
  <2>. HIDE DEF found
  <2>1. CASE out[TC!v][it] = TC!w
    <3>1. {t \in TC!Clique(out) : TC!Passed(t)'} = Seen \cup {found}
      BY <1>6, <1>8, <2>1
    <3>2. found \notin Seen
      BY <1>7
    <3>. HIDE DEF Seen
    <3>3. Cardinality(Seen \cup {found}) = Cardinality(Seen) + 1
      BY <1>9, <3>2, FS_AddElement
    <3>. QED BY <1>1, <1>10, <2>1, <3>1, <3>3
  <2>2. CASE out[TC!v][it] # TC!w
    <3>1. {t \in TC!Clique(out) : TC!Passed(t)'} = Seen
      BY <1>6, <1>8, <2>2
    <3>. HIDE DEF Seen
    <3>. QED BY <1>1, <1>10, <2>2, <3>1
  <2>. QED BY <2>1, <2>2
<1>12. TC!TrianglesCounted'
  BY <1>1, <1>11, SameCardinality DEF TC!TrianglesCounted
<1>. QED BY <1>5, <1>12

(* The loops: a step other than a match passes no triangle, because lists  *)
(* are in order and what an early exit leaves out is above u or above v.   *)
LEMMA CountStep ==
  ASSUME TC!ScanInv, CountInv, [TC!Next]_(TC!vars)
  PROVE  BehindInv' /\ TC!TrianglesCounted'
<1>. USE DEF TC!loop
<1>0. SortedInv /\ BehindInv /\ TC!TrianglesCounted
  BY DEF CountInv
<1>1. CASE TC!CountDirectly \/ TC!EndSort
  <2>1. sum' = 0 /\ control' = "count" /\ work' = TC!V
    BY <1>0, <1>1 DEF TC!CountDirectly, TC!EndSort, SortedInv
  <2>. QED BY <2>1, NonePassed DEF BehindInv, InLoops
<1>2. CASE TC!Relabel \/ TC!SortNeighbours
  BY <1>2 DEF TC!Relabel, TC!SortNeighbours, BehindInv, InLoops, TC!TrianglesCounted
<1>3. CASE TC!NextVertex
  <2>1. PICK n \in work : at' = n /\ work' = work \ {n}
    BY <1>3 DEF TC!NextVertex
  <2>2. /\ control = "count" /\ control' = "neighbour" /\ vpos' = 1 /\ out' = out /\ sum' = sum
    BY <1>3 DEF TC!NextVertex
  <2>3. \A t \in TC!Clique(out) : TC!Passed(t)' <=> TC!Passed(t)
    BY <2>1, <2>2 DEF TC!Passed, TC!Before
  <2>. QED BY <1>0, <2>1, <2>2, <2>3, SamePassed DEF BehindInv, InLoops
<1>4. CASE TC!NextNeighbour
  <2>1. /\ control = "neighbour" /\ control' = "candidate" /\ out' = out /\ sum' = sum
        /\ wpos' = 1 /\ it' = 1 /\ vpos' = vpos /\ at' = at /\ work' = work
    BY <1>4 DEF TC!NextNeighbour
  <2>2. \A t \in TC!Clique(out) : TC!Passed(t)' <=> TC!Passed(t)
    BY <2>1 DEF TC!Passed, TC!Before
  <2>3. \A k \in DOMAIN out[TC!v] : ~(k < 1)
    <3>1. TC!v \in TC!V
      BY <1>4, Types DEF TC!NextNeighbour, TC!Lower, TC!ScanInv, TC!TypeOK, TC!v
    <3>2. DOMAIN out[TC!v] = 1 .. Len(out[TC!v])
      BY <1>0, <2>1, <3>1, InLists
    <3>. QED BY <3>2
  <2>4. TC!v' = TC!v
    BY <2>1 DEF TC!v
  <2>. QED BY <1>0, <2>1, <2>2, <2>3, <2>4, SamePassed DEF BehindInv, InLoops
<1>5. CASE TC!EndVertex
  <2>1. /\ control = "neighbour" /\ control' = "count" /\ out' = out /\ sum' = sum
        /\ work' = work /\ ~TC!Lower
    BY <1>5 DEF TC!EndVertex
  <2>2. vpos >= 1
    BY <2>1 DEF TC!ScanInv
  <2>3. ASSUME NEW t \in TC!Clique(out), t[1] = at
        PROVE  TC!Before(vpos, t[2])
    <3>1. PICK p \in DOMAIN out[at] : out[at][p] = t[2]
      BY <1>0, <2>1, <2>3, CliqueFacts
    <3>2. /\ t[2] < at /\ vpos \in Nat /\ p \in Nat /\ p >= 1 /\ p <= Len(out[at])
          /\ Len(out[at]) \in Nat
          /\ DOMAIN out[at] = 1 .. Len(out[at]) /\ at \in Int /\ t[2] \in Int
      <4>1. t[2] < at
        BY <1>0, <2>1, <2>3, CliqueFacts
      <4>2. vpos \in Nat
        BY <1>0, <2>1, InLists
      <4>. QED BY <1>0, <2>1, <3>1, <4>1, <4>2, ListOfVertex
    <3>3. ASSUME vpos <= p PROVE FALSE
      <4>1. vpos \in DOMAIN out[at] /\ vpos <= Len(out[at])
        BY <2>2, <3>2, <3>3
      <4>2. out[at][vpos] \in Int /\ (vpos < p => out[at][vpos] < out[at][p])
        BY <1>0, <2>1, <4>1, InLists
      <4>3. out[at][vpos] <= out[at][p]
        BY <3>1, <3>2, <3>3, <4>2
      <4>. QED BY <2>1, <3>1, <3>2, <4>1, <4>2, <4>3 DEF TC!Lower, TC!v
    <3>4. p \in 1 .. vpos - 1
      BY <3>2, <3>3
    <3>. QED BY <3>1, <3>4 DEF TC!Before
  <2>4. \A t \in TC!Clique(out) : TC!Passed(t)' <=> TC!Passed(t)
    BY <2>1, <2>3 DEF TC!Passed
  <2>. QED BY <1>0, <2>1, <2>4, SamePassed DEF BehindInv, InLoops
<1>6. CASE TC!NextCandidate
  <2>1. /\ control = "candidate" /\ control' = "scan" /\ out' = out /\ sum' = sum
        /\ wpos' = wpos /\ it' = it /\ vpos' = vpos /\ at' = at /\ work' = work
    BY <1>6 DEF TC!NextCandidate
  <2>2. TC!v' = TC!v
    BY <2>1 DEF TC!v
  <2>3. \A t \in TC!Clique(out) : TC!Passed(t)' <=> TC!Passed(t)
    BY <2>1, <2>2 DEF TC!Passed, TC!Before
  <2>. QED BY <1>0, <2>1, <2>2, <2>3, SamePassed DEF BehindInv, InLoops
<1>7. CASE TC!EndCandidates
  <2>1. /\ control = "candidate" /\ control' = "neighbour" /\ out' = out /\ sum' = sum
        /\ vpos' = vpos + 1 /\ at' = at /\ work' = work
        /\ ~(wpos <= Len(out[at]) /\ TC!w <= TC!v)
    BY <1>7 DEF TC!EndCandidates
  <2>2. /\ vpos >= 1 /\ wpos >= 1 /\ vpos \in DOMAIN out[at] /\ vpos \in Nat /\ wpos \in Nat
        /\ TC!v = out[at][vpos] /\ at \in TC!V /\ TC!v \in Int
    <3>1. /\ vpos >= 1 /\ wpos >= 1 /\ vpos \in DOMAIN out[at]
      BY <2>1 DEF TC!ScanInv, TC!ScanStaysInList
    <3>. QED BY <1>0, <2>1, <3>1, InLists DEF TC!v
  <2>3. ASSUME NEW t \in TC!Clique(out), t[1] = at, t[2] = TC!v
        PROVE  TC!Before(wpos, t[3])
    <3>1. PICK p \in DOMAIN out[at] : out[at][p] = t[3]
      BY <1>0, <2>1, <2>3, CliqueFacts
    <3>2. /\ t[3] < TC!v /\ wpos \in Nat /\ p \in Nat /\ p >= 1 /\ p <= Len(out[at])
          /\ Len(out[at]) \in Nat
          /\ DOMAIN out[at] = 1 .. Len(out[at]) /\ t[3] \in Int
      <4>1. t[3] < TC!v
        BY <1>0, <2>1, <2>3, CliqueFacts
      <4>. QED BY <1>0, <2>1, <2>2, <3>1, <4>1, ListOfVertex
    <3>3. ASSUME wpos <= p PROVE FALSE
      <4>1. wpos \in DOMAIN out[at] /\ wpos <= Len(out[at])
        BY <2>2, <3>2, <3>3
      <4>2. out[at][wpos] \in Int /\ (wpos < p => out[at][wpos] < out[at][p])
        BY <1>0, <2>1, <2>2, <4>1, InLists
      <4>3. out[at][wpos] <= out[at][p]
        BY <3>1, <3>2, <3>3, <4>2
      <4>. QED BY <2>1, <2>2, <3>1, <3>2, <4>1, <4>2, <4>3 DEF TC!w
    <3>4. p \in 1 .. wpos - 1
      BY <3>2, <3>3
    <3>. QED BY <3>1, <3>4 DEF TC!Before
  <2>4. ASSUME NEW t \in TC!Clique(out)
        PROVE  TC!Before(vpos + 1, t[2]) <=> TC!Before(vpos, t[2]) \/ t[2] = TC!v
    <3>1. \A p : p \in 1 .. (vpos + 1) - 1 <=> p \in 1 .. vpos - 1 \/ p = vpos
      BY <2>2
    <3>. QED BY <2>2, <3>1 DEF TC!Before
  <2>5. ASSUME NEW t \in TC!Clique(out)
        PROVE  TC!Before(vpos, t[2])' <=> TC!Before(vpos + 1, t[2])
    BY <2>1 DEF TC!Before
  <2>6. ASSUME NEW t \in TC!Clique(out)
        PROVE  TC!Passed(t)' <=> TC!Passed(t)
    BY <2>1, <2>3, <2>4, <2>5 DEF TC!Passed
  <2>. QED BY <1>0, <2>1, <2>6, SamePassed DEF BehindInv, InLoops
<1>8. CASE TC!Advance
  <2>1. /\ control = "scan" /\ it \in DOMAIN out[TC!v] /\ out[TC!v][it] < TC!w
        /\ it' = it + 1 /\ control' = control /\ out' = out /\ sum' = sum
        /\ wpos' = wpos /\ vpos' = vpos /\ at' = at /\ work' = work
    BY <1>8 DEF TC!Advance
  <2>2. TC!v' = TC!v
    BY <2>1 DEF TC!v
  <2>3. \A t \in TC!Clique(out) : TC!Passed(t)' <=> TC!Passed(t)
    BY <2>1, <2>2 DEF TC!Passed, TC!Before
  <2>4. wpos \in DOMAIN out[at] /\ vpos \in DOMAIN out[at]
    BY <2>1 DEF TC!ScanInv, TC!ScanStaysInList
  <2>5. /\ at \in TC!V /\ TC!v \in TC!V /\ it \in Nat
        /\ DOMAIN out[TC!v] = 1 .. Len(out[TC!v])
        /\ \A k \in DOMAIN out[TC!v] : out[TC!v][k] \in Int
    BY <1>0, <2>1, <2>4, InLists DEF TC!v
  <2>6. ASSUME NEW k \in DOMAIN out[TC!v], k < it + 1,
               NEW p \in DOMAIN out[at], p >= wpos
        PROVE  out[TC!v][k] < out[at][p]
    <3>1. CASE k < it
      BY <1>0, <2>1, <2>6, <3>1 DEF BehindInv
    <3>2. CASE k = it
      <4>1. wpos < p => out[at][wpos] < out[at][p]
        BY <1>0, <2>1, <2>4, <2>5, InLists
      <4>2. p \in Nat /\ wpos \in Nat /\ out[at][p] \in Int /\ out[at][wpos] \in Int
        BY <1>0, <2>1, <2>4, ListOfVertex
      <4>3. out[at][wpos] <= out[at][p]
        BY <2>6, <4>1, <4>2
      <4>. QED BY <2>1, <2>5, <3>2, <4>2, <4>3 DEF TC!w
    <3>3. k \in Nat
      BY <2>5
    <3>. QED BY <2>5, <2>6, <3>1, <3>2, <3>3
  <2>. QED BY <1>0, <2>1, <2>2, <2>3, <2>6, SamePassed DEF BehindInv, InLoops
<1>9. CASE TC!Match
  BY <1>0, <1>9, MatchStep
<1>10. CASE TC!Return
  <2>1. /\ control = "count" /\ control' = "done" /\ out' = out /\ sum' = sum
        /\ work = {} /\ work' = work
    BY <1>10 DEF TC!Return
  <2>2. \A t \in TC!Clique(out) : TC!Passed(t)' <=> TC!Passed(t)
    BY <2>1 DEF TC!Passed
  <2>. QED BY <1>0, <2>1, <2>2, SamePassed DEF BehindInv, InLoops
<1>11. CASE TC!Done \/ UNCHANGED TC!vars
  <2>1. /\ control' = control /\ out' = out /\ sum' = sum /\ work' = work /\ at' = at
        /\ vpos' = vpos /\ wpos' = wpos /\ it' = it
    BY <1>11 DEF TC!Done, TC!vars
  <2>2. TC!v' = TC!v
    BY <2>1 DEF TC!v
  <2>3. \A t \in TC!Clique(out) : TC!Passed(t)' <=> TC!Passed(t)
    BY <2>1, <2>2 DEF TC!Passed, TC!Before
  <2>4. TC!TrianglesCounted'
    <3>1. CASE control \in {"worth", "sort"}
      BY <2>1, <3>1 DEF TC!TrianglesCounted
    <3>. QED BY <1>0, <2>1, <2>3, <3>1, SamePassed
  <2>. QED BY <1>0, <2>1, <2>2, <2>4 DEF BehindInv, InLoops
<1>. QED
  BY <1>1, <1>2, <1>3, <1>4, <1>5, <1>6, <1>7, <1>8, <1>9, <1>10, <1>11 DEF TC!Next

(* Nothing is counted at the start.                                        *)
LEMMA InitCount == TC!Init => CountInv
<1>. SUFFICES ASSUME TC!Init PROVE CountInv
  OBVIOUS
<1>1. /\ graph \in TCGraphs /\ out = graph.out /\ control = "worth" /\ work = TC!V
      /\ sum = 0
  BY DEF TC!Init
<1>2. graph.out \in [TC!V -> Seq(TC!V)] /\ TC!Squished(graph.out)
  BY <1>1, TrianglesAssumption DEF TC!Assumptions, TC!IsGraph
<1>3. \A n \in TC!V : graph.out[n] \in Seq(TC!V) /\ Ascending(graph.out[n])
  BY <1>2 DEF TC!Squished, Ascending
<1>4. \A n \in TC!V : NoDuplicates(graph.out[n])
  BY <1>3, AscendingDistinct
<1>. QED BY <1>1, <1>3, <1>4
       DEF CountInv, SortedInv, BehindInv, InLoops, TC!TrianglesCounted
-----------------------------------------------------------------------------
(***************************************************************************)
(* The invariant of the verifiers.  The neighbours in hand are of the      *)
(* vertex taken from the list last.                                        *)
(***************************************************************************)
ShapeInv ==
  /\ VF!TypeOK /\ NoDuplicates(list)
  /\ kernel = "cc" => result \in [VF!V -> VF!V] /\ stage # "check"
  /\ kernel = "bfs" => stage # "labels"
  /\ stage = "labels" => nbrs = <<>>
  /\ stage = "search" /\ nbrs # <<>> =>
       /\ next \in 2 .. Len(list) + 1 /\ at = list[next - 1]
       /\ \A i \in DOMAIN nbrs : nbrs[i] \in VF!Elems(VF!Neighbours(at))

(* A vertex has a depth when it is in the list, below its position there.  *)
DepthInv ==
  kernel = "bfs" =>
    /\ \A n \in VF!V : depth[n] # -1 <=> n \in VF!Elems(list)
    /\ \A i \in DOMAIN list : depth[list[i]] < i

(* The list of a search holds visited vertices of its label.               *)
SearchInv ==
  kernel = "cc" /\ stage = "search" =>
    /\ label \notin labels
    /\ \A i \in DOMAIN list : list[i] \in visited /\ result[list[i]] = label

(* The vertices visited under one label are connected, and are of labels a *)
(* search was started for; every such label has some.                      *)
VisitedInv ==
  kernel = "cc" =>
    /\ \A m, n \in visited : result[m] = result[n] => VF!Connected(graph, m, n)
    /\ \A n \in visited : result[n] \notin labels
    /\ \A n \in VF!V : result[n] \notin labels => \E m \in visited : result[m] = result[n]

(* The search has yet to compare n with its neighbour m.                   *)
Pending(n, m) ==
  /\ stage = "search"
  /\ \/ \E i \in DOMAIN list : i >= next /\ list[i] = n
     \/ at = n /\ m \in VF!Elems(nbrs)

ClosedInv ==
  kernel = "cc" /\ stage \in {"labels", "search"} =>
    \A n \in visited : \A m \in VF!Elems(VF!Neighbours(n)) :
      (m \in visited /\ result[m] = result[n]) \/ Pending(n, m)

VerdictInv ==
  kernel = "cc" /\ VF!Judged => (stage = "accepted" <=> VF!IsLabelling)

IInv == ShapeInv /\ DepthInv /\ SearchInv /\ VisitedInv /\ ClosedInv /\ VerdictInv
-----------------------------------------------------------------------------
(* The verifiers' words for graphs mean what the proofs about graphs mean. *)
LEMMA SameWords ==
  /\ VF!V = V /\ VF!Unreachable = Unreachable
  /\ \A s : VF!Elems(s) = Elems(s)
  /\ \A gr : (VF!IsGraph(gr) <=> IsGraph(gr)) /\ VF!Edges(gr) = Edges(gr)
  /\ \A gr, s : VF!Depth(gr, s) = Depth(gr, s)
  /\ \A gr, a, b : VF!Connected(gr, a, b) <=> Connected(gr, a, b)
<1>1. VF!V = V /\ VF!Unreachable = Unreachable
  BY DEF VF!V, V, VF!Unreachable, Unreachable
<1>2. \A s : VF!Elems(s) = Elems(s)
  BY DEF VF!Elems, Elems
<1>3. \A gr : VF!IsGraph(gr) <=> IsGraph(gr)
  BY DEF VF!IsGraph, IsGraph, VF!V, V, VF!Elems, Elems
<1>4. \A gr : VF!Edges(gr) = Edges(gr)
  BY DEF VF!Edges, Edges, VF!V, V, VF!Elems, Elems
<1>5. \A gr, s : VF!Depth(gr, s) = Depth(gr, s)
  BY DEF VF!Depth, Depth, VF!Ball, Ball, VF!Unreachable, Unreachable, VF!V, V, VF!Elems, Elems
<1>6. \A gr, S : VF!Closed(gr, S) <=> Closed(gr, S)
  BY <1>4 DEF VF!Closed, Closed
<1>7. \A gr, a, b : VF!Connected(gr, a, b) <=> Connected(gr, a, b)
  BY <1>1, <1>6 DEF VF!Connected, Connected
<1>. QED BY <1>1, <1>2, <1>3, <1>4, <1>5, <1>7

LEMMA Equivalence ==
  /\ \A a : VF!Connected(graph, a, a)
  /\ \A a, b : VF!Connected(graph, a, b) => VF!Connected(graph, b, a)
  /\ \A a, b, c : VF!Connected(graph, a, b) /\ VF!Connected(graph, b, c)
                    => VF!Connected(graph, a, c)
BY SameWords, ConnectedRefl, ConnectedSym, ConnectedTrans

LEMMA EdgeLinks ==
  ASSUME VF!IsGraph(graph), NEW a \in VF!V, NEW b \in VF!V, b \in VF!Elems(graph.out[a])
  PROVE  VF!Connected(graph, a, b) /\ VF!Connected(graph, b, a)
<1>1. IsGraph(graph) /\ a \in V /\ b \in V /\ b \in Elems(graph.out[a])
  BY SameWords
<1>2. Connected(graph, a, b) /\ Connected(graph, b, a)
  BY <1>1, EdgeConnected
<1>. QED BY <1>2, SameWords

(* A list of vertices without duplicates is no longer than NumNodes.       *)
LEMMA ShortList ==
  ASSUME NEW s \in Seq(VF!V), NoDuplicates(s)
  PROVE  Len(s) <= NumNodes
<1>1. DOMAIN s = 1 .. Len(s) /\ Len(s) \in Nat /\ s \in [1 .. Len(s) -> VF!V]
  OBVIOUS
<1>2. s \in Injection(1 .. Len(s), VF!V)
  BY <1>1 DEF NoDuplicates, Injection, IsInjective
<1>3. IsFiniteSet(VF!V) /\ Cardinality(VF!V) = NumNodes
  BY FS_Interval, NumNodesAssumption DEF VF!V
<1>4. Cardinality(1 .. Len(s)) = Len(s)
  BY <1>1, FS_Interval
<1>. QED BY <1>2, <1>3, <1>4, FS_Injection

LEMMA Appended ==
  ASSUME NEW s \in Seq(VF!V), NEW n \in VF!V
  PROVE  /\ Append(s, n) \in Seq(VF!V) /\ Len(Append(s, n)) = Len(s) + 1
         /\ DOMAIN Append(s, n) = 1 .. Len(s) + 1
         /\ \A i \in 1 .. Len(s) : Append(s, n)[i] = s[i]
         /\ Append(s, n)[Len(s) + 1] = n
         /\ VF!Elems(Append(s, n)) = VF!Elems(s) \cup {n}
         /\ NoDuplicates(s) /\ n \notin VF!Elems(s) => NoDuplicates(Append(s, n))
<1>1. /\ Append(s, n) \in Seq(VF!V) /\ Len(Append(s, n)) = Len(s) + 1
      /\ DOMAIN Append(s, n) = 1 .. Len(s) + 1
      /\ \A i \in 1 .. Len(s) : Append(s, n)[i] = s[i]
      /\ Append(s, n)[Len(s) + 1] = n
      /\ DOMAIN s = 1 .. Len(s) /\ Len(s) \in Nat
  BY AppendProperties
<1>. DEFINE a == Append(s, n)
<1>. HIDE DEF a
<1>2. /\ DOMAIN a = 1 .. Len(s) + 1 /\ \A i \in 1 .. Len(s) : a[i] = s[i]
      /\ a[Len(s) + 1] = n
  BY <1>1 DEF a
<1>3. VF!Elems(a) \subseteq VF!Elems(s) \cup {n}
  <2>1. \A i \in 1 .. Len(s) + 1 : i = Len(s) + 1 \/ i \in 1 .. Len(s)
    BY <1>1
  <2>. QED BY <1>1, <1>2, <2>1 DEF VF!Elems
<1>4. VF!Elems(s) \cup {n} \subseteq VF!Elems(a)
  <2>1. Len(s) + 1 \in DOMAIN a /\ \A i \in 1 .. Len(s) : i \in DOMAIN a
    BY <1>1, <1>2
  <2>. QED BY <1>1, <1>2, <2>1 DEF VF!Elems
<1>5. ASSUME NoDuplicates(s), n \notin VF!Elems(s) PROVE NoDuplicates(a)
  <2>. SUFFICES ASSUME NEW i \in DOMAIN a, NEW j \in DOMAIN a, a[i] = a[j]
                PROVE  i = j
    BY DEF NoDuplicates
  <2>1. \A k \in 1 .. Len(s) : s[k] # n
    BY <1>1, <1>5 DEF VF!Elems
  <2>2. i = Len(s) + 1 \/ i \in 1 .. Len(s)
    BY <1>1, <1>2
  <2>3. j = Len(s) + 1 \/ j \in 1 .. Len(s)
    BY <1>1, <1>2
  <2>. QED BY <1>1, <1>2, <1>5, <2>1, <2>2, <2>3 DEF NoDuplicates
<1>. QED BY <1>1, <1>3, <1>4, <1>5 DEF a

(* The head is an element, the tail has the others.                        *)
LEMMA HeadTail ==
  ASSUME NEW s \in Seq(VF!V), s # <<>>
  PROVE  /\ Head(s) \in VF!V /\ Head(s) \in VF!Elems(s) /\ Tail(s) \in Seq(VF!V)
         /\ \A i \in DOMAIN Tail(s) : Tail(s)[i] \in VF!Elems(s)
         /\ VF!Elems(s) = {Head(s)} \cup VF!Elems(Tail(s))
<1>1. /\ Tail(s) \in Seq(VF!V) /\ Len(Tail(s)) = Len(s) - 1 /\ Head(s) \in VF!V
      /\ \A i \in 1 .. Len(Tail(s)) : Tail(s)[i] = s[i + 1]
      /\ DOMAIN s = 1 .. Len(s) /\ Len(s) \in Nat \ {0}
      /\ DOMAIN Tail(s) = 1 .. Len(Tail(s))
  BY HeadTailProperties
<1>2. 1 \in DOMAIN s /\ Head(s) = s[1]
  BY <1>1
<1>3. \A i \in DOMAIN Tail(s) : i + 1 \in DOMAIN s /\ Tail(s)[i] = s[i + 1]
  BY <1>1
<1>4. \A i \in DOMAIN s : i = 1 \/ (i - 1 \in DOMAIN Tail(s) /\ Tail(s)[i - 1] = s[i])
  BY <1>1
<1>5. VF!Elems(s) \subseteq {Head(s)} \cup VF!Elems(Tail(s))
  BY <1>2, <1>4 DEF VF!Elems
<1>. QED BY <1>1, <1>2, <1>3, <1>5 DEF VF!Elems

(* The elements of two lists one after the other.                          *)
LEMMA ConcatElems ==
  ASSUME NEW s \in Seq(VF!V), NEW t \in Seq(VF!V)
  PROVE  s \o t \in Seq(VF!V) /\ VF!Elems(s \o t) = VF!Elems(s) \cup VF!Elems(t)
<1>1. /\ s \o t \in Seq(VF!V) /\ DOMAIN (s \o t) = 1 .. Len(s) + Len(t)
      /\ DOMAIN s = 1 .. Len(s) /\ DOMAIN t = 1 .. Len(t)
      /\ Len(s) \in Nat /\ Len(t) \in Nat
  OBVIOUS
<1>2. \A i \in 1 .. Len(s) + Len(t) : (s \o t)[i] = IF i <= Len(s) THEN s[i] ELSE t[i - Len(s)]
  BY <1>1
<1>. DEFINE a == s \o t
<1>. HIDE DEF a
<1>3. \A i \in DOMAIN a :
        \/ i \in DOMAIN s /\ a[i] = s[i]
        \/ i - Len(s) \in DOMAIN t /\ a[i] = t[i - Len(s)]
  BY <1>1, <1>2 DEF a
<1>4. \A i \in DOMAIN s : i \in DOMAIN a /\ a[i] = s[i]
  BY <1>1, <1>2 DEF a
<1>5. \A i \in DOMAIN t : Len(s) + i \in DOMAIN a /\ a[Len(s) + i] = t[i]
  BY <1>1, <1>2 DEF a
<1>6. VF!Elems(a) \subseteq VF!Elems(s) \cup VF!Elems(t)
  BY <1>3 DEF VF!Elems
<1>7. VF!Elems(s) \cup VF!Elems(t) \subseteq VF!Elems(a)
  BY <1>4, <1>5 DEF VF!Elems
<1>. QED BY <1>1, <1>6, <1>7 DEF a

(* What CCVerifier takes for the neighbours of a vertex: its edges, in     *)
(* either direction, each seen from both ends.                             *)
LEMMA NeighboursFacts ==
  ASSUME VF!IsGraph(graph), NEW n \in VF!V
  PROVE  /\ VF!Neighbours(n) \in Seq(VF!V)
         /\ VF!Elems(VF!Neighbours(n)) \subseteq VF!V
         /\ \A m \in VF!Elems(VF!Neighbours(n)) : VF!Connected(graph, n, m)
         /\ kernel = "cc" =>
              \A m \in VF!V : <<n, m>> \in VF!Edges(graph) \/ <<m, n>> \in VF!Edges(graph)
                              => m \in VF!Elems(VF!Neighbours(n))
<1>1. graph.out[n] \in Seq(VF!V) /\ graph.in[n] \in Seq(VF!V)
  BY DEF VF!IsGraph
<1>2. VF!Elems(graph.out[n]) \subseteq VF!V /\ VF!Elems(graph.in[n]) \subseteq VF!V
  BY <1>1 DEF VF!Elems
<1>3. \A m \in VF!V : <<n, m>> \in VF!Edges(graph) <=> m \in VF!Elems(graph.out[n])
  BY DEF VF!Edges
<1>4. \A m \in VF!V : <<m, n>> \in VF!Edges(graph) <=> m \in VF!Elems(graph.in[n])
  BY DEF VF!Edges, VF!IsGraph
<1>5. \A m \in VF!Elems(graph.out[n]) : VF!Connected(graph, n, m)
  BY <1>2, EdgeLinks
<1>6. \A m \in VF!Elems(graph.in[n]) : VF!Connected(graph, n, m)
  <2>. SUFFICES ASSUME NEW m \in VF!Elems(graph.in[n]) PROVE VF!Connected(graph, n, m)
    OBVIOUS
  <2>1. m \in VF!V /\ n \in VF!Elems(graph.out[m])
    BY <1>2 DEF VF!IsGraph
  <2>. QED BY <2>1, EdgeLinks
<1>7. CASE kernel = "cc" /\ graph.directed
  <2>1. VF!Neighbours(n) = graph.out[n] \o graph.in[n]
    BY <1>7 DEF VF!Neighbours
  <2>2. /\ VF!Neighbours(n) \in Seq(VF!V)
        /\ VF!Elems(VF!Neighbours(n)) = VF!Elems(graph.out[n]) \cup VF!Elems(graph.in[n])
    BY <1>1, <2>1, ConcatElems
  <2>. QED BY <1>2, <1>3, <1>4, <1>5, <1>6, <2>2
<1>8. CASE ~(kernel = "cc" /\ graph.directed)
  <2>1. VF!Neighbours(n) = graph.out[n]
    BY <1>8 DEF VF!Neighbours
  <2>2. kernel = "cc" => graph.in[n] = graph.out[n]
    BY <1>8 DEF VF!IsGraph
  <2>. QED BY <1>1, <1>2, <1>3, <1>4, <1>5, <2>1, <2>2
<1>. QED BY <1>7, <1>8

LEMMA InitInv ==
  ASSUME VF!Init
  PROVE  IInv
<1>1. /\ VF!IsGraph(graph) /\ 0 \in VF!V /\ visited = {} /\ nbrs = <<>>
      /\ next = 1 /\ at = 0 /\ label = 0
  BY NumNodesAssumption, VerifiersAssumption DEF VF!Assumptions, VF!Init, VF!V
<1>2. CASE kernel = "bfs"
  <2>1. /\ stage = "search" /\ source \in VF!V /\ list = <<source>> /\ labels = {} /\ port = "cpp"
        /\ result \in [VF!V -> VF!V \cup {-1}]
        /\ depth = [n \in VF!V |-> IF n = source THEN 0 ELSE -1]
    BY <1>2 DEF VF!Init
  <2>2. /\ list \in Seq(VF!V) /\ Len(list) = 1 /\ DOMAIN list = {1} /\ list[1] = source
        /\ VF!Elems(list) = {source}
    BY <2>1 DEF VF!Elems
  <2>3. depth \in [VF!V -> VF!V \cup {-1}]
    BY <1>1, <2>1
  <2>4. VF!TypeOK
    BY <1>1, <1>2, <2>1, <2>2, <2>3 DEF VF!TypeOK
  <2>5. ShapeInv
    BY <1>1, <1>2, <2>1, <2>2, <2>4 DEF ShapeInv, NoDuplicates
  <2>6. DepthInv
    BY <2>1, <2>2 DEF DepthInv
  <2>. QED BY <1>2, <2>5, <2>6 DEF IInv, SearchInv, VisitedInv, ClosedInv, VerdictInv
<1>3. CASE kernel = "cc"
  <2>1. /\ stage = "labels" /\ source = 0 /\ list = <<>> /\ labels = VF!Elems(result)
        /\ result \in [VF!V -> VF!V] /\ depth = [n \in VF!V |-> -1] /\ port \in {"cpp", "c"}
    BY <1>3 DEF VF!Init
  <2>2. \A n \in VF!V : result[n] \in labels
    BY <2>1 DEF VF!Elems
  <2>3. labels \in SUBSET VF!V /\ list \in Seq(VF!V) /\ Len(list) = 0
    BY <2>1 DEF VF!Elems
  <2>4. VF!TypeOK
    BY <1>1, <1>3, <2>1, <2>3 DEF VF!TypeOK
  <2>5. ShapeInv
    BY <1>1, <1>3, <2>1, <2>4 DEF ShapeInv, NoDuplicates
  <2>6. VisitedInv
    BY <1>1, <2>2 DEF VisitedInv
  <2>. QED BY <1>1, <1>3, <2>1, <2>5, <2>6
           DEF IInv, DepthInv, SearchInv, ClosedInv, VerdictInv, VF!Judged
<1>. QED BY <1>2, <1>3 DEF VF!Init
-----------------------------------------------------------------------------
(* One lemma per action.  A new search is for a label no visited vertex    *)
(* has, and its first vertex is all that is pending.                       *)
LEMMA StartLabelStep ==
  ASSUME IInv, VF!StartLabel
  PROVE  IInv'
<1>1. /\ VF!TypeOK /\ kernel = "cc" /\ stage = "labels" /\ nbrs = <<>>
      /\ result \in [VF!V -> VF!V]
      /\ UNCHANGED <<VF!given, depth, at, nbrs>>
  BY DEF IInv, ShapeInv, VF!StartLabel, VF!TypeOK
<1>2. PICK n \in VF!V :
        /\ result[n] \in labels /\ VF!SourceOf(n)
        /\ label' = result[n] /\ labels' = labels \ {result[n]}
        /\ list' = <<n>> /\ next' = 1 /\ visited' = visited \cup {n}
  BY DEF VF!StartLabel
<1>3. stage' = "search" /\ UNCHANGED <<kernel, port, graph, source, result>>
  BY <1>1 DEF VF!StartLabel, VF!given
<1>4. /\ list' \in Seq(VF!V) /\ Len(list') = 1 /\ DOMAIN (list') = {1} /\ list'[1] = n
  BY <1>2
<1>5. VF!TypeOK'
  BY <1>1, <1>2, <1>3, <1>4 DEF VF!TypeOK
<1>6. ShapeInv'
  BY <1>1, <1>3, <1>4, <1>5 DEF ShapeInv, NoDuplicates
<1>7. DepthInv'
  BY <1>1, <1>3 DEF DepthInv
<1>8. SearchInv'
  BY <1>1, <1>2, <1>3, <1>4 DEF SearchInv
<1>9. VisitedInv'
  <2>1. \A m \in visited : result[m] # result[n]
    BY <1>1, <1>2 DEF IInv, VisitedInv
  <2>2. \A m, k \in visited' : result[m] = result[k] => VF!Connected(graph, m, k)
    BY <1>1, <1>2, <2>1, Equivalence DEF IInv, VisitedInv
  <2>3. \A m \in visited' : result[m] \notin labels'
    BY <1>1, <1>2 DEF IInv, VisitedInv
  <2>4. \A m \in VF!V : result[m] \notin labels' => \E k \in visited' : result[k] = result[m]
    BY <1>1, <1>2 DEF IInv, VisitedInv
  <2>. QED BY <1>3, <2>2, <2>3, <2>4 DEF VisitedInv
<1>10. ClosedInv'
  <2>. SUFFICES ASSUME NEW a \in visited', NEW m \in VF!Elems(VF!Neighbours(a))
                PROVE  (m \in visited' /\ result[m] = result[a]) \/ Pending(a, m)'
    BY <1>3 DEF ClosedInv, VF!Neighbours
  <2>1. CASE a = n
    BY <1>2, <1>3, <1>4, <2>1 DEF Pending
  <2>2. CASE a \in visited
    BY <1>1, <1>2, <2>2 DEF IInv, ClosedInv, Pending
  <2>. QED BY <1>2, <2>1, <2>2
<1>11. VerdictInv'
  BY <1>3 DEF VerdictInv, VF!Judged
<1>. QED BY <1>6, <1>7, <1>8, <1>9, <1>10, <1>11 DEF IInv

LEMMA VisitStep ==
  ASSUME IInv, VF!Visit
  PROVE  IInv'
<1>1. /\ VF!TypeOK /\ stage = "search" /\ nbrs = <<>> /\ next <= Len(list)
      /\ UNCHANGED <<kernel, port, graph, source, result, depth, visited, labels, label,
                     list, stage>>
      /\ at' = list[next] /\ next' = next + 1 /\ nbrs' = VF!Neighbours(at')
  BY DEF IInv, ShapeInv, VF!Visit, VF!given
<1>2. /\ list \in Seq(VF!V) /\ DOMAIN list = 1 .. Len(list) /\ next \in 1 .. Len(list)
      /\ Len(list) \in Nat
      /\ at' \in VF!V
  BY <1>1 DEF VF!TypeOK
<1>3. nbrs' \in Seq(VF!V)
  BY <1>1, <1>2, NeighboursFacts DEF VF!TypeOK
<1>4. VF!TypeOK'
  BY <1>1, <1>2, <1>3 DEF VF!TypeOK
<1>5. ShapeInv'
  <2>1. \A i \in DOMAIN (nbrs') : nbrs'[i] \in VF!Elems(VF!Neighbours(at'))
    BY <1>1 DEF VF!Elems
  <2>2. VF!Neighbours(at)' = VF!Neighbours(at')
    BY <1>1 DEF VF!Neighbours
  <2>3. next' \in 2 .. Len(list) + 1 /\ at' = list[next' - 1]
    BY <1>1, <1>2
  <2>. QED BY <1>1, <1>4, <2>1, <2>2, <2>3 DEF IInv, ShapeInv
<1>6. DepthInv' /\ SearchInv' /\ VisitedInv'
  BY <1>1 DEF IInv, DepthInv, SearchInv, VisitedInv
<1>7. ClosedInv'
  <2>. SUFFICES ASSUME kernel = "cc", NEW n \in visited, NEW m \in VF!Elems(VF!Neighbours(n)),
                       ~(m \in visited /\ result[m] = result[n])
                PROVE  Pending(n, m)'
    BY <1>1 DEF ClosedInv, VF!Neighbours
  <2>1. m \notin VF!Elems(nbrs)
    BY <1>1 DEF VF!Elems
  <2>2. PICK i \in DOMAIN list : i >= next /\ list[i] = n
    BY <1>1, <2>1 DEF IInv, ClosedInv, Pending
  <2>3. CASE i = next
    BY <1>1, <2>2, <2>3 DEF Pending
  <2>4. CASE i # next
    BY <1>1, <1>2, <2>2, <2>4 DEF Pending
  <2>. QED BY <2>3, <2>4
<1>8. VerdictInv'
  BY <1>1 DEF VerdictInv, VF!Judged
<1>. QED BY <1>5, <1>6, <1>7, <1>8 DEF IInv

(* A depth is below the length of the list, hence below NumNodes.          *)
LEMMA FindDepthStep ==
  ASSUME IInv, VF!FindDepth
  PROVE  IInv'
<1>. DEFINE v == Head(nbrs)
<1>1. /\ VF!TypeOK /\ NoDuplicates(list) /\ kernel = "bfs" /\ stage = "search" /\ nbrs # <<>>
      /\ UNCHANGED <<kernel, port, graph, source, result, visited, labels, label, next, at,
                     stage>>
      /\ nbrs' = Tail(nbrs)
      /\ IF depth[v] = -1
           THEN depth' = [depth EXCEPT ![v] = depth[at] + 1] /\ list' = Append(list, v)
           ELSE UNCHANGED <<depth, list>>
  BY DEF IInv, ShapeInv, VF!FindDepth, VF!given
<1>2. /\ next \in 2 .. Len(list) + 1 /\ at = list[next - 1]
      /\ \A i \in DOMAIN nbrs : nbrs[i] \in VF!Elems(VF!Neighbours(at))
      /\ list \in Seq(VF!V) /\ DOMAIN list = 1 .. Len(list) /\ Len(list) \in Nat
      /\ depth \in [VF!V -> VF!V \cup {-1}] /\ nbrs \in Seq(VF!V) /\ at \in VF!V
  BY <1>1 DEF IInv, ShapeInv, VF!TypeOK
<1>3. /\ v \in VF!V /\ nbrs' \in Seq(VF!V)
      /\ \A i \in DOMAIN (nbrs') : nbrs'[i] \in VF!Elems(VF!Neighbours(at))
  <2>1. \A m \in VF!Elems(nbrs) : m \in VF!Elems(VF!Neighbours(at))
    BY <1>2 DEF VF!Elems
  <2>. QED BY <1>1, <1>2, <2>1, HeadTail
<1>4. VF!Neighbours(at)' = VF!Neighbours(at)
  BY <1>1 DEF VF!Neighbours
<1>. HIDE DEF v
<1>5. /\ \A n \in VF!V : depth[n] # -1 <=> n \in VF!Elems(list)
      /\ \A i \in DOMAIN list : depth[list[i]] < i
  BY <1>1 DEF IInv, DepthInv
<1>6. CASE depth[v] = -1
  <2>1. depth' = [depth EXCEPT ![v] = depth[at] + 1] /\ list' = Append(list, v)
    BY <1>1, <1>6
  <2>2. v \notin VF!Elems(list)
    BY <1>3, <1>5, <1>6
  <2>3. /\ list' \in Seq(VF!V) /\ Len(list') = Len(list) + 1
        /\ DOMAIN (list') = 1 .. Len(list) + 1
        /\ \A i \in 1 .. Len(list) : list'[i] = list[i]
        /\ list'[Len(list) + 1] = v
        /\ VF!Elems(list') = VF!Elems(list) \cup {v}
        /\ NoDuplicates(list')
    <3>1. list \in Seq(VF!V) /\ v \in VF!V /\ NoDuplicates(list)
      BY <1>1, <1>2, <1>3
    <3>. QED BY <2>1, <2>2, <3>1, Appended, Zenon
  <2>4. next - 1 \in DOMAIN list /\ depth[at] < next - 1 /\ at \in VF!Elems(list)
    <3>1. next - 1 \in DOMAIN list /\ at = list[next - 1] /\ next - 1 \in Nat
      BY <1>2
    <3>. QED BY <1>5, <3>1 DEF VF!Elems
  <2>5. depth[at] \in VF!V /\ depth[at] < Len(list)
    <3>1. depth[at] \in VF!V /\ depth[at] \in Nat
      BY <1>2, <1>5, <2>4 DEF VF!V
    <3>2. next - 1 <= Len(list) /\ next - 1 \in Nat
      BY <1>2
    <3>. QED BY <1>2, <2>4, <3>1, <3>2
  <2>6. Len(list) + 1 <= NumNodes
    BY <2>3, ShortList
  <2>7. depth[at] + 1 \in VF!V /\ depth[at] + 1 < Len(list) + 1 /\ depth[at] + 1 # -1
    <3>1. depth[at] \in Nat /\ Len(list) \in Nat /\ NumNodes \in Nat
      BY <1>2, <2>5, NumNodesAssumption DEF VF!V
    <3>2. depth[at] + 1 \in Nat /\ depth[at] + 1 < Len(list) + 1 /\ depth[at] + 1 <= NumNodes - 1
      BY <2>5, <2>6, <3>1
    <3>. QED BY <3>1, <3>2 DEF VF!V
  <2>8. depth' \in [VF!V -> VF!V \cup {-1}]
    <3>. HIDE DEF VF!V
    <3>. QED BY <1>2, <1>3, <2>1, <2>7
  <2>9. VF!TypeOK'
    BY <1>1, <1>2, <1>3, <2>3, <2>8 DEF VF!TypeOK
  <2>10. ShapeInv'
    <3>1. next' \in 2 .. Len(list') + 1 /\ at' = list'[next' - 1]
      BY <1>1, <1>2, <2>3
    <3>. QED BY <1>1, <1>3, <1>4, <2>3, <2>9, <3>1 DEF ShapeInv
  <2>11. DepthInv'
    <3>1. \A n \in VF!V : depth'[n] = IF n = v THEN depth[at] + 1 ELSE depth[n]
      BY <1>2, <1>3, <2>1
    <3>2. \A n \in VF!V : depth'[n] # -1 <=> n \in VF!Elems(list')
      BY <1>5, <2>3, <2>7, <3>1
    <3>3. ASSUME NEW i \in DOMAIN (list') PROVE depth'[list'[i]] < i
      <4>1. CASE i = Len(list) + 1
        BY <1>3, <2>3, <2>7, <3>1, <4>1
      <4>2. CASE i # Len(list) + 1
        <5>1. i \in 1 .. Len(list)
          BY <1>2, <2>3, <4>2
        <5>2. i \in DOMAIN list /\ list'[i] = list[i] /\ list[i] \in VF!V
          BY <1>2, <2>3, <5>1
        <5>3. list[i] \in VF!Elems(list)
          BY <5>2 DEF VF!Elems
        <5>. QED BY <1>5, <2>2, <3>1, <5>2, <5>3
      <4>. QED BY <4>1, <4>2
    <3>. QED BY <3>2, <3>3 DEF DepthInv
  <2>. QED BY <1>1, <2>10, <2>11 DEF IInv, SearchInv, VisitedInv, ClosedInv, VerdictInv
<1>7. CASE depth[v] # -1
  <2>1. UNCHANGED <<depth, list>>
    BY <1>1, <1>7
  <2>2. VF!TypeOK'
    BY <1>1, <1>3, <2>1 DEF VF!TypeOK
  <2>3. ShapeInv'
    BY <1>1, <1>2, <1>3, <1>4, <2>1, <2>2 DEF ShapeInv
  <2>4. DepthInv'
    BY <1>5, <2>1 DEF DepthInv
  <2>. QED BY <1>1, <2>3, <2>4 DEF IInv, SearchInv, VisitedInv, ClosedInv, VerdictInv
<1>. QED BY <1>6, <1>7

(* The vertex being visited has the label of the search, and its neighbour *)
(* either shows that the labels are wrong or is put into the list once.    *)
LEMMA FindLabelStep ==
  ASSUME IInv, VF!FindLabel
  PROVE  IInv'
<1>. DEFINE v == Head(nbrs)
<1>1. /\ VF!TypeOK /\ NoDuplicates(list) /\ kernel = "cc" /\ stage = "search" /\ nbrs # <<>>
      /\ result \in [VF!V -> VF!V]
      /\ UNCHANGED <<kernel, port, graph, source, result, depth, labels, label, next, at>>
      /\ IF result[v] # label
           THEN stage' = "rejected" /\ UNCHANGED <<visited, list, nbrs>>
           ELSE /\ visited' = visited \cup {v}
                /\ list' = IF v \in visited THEN list ELSE Append(list, v)
                /\ nbrs' = Tail(nbrs)
                /\ UNCHANGED stage
  BY DEF IInv, ShapeInv, VF!FindLabel, VF!given
<1>2. /\ next \in 2 .. Len(list) + 1 /\ at = list[next - 1]
      /\ \A i \in DOMAIN nbrs : nbrs[i] \in VF!Elems(VF!Neighbours(at))
      /\ list \in Seq(VF!V) /\ DOMAIN list = 1 .. Len(list) /\ Len(list) \in Nat
      /\ nbrs \in Seq(VF!V) /\ at \in VF!V /\ visited \in SUBSET VF!V /\ VF!IsGraph(graph)
  BY <1>1 DEF IInv, ShapeInv, VF!TypeOK
<1>3. at \in visited /\ result[at] = label /\ label \notin labels
  <2>1. next - 1 \in DOMAIN list
    BY <1>2
  <2>. QED BY <1>1, <1>2, <2>1 DEF IInv, SearchInv
<1>4. /\ v \in VF!V /\ v \in VF!Elems(VF!Neighbours(at)) /\ VF!Connected(graph, at, v)
      /\ Tail(nbrs) \in Seq(VF!V) /\ VF!Elems(nbrs) = {v} \cup VF!Elems(Tail(nbrs))
      /\ \A i \in DOMAIN Tail(nbrs) : Tail(nbrs)[i] \in VF!Elems(VF!Neighbours(at))
  <2>1. \A m \in VF!Elems(nbrs) : m \in VF!Elems(VF!Neighbours(at))
    BY <1>2 DEF VF!Elems
  <2>. QED BY <1>1, <1>2, <2>1, HeadTail, NeighboursFacts
<1>5. \A n : VF!Neighbours(n)' = VF!Neighbours(n)
  BY <1>1 DEF VF!Neighbours
<1>. HIDE DEF v
<1>6. CASE result[v] # label
  <2>1. stage' = "rejected" /\ UNCHANGED <<visited, list, nbrs>>
    BY <1>1, <1>6
  <2>2. ShapeInv'
    BY <1>1, <2>1 DEF ShapeInv, VF!TypeOK
  <2>3. ~VF!IsLabelling
    BY <1>2, <1>3, <1>4, <1>6 DEF VF!IsLabelling
  <2>4. VerdictInv'
    BY <1>1, <2>1, <2>3 DEF VerdictInv, VF!IsLabelling
  <2>5. VisitedInv'
    BY <1>1, <2>1 DEF IInv, VisitedInv
  <2>. QED BY <1>1, <2>1, <2>2, <2>4, <2>5 DEF IInv, DepthInv, SearchInv, ClosedInv
<1>7. CASE result[v] = label
  <2>1. /\ visited' = visited \cup {v} /\ nbrs' = Tail(nbrs) /\ stage' = "search"
        /\ list' = IF v \in visited THEN list ELSE Append(list, v)
    BY <1>1, <1>7
  <2>0. /\ list \in Seq(VF!V) /\ DOMAIN list = 1 .. Len(list) /\ Len(list) \in Nat
        /\ next \in 2 .. Len(list) + 1
    BY <1>2
  <2>2. VF!Elems(list) \subseteq visited
    BY <1>1 DEF IInv, SearchInv, VF!Elems
  <2>3. /\ list' \in Seq(VF!V) /\ NoDuplicates(list') /\ Len(list') >= Len(list)
        /\ DOMAIN (list') = 1 .. Len(list') /\ Len(list') \in Nat
        /\ \A i \in 1 .. Len(list) : list'[i] = list[i]
        /\ \A i \in 1 .. Len(list') : i \in 1 .. Len(list) \/ list'[i] = v
    <3>1. CASE v \in visited
      <4>1. list' = list /\ NoDuplicates(list)
        BY <1>1, <2>1, <3>1
      <4>. QED BY <2>0, <4>1
    <3>2. CASE v \notin visited
      <4>1. list' = Append(list, v) /\ v \notin VF!Elems(list) /\ NoDuplicates(list)
        BY <1>1, <2>1, <2>2, <3>2
      <4>2. /\ list' \in Seq(VF!V) /\ Len(list') = Len(list) + 1
            /\ DOMAIN (list') = 1 .. Len(list) + 1
            /\ \A i \in 1 .. Len(list) : list'[i] = list[i]
            /\ list'[Len(list) + 1] = v /\ NoDuplicates(list')
        BY <1>4, <2>0, <4>1, Appended
      <4>. QED BY <2>0, <4>2
    <3>. QED BY <3>1, <3>2
  <2>9. v \notin visited => \E i \in DOMAIN (list') : i >= next /\ list'[i] = v
    <3>1. ASSUME v \notin visited
          PROVE  list'[Len(list) + 1] = v /\ Len(list) + 1 \in DOMAIN (list')
      <4>1. list' = Append(list, v)
        BY <2>1, <3>1
      <4>. QED BY <1>4, <2>0, <4>1, Appended
    <3>. QED BY <2>0, <3>1
  <2>4. VF!TypeOK'
    BY <1>1, <1>2, <1>4, <2>1, <2>3 DEF VF!TypeOK
  <2>5. ShapeInv'
    <3>1. next - 1 \in 1 .. Len(list) /\ next' = next /\ at' = list[next - 1]
      BY <1>1, <1>2
    <3>2. list'[next - 1] = list[next - 1]
      BY <2>3, <3>1
    <3>3. next' \in 2 .. Len(list') + 1
      BY <2>0, <2>3, <3>1
    <3>. QED BY <1>1, <1>4, <1>5, <2>1, <2>3, <2>4, <3>1, <3>2, <3>3 DEF ShapeInv
  <2>6. SearchInv'
    <3>1. ASSUME NEW i \in DOMAIN (list') PROVE list'[i] \in visited' /\ result[list'[i]] = label
      <4>1. CASE i \in DOMAIN list
        <5>1. list'[i] = list[i]
          BY <2>0, <2>3, <4>1
        <5>. QED BY <1>1, <2>1, <4>1, <5>1 DEF IInv, SearchInv
      <4>2. CASE list'[i] = v
        BY <1>7, <2>1, <4>2
      <4>. QED BY <2>0, <2>3, <4>1, <4>2
    <3>. QED BY <1>1, <1>3, <3>1 DEF SearchInv
  <2>7. VisitedInv'
    <3>1. \A m \in visited : result[m] = label =>
            VF!Connected(graph, m, v) /\ VF!Connected(graph, v, m)
      BY <1>1, <1>3, <1>4, Equivalence DEF IInv, VisitedInv
    <3>2. \A m, n \in visited' : result[m] = result[n] => VF!Connected(graph, m, n)
      BY <1>1, <1>7, <2>1, <3>1, Equivalence DEF IInv, VisitedInv
    <3>3. \A n \in visited' : result[n] \notin labels
      BY <1>1, <1>3, <1>7, <2>1 DEF IInv, VisitedInv
    <3>4. \A n \in VF!V : result[n] \notin labels => \E m \in visited' : result[m] = result[n]
      BY <1>1, <2>1 DEF IInv, VisitedInv
    <3>. QED BY <1>1, <3>2, <3>3, <3>4 DEF VisitedInv
  <2>8. ClosedInv'
    <3>. SUFFICES ASSUME NEW n \in visited', NEW m \in VF!Elems(VF!Neighbours(n)),
                         ~(m \in visited' /\ result[m] = result[n])
                  PROVE  Pending(n, m)'
      BY <1>1, <1>5 DEF ClosedInv
    <3>1. CASE n \notin visited
      <4>1. \E i \in DOMAIN (list') : i >= next /\ list'[i] = n
        BY <2>1, <2>9, <3>1
      <4>. QED BY <1>1, <2>1, <4>1 DEF Pending
    <3>2. CASE n \in visited
      <4>1. Pending(n, m)
        BY <1>1, <2>1, <3>2 DEF IInv, ClosedInv
      <4>2. CASE \E i \in DOMAIN list : i >= next /\ list[i] = n
        <5>1. PICK i \in DOMAIN list : i >= next /\ list[i] = n
          BY <4>2
        <5>2. i \in DOMAIN (list') /\ list'[i] = n
          <6>1. i \in 1 .. Len(list)
            BY <2>0
          <6>2. list'[i] = list[i] /\ i \in DOMAIN (list')
            BY <2>0, <2>3, <6>1
          <6>. QED BY <5>1, <6>2
        <5>. QED BY <1>1, <2>1, <5>1, <5>2 DEF Pending
      <4>3. CASE at = n /\ m \in VF!Elems(nbrs)
        <5>1. m # v
          BY <1>3, <1>7, <2>1, <4>3
        <5>. QED BY <1>1, <1>4, <2>1, <4>3, <5>1 DEF Pending
      <4>. QED BY <4>1, <4>2, <4>3 DEF Pending
    <3>. QED BY <3>1, <3>2
  <2>. QED BY <1>1, <2>1, <2>5, <2>6, <2>7, <2>8 DEF IInv, DepthInv, VerdictInv, VF!Judged
<1>. QED BY <1>6, <1>7

LEMMA EndSearchStep ==
  ASSUME IInv, VF!EndSearch
  PROVE  IInv'
<1>1. /\ VF!TypeOK /\ stage = "search" /\ nbrs = <<>> /\ next > Len(list)
      /\ stage' = IF kernel = "bfs" THEN "check" ELSE "labels"
      /\ UNCHANGED <<kernel, port, graph, source, result, depth, visited, labels, label,
                     list, next, at, nbrs>>
  BY DEF IInv, ShapeInv, VF!EndSearch, VF!given
<1>2. VF!TypeOK'
  BY <1>1 DEF VF!TypeOK
<1>3. ShapeInv'
  BY <1>1, <1>2 DEF IInv, ShapeInv, VF!TypeOK
<1>4. DepthInv' /\ SearchInv' /\ VisitedInv' /\ VerdictInv'
  BY <1>1 DEF IInv, DepthInv, SearchInv, VisitedInv, VerdictInv, VF!Judged
<1>5. \A n, m : ~Pending(n, m)
  <2>1. \A i \in DOMAIN list : ~(i >= next)
    BY <1>1 DEF VF!TypeOK
  <2>. QED BY <1>1, <2>1 DEF Pending, VF!Elems
<1>6. ClosedInv'
  BY <1>1, <1>5 DEF IInv, ClosedInv, VF!Neighbours
<1>. QED BY <1>3, <1>4, <1>6 DEF IInv

LEMMA CheckParentsStep ==
  ASSUME IInv, VF!CheckParents
  PROVE  IInv'
<1>1. /\ VF!TypeOK /\ stage = "check" /\ kernel = "bfs"
      /\ stage' \in {"accepted", "rejected"}
      /\ UNCHANGED <<kernel, port, graph, source, result, depth, visited, labels, label,
                     list, next, at, nbrs>>
  BY DEF IInv, ShapeInv, VF!CheckParents, VF!given, VF!TypeOK
<1>2. VF!TypeOK'
  BY <1>1 DEF VF!TypeOK
<1>3. ShapeInv'
  BY <1>1, <1>2 DEF IInv, ShapeInv
<1>. QED BY <1>1, <1>3 DEF IInv, DepthInv, SearchInv, VisitedInv, ClosedInv, VerdictInv

(* When all searches are over, what was visited is closed under edges, and *)
(* labels agree along them.                                                *)
LEMMA AllSearched ==
  ASSUME IInv, kernel = "cc", stage = "labels", NEW e \in VF!Edges(graph)
  PROVE  /\ e[1] \in visited <=> e[2] \in visited
         /\ e[1] \in visited => result[e[1]] = result[e[2]]
<1>1. e[1] \in VF!V /\ e[2] \in VF!V /\ e = <<e[1], e[2]>> /\ VF!IsGraph(graph)
  BY DEF VF!Edges, IInv, ShapeInv, VF!TypeOK
<1>2. e[2] \in VF!Elems(VF!Neighbours(e[1])) /\ e[1] \in VF!Elems(VF!Neighbours(e[2]))
  BY <1>1, NeighboursFacts
<1>3. \A n \in visited : \A m \in VF!Elems(VF!Neighbours(n)) : m \in visited /\ result[m] = result[n]
  BY DEF IInv, ClosedInv, Pending
<1>. QED BY <1>2, <1>3

LEMMA CheckVisitedStep ==
  ASSUME IInv, VF!CheckVisited
  PROVE  IInv'
<1>1. /\ VF!TypeOK /\ stage = "labels" /\ kernel = "cc" /\ labels = {}
      /\ result \in [VF!V -> VF!V]
      /\ stage' = IF visited = VF!V THEN "accepted" ELSE "rejected"
      /\ UNCHANGED <<kernel, port, graph, source, result, depth, visited, labels, label,
                     list, next, at, nbrs>>
  BY DEF IInv, ShapeInv, VF!CheckVisited, VF!given, VF!TypeOK
<1>2. VF!TypeOK'
  BY <1>1 DEF VF!TypeOK
<1>3. ShapeInv'
  BY <1>1, <1>2 DEF IInv, ShapeInv
<1>4. visited \in SUBSET VF!V
  BY <1>1 DEF VF!TypeOK
<1>5. VerdictInv'
  <2>1. CASE visited = VF!V
    <3>1. \A m, n \in VF!V : result[m] = result[n] => VF!Connected(graph, m, n)
      BY <1>1, <2>1 DEF IInv, VisitedInv
    <3>2. ASSUME NEW m \in VF!V, NEW n \in VF!V, VF!Connected(graph, m, n)
          PROVE  result[m] = result[n]
      <4>. DEFINE S == {k \in VF!V : result[k] = result[m]}
      <4>1. \A e \in VF!Edges(graph) : result[e[1]] = result[e[2]] /\ e[1] \in VF!V /\ e[2] \in VF!V
        BY <1>1, <2>1, AllSearched DEF VF!Edges
      <4>2. VF!Closed(graph, S) /\ S \in SUBSET VF!V /\ m \in S
        BY <4>1 DEF VF!Closed
      <4>. HIDE DEF S
      <4>3. n \in S
        BY <3>2, <4>2 DEF VF!Connected
      <4>. QED BY <4>3 DEF S
    <3>3. VF!IsLabelling
      BY <3>1, <3>2 DEF VF!IsLabelling
    <3>. QED BY <1>1, <2>1, <3>3 DEF VerdictInv, VF!IsLabelling
  <2>2. CASE visited # VF!V
    <3>1. PICK m \in VF!V : m \notin visited
      BY <1>4, <2>2
    <3>2. PICK n \in visited : result[n] = result[m]
      BY <1>1, <3>1 DEF IInv, VisitedInv
    <3>3. VF!Closed(graph, visited)
      BY <1>1, AllSearched DEF VF!Closed
    <3>4. ~VF!Connected(graph, m, n)
      BY <1>4, <3>1, <3>2, <3>3 DEF VF!Connected
    <3>5. ~VF!IsLabelling
      BY <1>4, <3>1, <3>2, <3>4 DEF VF!IsLabelling
    <3>. QED BY <1>1, <2>2, <3>5 DEF VerdictInv, VF!IsLabelling
  <2>. QED BY <2>1, <2>2
<1>6. VisitedInv'
  BY <1>1 DEF IInv, VisitedInv
<1>. QED BY <1>1, <1>3, <1>5, <1>6 DEF IInv, DepthInv, SearchInv, ClosedInv

LEMMA SameStep ==
  ASSUME IInv, UNCHANGED VF!vars
  PROVE  IInv'
<1>1. UNCHANGED <<kernel, port, graph, source, result, depth, visited, labels, label, list,
                  next, at, nbrs, stage>>
  BY DEF VF!vars, VF!given
<1>2. ShapeInv'
  BY <1>1 DEF IInv, ShapeInv, VF!TypeOK, VF!Neighbours
<1>3. ClosedInv'
  BY <1>1 DEF IInv, ClosedInv, Pending, VF!Neighbours
<1>. QED BY <1>1, <1>2, <1>3
       DEF IInv, DepthInv, SearchInv, VisitedInv, VerdictInv, VF!Judged, VF!IsLabelling

LEMMA VerifiersStep ==
  ASSUME IInv, [VF!Next]_(VF!vars)
  PROVE  IInv'
BY StartLabelStep, VisitStep, FindDepthStep, FindLabelStep, EndSearchStep, CheckParentsStep,
   CheckVisitedStep, SameStep DEF VF!Next, VF!Terminated
-----------------------------------------------------------------------------
(***************************************************************************)
(* BFSVerifier visits the vertices in the order of their distance from the *)
(* source: what is in its list reaches one edge further than the vertex    *)
(* being visited, and nothing nearer than that vertex is missing from it.  *)
(***************************************************************************)
Dist == Depth(graph, source)
At(i) == Dist[list[i]]

OrderInv ==
  /\ source \in VF!Elems(list)
  /\ next = 1 => list = <<source>>
  /\ \A i \in DOMAIN list : depth[list[i]] = At(i) /\ At(i) # Unreachable
  /\ \A i, j \in DOMAIN list : i <= j => At(i) <= At(j)

FrontInv ==
  next > 1 =>
    /\ \A i \in DOMAIN list : At(i) <= At(next - 1) + 1
    /\ \A m \in VF!V : Dist[m] <= At(next - 1) => m \in VF!Elems(list)

FoundInv ==
  \A i \in 1 .. next - 1 : \A m \in VF!Elems(graph.out[list[i]]) :
    m \in VF!Elems(list) \/ (i = next - 1 /\ m \in VF!Elems(nbrs))

QueueInv == kernel = "bfs" /\ stage = "search" => OrderInv /\ FrontInv /\ FoundInv

DepthsInv ==
  kernel = "bfs" /\ stage = "check" =>
    \A n \in VF!V : depth[n] = IF Dist[n] = Unreachable THEN -1 ELSE Dist[n]

TreeInv ==
  kernel = "bfs" /\ VF!Judged => (stage = "accepted" <=> VF!IsShortestPathTree)

BFSInv == QueueInv /\ DepthsInv /\ TreeInv

LEMMA DistFacts ==
  ASSUME VF!TypeOK
  PROVE  /\ Dist \in [VF!V -> 0 .. NumNodes] /\ Dist[source] = 0
         /\ Unreachable = NumNodes /\ NumNodes \in Nat \ {0}
         /\ \A n \in VF!V : Dist[n] \in 0 .. NumNodes
         /\ \A n \in VF!V : Dist[n] = 0 => n = source
         /\ \A p \in VF!V : VF!Elems(graph.out[p]) \subseteq VF!V
         /\ \A p \in VF!V : Dist[p] # Unreachable =>
              \A n \in VF!Elems(graph.out[p]) : Dist[n] <= Dist[p] + 1 /\ Dist[n] # Unreachable
         /\ \A n \in VF!V : Dist[n] # Unreachable /\ Dist[n] # 0 =>
              \E p \in VF!V : n \in VF!Elems(graph.out[p]) /\ Dist[n] = Dist[p] + 1
<1>1. IsGraph(graph) /\ source \in V /\ VF!IsGraph(graph)
  BY SameWords DEF VF!TypeOK
<1>2. /\ Dist \in [V -> 0 .. NumNodes] /\ Dist[source] = 0
      /\ \A n \in V : Dist[n] = 0 => n = source
      /\ \A p \in V : Dist[p] # Unreachable =>
           \A n \in Elems(graph.out[p]) : Dist[n] <= Dist[p] + 1 /\ Dist[n] # Unreachable
      /\ \A n \in V : Dist[n] # Unreachable /\ Dist[n] # 0 =>
           \E p \in V : n \in Elems(graph.out[p]) /\ Dist[n] = Dist[p] + 1
  BY <1>1, DepthFacts DEF Dist
<1>3. \A p \in VF!V : VF!Elems(graph.out[p]) \subseteq VF!V
  BY <1>1 DEF VF!IsGraph, VF!Elems
<1>4. \A n \in V : Dist[n] \in 0 .. NumNodes
  BY <1>2
<1>5. Unreachable = NumNodes /\ NumNodes \in Nat \ {0}
  BY NumNodesAssumption DEF Unreachable
<1>. QED BY <1>2, <1>3, <1>4, <1>5, SameWords

(* What the search knows of its list.                                      *)
LEMMA ListFacts ==
  ASSUME IInv, kernel = "bfs", stage = "search"
  PROVE  /\ VF!TypeOK /\ list \in Seq(VF!V) /\ Len(list) \in Nat /\ DOMAIN list = 1 .. Len(list)
         /\ next \in 1 .. Len(list) + 1 /\ nbrs \in Seq(VF!V)
         /\ \A i \in DOMAIN list : list[i] \in VF!V /\ At(i) \in 0 .. NumNodes
         /\ \A n : n \in VF!Elems(list) <=> \E i \in DOMAIN list : n = list[i]
         /\ \A n \in VF!V : depth[n] # -1 <=> n \in VF!Elems(list)
<1>1. VF!TypeOK
  BY DEF IInv, ShapeInv
<1>2. /\ list \in Seq(VF!V) /\ Len(list) \in Nat /\ DOMAIN list = 1 .. Len(list)
      /\ next \in 1 .. Len(list) + 1 /\ nbrs \in Seq(VF!V)
      /\ \A i \in DOMAIN list : list[i] \in VF!V
  BY <1>1 DEF VF!TypeOK
<1>3. \A i \in DOMAIN list : At(i) \in 0 .. NumNodes
  BY <1>1, <1>2, DistFacts DEF At
<1>4. \A n : n \in VF!Elems(list) <=> \E i \in DOMAIN list : n = list[i]
  BY DEF VF!Elems
<1>5. \A n \in VF!V : depth[n] # -1 <=> n \in VF!Elems(list)
  BY DEF IInv, DepthInv
<1>. QED BY <1>1, <1>2, <1>3, <1>4, <1>5

(* The source is first, and nothing else has no edge between.              *)
LEMMA InitBFSInv == VF!Init => BFSInv
<1>. SUFFICES ASSUME VF!Init PROVE BFSInv
  OBVIOUS
<1>1. IInv
  BY InitInv
<1>2. CASE kernel = "cc"
  BY <1>2 DEF BFSInv, QueueInv, DepthsInv, TreeInv
<1>3. CASE kernel = "bfs"
  <2>1. /\ stage = "search" /\ next = 1 /\ list = <<source>> /\ source \in VF!V
        /\ depth = [n \in VF!V |-> IF n = source THEN 0 ELSE -1]
    BY <1>3 DEF VF!Init
  <2>2. Dist[source] = 0 /\ Unreachable # 0
    BY <1>1, <1>3, <2>1, ListFacts, DistFacts
  <2>3. DOMAIN list = 1 .. 1 /\ list[1] = source
    BY <2>1
  <2>4. \A i \in DOMAIN list : i = 1
    BY <2>3
  <2>5. source \in VF!Elems(list)
    BY <2>3 DEF VF!Elems
  <2>6. depth[source] = 0
    BY <2>1
  <2>7. OrderInv
    BY <2>1, <2>2, <2>3, <2>4, <2>5, <2>6 DEF OrderInv, At
  <2>8. FrontInv /\ FoundInv
    BY <2>1 DEF FrontInv, FoundInv
  <2>. QED BY <2>1, <2>7, <2>8 DEF BFSInv, QueueInv, DepthsInv, TreeInv, VF!Judged
<1>. QED BY <1>1, <1>2, <1>3 DEF IInv, ShapeInv, VF!TypeOK

(* The vertex taken is as near as the one before it or one edge further;   *)
(* in the second case all the nearer ones have shown their neighbours.     *)
LEMMA VisitQueue ==
  ASSUME IInv, BFSInv, VF!Visit
  PROVE  BFSInv'
<1>1. /\ stage = "search" /\ nbrs = <<>> /\ next <= Len(list)
      /\ UNCHANGED <<kernel, port, graph, source, result, depth, visited, labels, label,
                     list, stage>>
      /\ at' = list[next] /\ next' = next + 1 /\ nbrs' = VF!Neighbours(at')
  BY DEF VF!Visit, VF!given
<1>2. CASE kernel # "bfs"
  BY <1>1, <1>2 DEF BFSInv, QueueInv, DepthsInv, TreeInv
<1>3. CASE kernel = "bfs"
  <2>. USE <1>3
  <2>1. OrderInv /\ FrontInv /\ FoundInv
    BY <1>1 DEF BFSInv, QueueInv
  <2>2. /\ VF!TypeOK /\ Len(list) \in Nat /\ DOMAIN list = 1 .. Len(list)
        /\ next \in 1 .. Len(list)
        /\ \A i \in DOMAIN list : list[i] \in VF!V /\ At(i) \in 0 .. NumNodes
        /\ \A n : n \in VF!Elems(list) <=> \E i \in DOMAIN list : n = list[i]
    BY <1>1, ListFacts
  <2>3. /\ Dist' = Dist /\ \A i : At(i)' = At(i)
    BY <1>1 DEF Dist, At
  <2>4. OrderInv'
    BY <1>1, <2>1, <2>2, <2>3 DEF OrderInv
  <2>5. next' - 1 = next /\ next' > 1 /\ next \in DOMAIN list
    BY <1>1, <2>2
  <2>6. ASSUME NEW i \in 1 .. next - 1, NEW m \in VF!Elems(graph.out[list[i]])
        PROVE  m \in VF!Elems(list)
    <3>1. m \notin VF!Elems(nbrs)
      BY <1>1 DEF VF!Elems
    <3>. QED BY <2>1, <2>6, <3>1 DEF FoundInv
  <2>7. FoundInv'
    <3>. SUFFICES ASSUME NEW i \in 1 .. next, NEW m \in VF!Elems(graph.out[list[i]])
                  PROVE  m \in VF!Elems(list) \/ (i = next /\ m \in VF!Elems(nbrs'))
      BY <1>1, <2>5 DEF FoundInv
    <3>1. CASE i = next
      BY <1>1, <3>1 DEF VF!Neighbours
    <3>2. CASE i # next
      <4>1. i \in 1 .. next - 1
        BY <2>2, <3>2
      <4>. QED BY <2>6, <4>1
    <3>. QED BY <3>1, <3>2
  <2>8. /\ \A i \in DOMAIN list : At(i) <= At(next) + 1
        /\ \A m \in VF!V : Dist[m] <= At(next) => m \in VF!Elems(list)
    <3>1. CASE next = 1
      <4>1. list = <<source>> /\ source \in VF!Elems(list)
        BY <2>1, <3>1 DEF OrderInv
      <4>2. At(1) = 0 /\ \A i \in DOMAIN list : At(i) = 0
        BY <2>2, <4>1, DistFacts DEF At
      <4>3. \A m \in VF!V : Dist[m] <= 0 => m = source
        BY <2>2, DistFacts
      <4>. QED BY <3>1, <4>1, <4>2, <4>3
    <3>2. CASE next > 1
      <4>. DEFINE a == At(next - 1)
                  b == At(next)
      <4>1. next - 1 \in DOMAIN list /\ next - 1 <= next
        BY <2>2, <3>2
      <4>2. a \in Nat /\ b \in Nat /\ a <= b /\ b <= a + 1 /\ b # Unreachable
        BY <2>1, <2>2, <2>5, <3>2, <4>1 DEF OrderInv, FrontInv
      <4>3. \A i \in DOMAIN list : At(i) <= a + 1 /\ At(i) \in Nat
        BY <2>1, <2>2, <3>2 DEF FrontInv
      <4>4. \A m \in VF!V : Dist[m] <= a => m \in VF!Elems(list)
        BY <2>1, <3>2 DEF FrontInv
      <4>5. ASSUME b = a + 1, NEW m \in VF!V, Dist[m] = b PROVE m \in VF!Elems(list)
        <5>1. Dist[m] # Unreachable /\ Dist[m] # 0
          BY <4>2, <4>5
        <5>2. PICK p \in VF!V : m \in VF!Elems(graph.out[p]) /\ Dist[m] = Dist[p] + 1
          BY <2>2, <5>1, DistFacts
        <5>3. Dist[p] \in Nat
          BY <2>2, DistFacts
        <5>4. Dist[p] = a
          BY <4>2, <4>5, <5>2, <5>3
        <5>5. PICK i \in DOMAIN list : p = list[i]
          BY <2>2, <4>2, <4>4, <5>4
        <5>6. At(i) = a
          BY <5>4, <5>5 DEF At
        <5>7. ~(next <= i)
          <6>1. next <= i => b <= At(i)
            BY <2>1, <2>5 DEF OrderInv
          <6>. QED BY <4>2, <4>5, <5>6, <6>1
        <5>8. i \in 1 .. next - 1
          BY <2>2, <5>7
        <5>. QED BY <2>6, <5>2, <5>5, <5>8
      <4>6. \A m \in VF!V : Dist[m] \in Nat
        BY <2>2, DistFacts
      <4>. HIDE DEF a, b
      <4>7. \A m \in VF!V : Dist[m] <= b => Dist[m] <= a \/ (b = a + 1 /\ Dist[m] = b)
        BY <4>2, <4>6
      <4>8. \A m \in VF!V : Dist[m] <= b => m \in VF!Elems(list)
        BY <4>4, <4>5, <4>7
      <4>9. \A i \in DOMAIN list : At(i) <= b + 1
        BY <4>2, <4>3
      <4>. QED BY <4>8, <4>9 DEF b
    <3>. QED BY <2>2, <3>1, <3>2
  <2>9. FrontInv'
    BY <1>1, <2>3, <2>5, <2>8 DEF FrontInv
  <2>. QED BY <1>1, <2>4, <2>7, <2>9 DEF BFSInv, QueueInv, DepthsInv, TreeInv, VF!Judged
<1>. QED BY <1>2, <1>3

(* A vertex without a depth is not in the list, hence further than the     *)
(* vertex being visited: one edge further.                                 *)
LEMMA FindDepthQueue ==
  ASSUME IInv, BFSInv, VF!FindDepth
  PROVE  BFSInv'
<1>. DEFINE v == Head(nbrs)
<1>1. /\ kernel = "bfs" /\ stage = "search" /\ nbrs # <<>>
      /\ UNCHANGED <<kernel, port, graph, source, result, visited, labels, label, next, at,
                     stage>>
      /\ nbrs' = Tail(nbrs)
      /\ IF depth[v] = -1
           THEN depth' = [depth EXCEPT ![v] = depth[at] + 1] /\ list' = Append(list, v)
           ELSE UNCHANGED <<depth, list>>
  BY DEF VF!FindDepth, VF!given
<1>2. OrderInv /\ FrontInv /\ FoundInv
  BY <1>1 DEF BFSInv, QueueInv
<1>3. /\ VF!TypeOK /\ list \in Seq(VF!V) /\ Len(list) \in Nat /\ DOMAIN list = 1 .. Len(list)
      /\ nbrs \in Seq(VF!V)
      /\ \A i \in DOMAIN list : list[i] \in VF!V /\ At(i) \in 0 .. NumNodes
      /\ \A n : n \in VF!Elems(list) <=> \E i \in DOMAIN list : n = list[i]
      /\ \A n \in VF!V : depth[n] # -1 <=> n \in VF!Elems(list)
  BY <1>1, ListFacts
<1>4. /\ next \in 2 .. Len(list) + 1 /\ at = list[next - 1] /\ next - 1 \in DOMAIN list
      /\ depth \in [VF!V -> VF!V \cup {-1}] /\ at \in VF!V /\ next > 1 /\ next - 1 >= 1
  <2>1. /\ next \in 2 .. Len(list) + 1 /\ at = list[next - 1]
        /\ depth \in [VF!V -> VF!V \cup {-1}] /\ at \in VF!V
    BY <1>1 DEF IInv, ShapeInv, VF!TypeOK
  <2>. QED BY <1>3, <2>1
<1>5. v \in VF!V /\ v \in VF!Elems(nbrs) /\ VF!Elems(nbrs) = {v} \cup VF!Elems(nbrs')
  BY <1>1, <1>3, HeadTail
<1>6. v \in VF!Elems(graph.out[at])
  <2>1. \A m \in VF!Elems(nbrs) : m \in VF!Elems(VF!Neighbours(at))
    BY <1>1 DEF IInv, ShapeInv, VF!Elems
  <2>2. VF!Neighbours(at) = graph.out[at]
    BY <1>1 DEF VF!Neighbours
  <2>. QED BY <1>5, <2>1, <2>2
<1>. HIDE DEF v
<1>7. At(next - 1) = Dist[at] /\ depth[at] = Dist[at] /\ Dist[at] # Unreachable
  BY <1>2, <1>4 DEF OrderInv, At
<1>8. Dist[v] <= Dist[at] + 1 /\ Dist[v] # Unreachable /\ Dist[v] \in Nat /\ Dist[at] \in Nat
  BY <1>3, <1>4, <1>5, <1>6, <1>7, DistFacts
<1>9. Dist' = Dist
  BY <1>1 DEF Dist
<1>10. VF!Elems(list) \cup {v} \subseteq VF!Elems(list') => FoundInv'
  <2>. SUFFICES ASSUME VF!Elems(list) \cup {v} \subseteq VF!Elems(list'),
                       NEW i \in 1 .. next - 1, NEW m \in VF!Elems(graph.out[list'[i]])
                PROVE  m \in VF!Elems(list') \/ (i = next - 1 /\ m \in VF!Elems(nbrs'))
    BY <1>1 DEF FoundInv
  <2>1. i \in 1 .. Len(list)
    BY <1>3, <1>4
  <2>2. list'[i] = list[i]
    <3>1. CASE list' = list
      BY <3>1
    <3>2. CASE list' = Append(list, v)
      BY <1>3, <1>5, <2>1, <3>2, Appended
    <3>. QED BY <1>1, <3>1, <3>2
  <2>3. m \in VF!Elems(list) \/ (i = next - 1 /\ m \in VF!Elems(nbrs))
    BY <1>2, <2>2 DEF FoundInv
  <2>. QED BY <1>5, <2>3
<1>11. CASE depth[v] = -1
  <2>1. depth' = [depth EXCEPT ![v] = depth[at] + 1] /\ list' = Append(list, v)
    BY <1>1, <1>11
  <2>2. v \notin VF!Elems(list)
    BY <1>3, <1>5, <1>11
  <2>3. /\ DOMAIN (list') = 1 .. Len(list) + 1
        /\ \A i \in 1 .. Len(list) : list'[i] = list[i]
        /\ list'[Len(list) + 1] = v
        /\ VF!Elems(list') = VF!Elems(list) \cup {v}
    BY <1>3, <1>5, <2>1, Appended
  <2>4. Dist[v] = Dist[at] + 1
    <3>1. ~(Dist[v] <= Dist[at])
      BY <1>2, <1>4, <1>5, <1>7, <2>2 DEF FrontInv
    <3>. QED BY <1>8, <3>1
  <2>5. depth'[v] = Dist[v] /\ \A n \in VF!V : n # v => depth'[n] = depth[n]
    BY <1>4, <1>5, <1>7, <2>1, <2>4
  <2>6. \A i \in DOMAIN (list') :
          IF i = Len(list) + 1 THEN list'[i] = v ELSE i \in DOMAIN list /\ list'[i] = list[i]
    BY <1>3, <2>3
  <2>. DEFINE new(i) == Dist[list'[i]]
  <2>7. /\ \A i \in DOMAIN list : new(i) = At(i)
        /\ new(Len(list) + 1) = Dist[v]
    BY <1>3, <2>3 DEF At
  <2>8. \A i \in DOMAIN list : At(i) <= Dist[v] /\ At(i) \in Nat /\ At(i) # Unreachable
    BY <1>2, <1>3, <1>4, <1>7, <2>4 DEF FrontInv, OrderInv
  <2>. HIDE DEF new
  <2>9. OrderInv'
    <3>1. source' \in VF!Elems(list') /\ next' # 1
      BY <1>1, <1>2, <1>4, <2>3 DEF OrderInv
    <3>2. ASSUME NEW i \in DOMAIN (list')
          PROVE  depth'[list'[i]] = new(i) /\ new(i) # Unreachable
      <4>1. CASE i = Len(list) + 1
        BY <1>8, <2>5, <2>6, <2>7, <4>1
      <4>2. CASE i # Len(list) + 1
        <5>1. i \in DOMAIN list /\ list'[i] = list[i]
          BY <2>6, <4>2
        <5>2. list[i] # v /\ list[i] \in VF!V
          BY <1>3, <2>2, <5>1
        <5>. QED BY <1>2, <2>5, <2>7, <5>1, <5>2 DEF OrderInv
      <4>. QED BY <4>1, <4>2
    <3>3. ASSUME NEW i \in DOMAIN (list'), NEW j \in DOMAIN (list'), i <= j
          PROVE  new(i) <= new(j)
      <4>1. CASE j = Len(list) + 1
        <5>1. CASE i = j
          BY <1>8, <2>7, <4>1, <5>1
        <5>2. CASE i # j
          BY <2>6, <2>7, <2>8, <4>1, <5>2
        <5>. QED BY <5>1, <5>2
      <4>2. CASE j # Len(list) + 1
        <5>1. j \in DOMAIN list
          BY <2>6, <4>2
        <5>2. i \in DOMAIN list
          BY <1>3, <2>3, <3>3, <5>1
        <5>. QED BY <1>2, <2>7, <3>3, <5>1, <5>2 DEF OrderInv
      <4>. QED BY <4>1, <4>2
    <3>4. Unreachable' = Unreachable
      BY DEF Unreachable
    <3>. QED BY <1>9, <3>1, <3>2, <3>3, <3>4 DEF OrderInv, At, new
  <2>10. FrontInv'
    <3>1. new(next - 1) = Dist[at]
      BY <1>4, <1>7, <2>7
    <3>2. ASSUME NEW i \in DOMAIN (list') PROVE new(i) <= Dist[at] + 1
      <4>1. CASE i = Len(list) + 1
        BY <1>8, <2>4, <2>7, <4>1
      <4>2. CASE i # Len(list) + 1
        BY <2>4, <2>6, <2>7, <2>8, <4>2
      <4>. QED BY <4>1, <4>2
    <3>3. \A m \in VF!V : Dist[m] <= Dist[at] => m \in VF!Elems(list')
      BY <1>2, <1>4, <1>7, <2>3 DEF FrontInv
    <3>. QED BY <1>1, <1>9, <3>1, <3>2, <3>3 DEF FrontInv, At, new
  <2>. QED BY <1>1, <1>10, <2>3, <2>9, <2>10 DEF BFSInv, QueueInv, DepthsInv, TreeInv, VF!Judged
<1>12. CASE depth[v] # -1
  <2>1. UNCHANGED <<depth, list>> /\ v \in VF!Elems(list)
    BY <1>1, <1>3, <1>5, <1>12
  <2>2. OrderInv' /\ FrontInv'
    BY <1>1, <1>2, <1>4, <2>1 DEF OrderInv, FrontInv, At, Dist
  <2>. QED BY <1>1, <1>10, <2>1, <2>2 DEF BFSInv, QueueInv, DepthsInv, TreeInv, VF!Judged
<1>. QED BY <1>11, <1>12

(* When the list is exhausted it has every vertex that can be reached: the *)
(* nearest one missing would hang from one that is there.                  *)
LEMMA EndSearchQueue ==
  ASSUME IInv, BFSInv, VF!EndSearch
  PROVE  BFSInv'
<1>1. /\ stage = "search" /\ nbrs = <<>> /\ next > Len(list)
      /\ stage' = IF kernel = "bfs" THEN "check" ELSE "labels"
      /\ UNCHANGED <<kernel, port, graph, source, result, depth, visited, labels, label,
                     list, next, at, nbrs>>
  BY DEF VF!EndSearch, VF!given
<1>2. CASE kernel # "bfs"
  BY <1>1, <1>2 DEF BFSInv, QueueInv, DepthsInv, TreeInv
<1>3. CASE kernel = "bfs"
  <2>. USE <1>3
  <2>1. OrderInv /\ FrontInv /\ FoundInv
    BY <1>1 DEF BFSInv, QueueInv
  <2>2. /\ VF!TypeOK /\ Len(list) \in Nat /\ DOMAIN list = 1 .. Len(list)
        /\ next \in 1 .. Len(list) + 1
        /\ \A i \in DOMAIN list : list[i] \in VF!V /\ At(i) \in 0 .. NumNodes
        /\ \A n : n \in VF!Elems(list) <=> \E i \in DOMAIN list : n = list[i]
        /\ \A n \in VF!V : depth[n] # -1 <=> n \in VF!Elems(list)
    BY <1>1, ListFacts
  <2>3. \A i \in DOMAIN list : \A m \in VF!Elems(graph.out[list[i]]) : m \in VF!Elems(list)
    <3>1. \A i \in DOMAIN list : i \in 1 .. next - 1
      BY <1>1, <2>2
    <3>2. \A m : m \notin VF!Elems(nbrs)
      BY <1>1 DEF VF!Elems
    <3>. QED BY <2>1, <3>1, <3>2 DEF FoundInv
  <2>4. \A n \in VF!V : n \in VF!Elems(list) => depth[n] = Dist[n] /\ Dist[n] # Unreachable
    BY <2>1, <2>2 DEF OrderInv, At
  <2>5. ASSUME NEW n \in VF!V, Dist[n] # Unreachable PROVE n \in VF!Elems(list)
    <3>. DEFINE Missing == {k \in Nat : \E m \in VF!V :
                              Dist[m] = k /\ k # Unreachable /\ m \notin VF!Elems(list)}
    <3>. SUFFICES ASSUME n \notin VF!Elems(list) PROVE FALSE
      OBVIOUS
    <3>1. Missing # {} /\ Missing \subseteq Nat
      <4>1. Dist[n] \in Nat
        BY <2>2, DistFacts
      <4>. QED BY <2>5, <4>1
    <3>2. PICK k \in Missing : \A j \in Missing : k <= j
      <4>. HIDE DEF Missing
      <4>. QED BY <3>1, LeastNumber
    <3>3. PICK m \in VF!V : Dist[m] = k /\ k # Unreachable /\ m \notin VF!Elems(list)
      BY <3>2
    <3>4. Dist[m] # 0
      BY <2>1, <2>2, <3>3, DistFacts DEF OrderInv
    <3>5. PICK p \in VF!V : m \in VF!Elems(graph.out[p]) /\ Dist[m] = Dist[p] + 1
      BY <2>2, <3>3, <3>4, DistFacts
    <3>6. p \notin VF!Elems(list)
      BY <2>2, <2>3, <3>3, <3>5
    <3>7. Dist[p] \in Nat /\ Dist[m] \in 0 .. NumNodes /\ Unreachable = NumNodes /\ NumNodes \in Nat
      BY <2>2, DistFacts
    <3>8. Dist[p] < k /\ Dist[p] # Unreachable
      BY <3>3, <3>5, <3>7
    <3>9. Dist[p] \in Missing
      BY <3>6, <3>7, <3>8
    <3>. QED BY <3>2, <3>3, <3>7, <3>8, <3>9
  <2>6. DepthsInv'
    <3>1. \A n \in VF!V : depth[n] = IF Dist[n] = Unreachable THEN -1 ELSE Dist[n]
      BY <2>2, <2>4, <2>5
    <3>. QED BY <1>1, <3>1 DEF DepthsInv, Dist, Unreachable
  <2>. QED BY <1>1, <2>6 DEF BFSInv, QueueInv, TreeInv, VF!Judged
<1>. QED BY <1>2, <1>3

(* With the right depths the tests of the parents are those of a tree of   *)
(* shortest paths.                                                         *)
LEMMA CheckParentsQueue ==
  ASSUME IInv, BFSInv, VF!CheckParents
  PROVE  BFSInv'
<1>1. /\ VF!TypeOK /\ stage = "check" /\ kernel = "bfs"
      /\ stage' = IF \A n \in VF!V : VF!ParentOk(n) THEN "accepted" ELSE "rejected"
      /\ UNCHANGED <<kernel, port, graph, source, result, depth, visited, labels, label,
                     list, next, at, nbrs>>
  BY DEF IInv, ShapeInv, VF!CheckParents, VF!given, VF!TypeOK
<1>2. \A n \in VF!V : depth[n] = IF Dist[n] = Unreachable THEN -1 ELSE Dist[n]
  BY <1>1 DEF BFSInv, DepthsInv
<1>3. /\ Dist[source] = 0 /\ Unreachable = NumNodes /\ NumNodes \in Nat \ {0}
      /\ \A n \in VF!V : Dist[n] \in 0 .. NumNodes /\ (Dist[n] = 0 => n = source)
  BY <1>1, DistFacts
<1>. DEFINE Hangs(n) ==
       IF n = source THEN result[n] = n
       ELSE IF Dist[n] = Unreachable THEN result[n] = -1
       ELSE result[n] \in VF!Elems(graph.in[n]) /\ Dist[result[n]] = Dist[n] - 1
<1>4. ASSUME NEW n \in VF!V PROVE VF!ParentOk(n) <=> Hangs(n)
  <2>1. result[n] \in VF!V \cup {-1} /\ source \in VF!V /\ -1 \notin VF!V /\ 0 # -1
    BY <1>1 DEF VF!TypeOK, VF!V
  <2>2. VF!Elems(graph.in[n]) \subseteq VF!V
    BY <1>1 DEF VF!TypeOK, VF!IsGraph, VF!Elems
  <2>3. CASE n = source
    <3>1. depth[n] = 0
      BY <1>2, <1>3, <2>3
    <3>. QED BY <2>1, <2>3, <3>1 DEF VF!ParentOk
  <2>4. CASE n # source /\ Dist[n] = Unreachable
    <3>1. depth[n] = -1
      BY <1>2, <2>4
    <3>. QED BY <2>4, <3>1 DEF VF!ParentOk
  <2>5. CASE n # source /\ Dist[n] # Unreachable
    <3>1. depth[n] = Dist[n] /\ Dist[n] \in 0 .. NumNodes /\ Dist[n] # 0 /\ depth[n] # -1
      BY <1>2, <1>3, <2>5
    <3>2. CASE result[n] = -1
      BY <2>1, <2>2, <2>5, <3>1, <3>2 DEF VF!ParentOk
    <3>3. CASE result[n] # -1
      <4>1. result[n] \in VF!V
        BY <2>1, <3>3
      <4>2. depth[result[n]] = Dist[n] - 1 <=> Dist[result[n]] = Dist[n] - 1
        BY <1>2, <1>3, <2>5, <3>1, <4>1
      <4>. QED BY <2>5, <3>1, <3>3, <4>2 DEF VF!ParentOk
    <3>. QED BY <3>2, <3>3
  <2>. QED BY <2>3, <2>4, <2>5
<1>5. VF!IsShortestPathTree <=> \A n \in VF!V : Hangs(n)
  <2>1. VF!Depth(graph, source) = Dist /\ VF!Unreachable = Unreachable
    BY SameWords DEF Dist
  <2>. QED BY <2>1 DEF VF!IsShortestPathTree
<1>. HIDE DEF Hangs
<1>6. VF!IsShortestPathTree' <=> VF!IsShortestPathTree
  BY <1>1 DEF VF!IsShortestPathTree
<1>7. TreeInv'
  BY <1>1, <1>4, <1>5, <1>6 DEF TreeInv
<1>. QED BY <1>1, <1>7 DEF BFSInv, QueueInv, DepthsInv

LEMMA BFSStep ==
  ASSUME IInv, BFSInv, [VF!Next]_(VF!vars)
  PROVE  BFSInv'
<1>1. ASSUME UNCHANGED VF!vars PROVE BFSInv'
  BY <1>1 DEF VF!vars, VF!given, BFSInv, QueueInv, OrderInv, FrontInv, FoundInv, At, Dist,
              DepthsInv, TreeInv, VF!Judged, VF!IsShortestPathTree
<1>2. ASSUME kernel # "bfs", VF!Next PROVE BFSInv'
  <2>1. kernel' = kernel
    BY <1>2 DEF VF!Next, VF!Terminated, VF!StartLabel, VF!Visit, VF!FindDepth, VF!FindLabel,
                VF!EndSearch, VF!CheckParents, VF!CheckVisited, VF!given, VF!vars
  <2>. QED BY <1>2, <2>1 DEF BFSInv, QueueInv, DepthsInv, TreeInv
<1>3. ASSUME kernel = "bfs", VF!StartLabel \/ VF!CheckVisited \/ VF!FindLabel PROVE BFSInv'
  BY <1>3 DEF IInv, ShapeInv, VF!StartLabel, VF!CheckVisited, VF!FindLabel
<1>. QED
  BY <1>1, <1>2, <1>3, VisitQueue, FindDepthQueue, EndSearchQueue, CheckParentsQueue
     DEF VF!Next, VF!Terminated
-----------------------------------------------------------------------------
(* What a step of the suite is to one of its programs.                     *)
LEMMA StepOfOne ==
  ASSUME [Next]_vars
  PROVE  /\ which' = which
         /\ which = "tc" => [TC!Next]_(TC!vars)
         /\ which = "verifiers" => [VF!Next]_(VF!vars)
<1>2. CASE UNCHANGED vars
  <2>1. which' = which
    BY <1>2 DEF vars
  <2>2. UNCHANGED TC!vars
    BY <1>2 DEF vars, Shared, OfTC, TC!vars
  <2>3. UNCHANGED VF!vars
    BY <1>2 DEF vars, Shared, OfVF, VF!vars, VF!given
  <2>. QED BY <2>1, <2>2, <2>3
<1>3. ASSUME Next PROVE which' = which
  BY <1>3 DEF Next
<1>4. ASSUME Next, which = "tc" PROVE TC!Next
  BY <1>4 DEF Next
<1>5. ASSUME Next, which = "verifiers" PROVE VF!Next
  BY <1>5 DEF Next
<1>. QED BY <1>2, <1>3, <1>4, <1>5

(* For every number of vertices, every family of undirected graphs without *)
(* self-loops and every outcome of the sampling, the iterator of           *)
(* OrderedCount stays in the list of v, although nothing tests for its     *)
(* end.                                                                    *)
THEOREM ScanNeverLeaves == Spec => []ScanInv
<1>1. Init => ScanInv
  BY InitScanInv DEF Init, ScanInv
<1>2. ScanInv /\ [Next]_vars => ScanInv'
  BY StepOfOne, NextScanInv DEF ScanInv
<1>. QED BY <1>1, <1>2, PTL DEF Spec

(* The inductive invariant of triangle counting.                           *)
CountingInv == which = "tc" => TC!ScanInv /\ CountInv

LEMMA CountingAlways == Spec => []CountingInv
<1>1. Init => CountingInv
  BY InitScanInv, InitCount DEF Init, CountingInv
<1>2. CountingInv /\ [Next]_vars => CountingInv'
  <2>1. ASSUME TC!ScanInv, CountInv, [TC!Next]_(TC!vars) PROVE CountInv'
    BY <2>1, SortedStep, CountStep DEF CountInv
  <2>. QED BY <2>1, StepOfOne, NextScanInv DEF CountingInv
<1>. QED BY <1>1, <1>2, PTL DEF Spec

(* For every number of vertices, every family of undirected graphs without *)
(* self-loops, every outcome of the sampling and every order in which the  *)
(* vertices are handed out, the running total is the number of triangles   *)
(* passed, and Hybrid returns the number of triangles of the graph, which  *)
(* is what TCVerifier counts another way.                                  *)
THEOREM TrianglesExact == Spec => []ResultExact
<1>1. ASSUME TC!ScanInv, CountInv PROVE TC!ResultExact
  <2>1. TC!TrianglesCounted /\ SortedInv /\ BehindInv /\ graph \in TCGraphs
    BY <1>1 DEF CountInv, TC!ScanInv, TC!TypeOK
  <2>2. ASSUME control = "done"
        PROVE  sum = TC!Cardinality(TC!Clique(graph.out)) /\ TC!TCVerifier(sum)
    <3>1. work = {}
      BY <2>1, <2>2 DEF BehindInv
    <3>2. \A t \in TC!Clique(out) : TC!Passed(t)
      BY <2>2, <3>1 DEF TC!Passed
    <3>3. {t \in TC!Clique(out) : TC!Passed(t)} = TC!Clique(out)
      BY <3>2
    <3>4. sum = Cardinality(TC!Clique(out))
      BY <2>1, <2>2, <3>3, SameCardinality DEF TC!TrianglesCounted
    <3>5. sum = Cardinality(TC!Clique(graph.out))
      BY <2>1, <3>4 DEF SortedInv
    <3>. QED BY <2>1, <3>5, SameCardinality, CountedExact DEF TC!TCVerifier
  <2>. QED BY <2>1, <2>2 DEF TC!ResultExact
<1>2. CountingInv => ResultExact
  BY <1>1 DEF CountingInv, ResultExact
<1>. QED BY <1>2, CountingAlways, PTL

VerifierInv == which = "verifiers" => IInv /\ BFSInv

LEMMA VerifiersAlways == Spec => []VerifierInv
<1>1. Init => VerifierInv
  BY InitInv, InitBFSInv DEF Init, VerifierInv
<1>2. VerifierInv /\ [Next]_vars => VerifierInv'
  BY StepOfOne, VerifiersStep, BFSStep DEF VerifierInv
<1>. QED BY <1>1, <1>2, PTL DEF Spec

(* The list of either verifier holds no vertex twice and stays within the  *)
(* num_nodes entries reserved for it, so the iterator over it stays valid. *)
THEOREM ListAlways == Spec => []ListInv
<1>1. ASSUME IInv PROVE VF!ListInv
  BY <1>1, ShortList DEF IInv, ShapeInv, VF!TypeOK, VF!ListInv, VF!ReserveSuffices, NoDuplicates
<1>2. VerifierInv => ListInv
  BY <1>1 DEF VerifierInv, ListInv
<1>. QED BY <1>2, VerifiersAlways, PTL

(* BFSVerifier accepts the trees of shortest paths over what is reachable  *)
(* and CCVerifier the labellings that tell the components apart, for every *)
(* graph, source and result; each rejects everything else.                 *)
THEOREM VerdictsExact == Spec => []VerdictExact
<1>1. ASSUME IInv, BFSInv PROVE VF!VerdictExact
  BY <1>1 DEF IInv, ShapeInv, VF!TypeOK, VerdictInv, BFSInv, TreeInv, VF!VerdictExact
<1>2. VerifierInv => VerdictExact
  BY <1>1 DEF VerifierInv, VerdictExact
<1>. QED BY <1>2, VerifiersAlways, PTL
=============================================================================
