---------------------------- MODULE WeightedGraph ----------------------------
(***************************************************************************)
(* The graph SSSP reads: a CSRGraph whose neighbours are NodeWeight pairs  *)
(* (src/src/graph.h, src/srcc/base.h), and the reference definition of     *)
(* weighted distance its results are judged by.                            *)
(***************************************************************************)
EXTENDS CSRGraph

(* How many numbers a WeightT has: 2^32 in the code, a 32 bit integer.     *)
CONSTANT WeightRange

ASSUME WeightRangeAssumption == WeightRange \in Nat \ {0} /\ WeightRange % 4 = 0

(* Two's complement: what a WeightT keeps of n.                            *)
Truncate(n) ==
  LET r == n % WeightRange IN IF r >= WeightRange \div 2 THEN r - WeightRange ELSE r

(* A neighbour and the weight of the edge to it.  The kernels ask for      *)
(* weights that are not negative; the generators make positive ones.       *)
NodeWeight == [v : V, w : Nat]

IsWeightedGraph(g) == g.out \in [V -> Seq(NodeWeight)]

(***************************************************************************)
(* The ends and lengths of the walks from s of fewer than NumNodes edges.  *)
(* As no weight is negative, a shortest walk to each vertex is among them. *)
(***************************************************************************)
Walks(g, s) ==
  LET within[k \in 0 .. NumNodes - 1] ==
        IF k = 0 THEN {<<s, 0>>}
        ELSE LET shorter == within[k - 1] IN
               shorter \cup UNION {{<<e.v, p[2] + e.w>> : e \in Elems(g.out[p[1]])} : p \in shorter}
  IN  within[NumNodes - 1]

(* The length of a shortest path from s to each vertex, far if there is    *)
(* none.                                                                   *)
ShortestLengths(g, s, far) ==
  LET walks == Walks(g, s)
      Lengths(n) == {p[2] : p \in {q \in walks : q[1] = n}}
  IN  [n \in V |-> IF Lengths(n) = {} THEN far
                   ELSE CHOOSE l \in Lengths(n) : \A m \in Lengths(n) : l <= m]
=============================================================================
