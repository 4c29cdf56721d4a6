------------------------------ MODULE CSRGraph ------------------------------
(***************************************************************************)
(* The graph the kernels read: src/src/graph.h (CSRGraph) and its C port   *)
(* src/srcc/graph.h (Graph).  A built graph never changes, so it is a      *)
(* value: a record with the directed flag and, per vertex, the sequence of *)
(* out- and in-neighbours in the order the CSR arrays hold them.  An       *)
(* undirected graph shares one index for both directions.                  *)
(***************************************************************************)
EXTENDS Integers, Sequences, FiniteSets

CONSTANT NumNodes      \* num_nodes_: vertices are 0 .. num_nodes_ - 1

ASSUME NumNodesAssumption == NumNodes \in Nat \ {0}

V == 0 .. NumNodes - 1

Elems(s) == {s[i] : i \in DOMAIN s}

(* Neighborhood: the iterator range of a vertex from a clamped offset on.  *)
Neighborhood(s, start) == SubSeq(s, start + 1, Len(s))

OutNeigh(g, u, start) == Neighborhood(g.out[u], start)
InNeigh(g, u) == g.in[u]
OutDegree(g, u) == Len(g.out[u])

Edges(g) == {e \in V \X V : e[2] \in Elems(g.out[e[1]])}

(* What a constructed CSRGraph satisfies, whatever it was built from: both *)
(* indexes describe the same edges, and an undirected one has each edge in *)
(* both directions.                                                        *)
IsGraph(g) ==
  /\ g \in [directed : BOOLEAN, out : [V -> Seq(V)], in : [V -> Seq(V)]]
  /\ \A u, v \in V : v \in Elems(g.out[u]) <=> u \in Elems(g.in[v])
  /\ ~g.directed => g.in = g.out

(***************************************************************************)
(* Reference notion, used by properties only: u and v are in one weakly    *)
(* connected component iff no set closed under edges separates them.       *)
(***************************************************************************)
Closed(g, S) == \A e \in Edges(g) : e[1] \in S <=> e[2] \in S

Connected(g, u, v) == \A S \in SUBSET V : Closed(g, S) => (u \in S <=> v \in S)

ComponentOf(g, v) == {w \in V : Connected(g, v, w)}
=============================================================================
