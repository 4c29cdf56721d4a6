--------------------------- MODULE WeightedSamples ---------------------------
(* Small families of weighted graphs for the MC modules.                   *)
EXTENDS WeightedGraph
LOCAL INSTANCE SequencesExt

NoEdge == -1
Pairs == {e \in V \X V : e[1] # e[2]}

(* The graph with an edge of weight f[e] for each pair e that has one;     *)
(* neighbour lists are sorted by vertex.                                   *)
Weighted(f) ==
  [out |-> [n \in V |->
     LET s == SetToSortSeq({m \in V : <<n, m>> \in DOMAIN f /\ f[<<n, m>>] # NoEdge},
                           LAMBDA x, y : x < y)
     IN  [x \in DOMAIN s |-> [v |-> s[x], w |-> f[<<n, s[x]>>]]]]]
=============================================================================
