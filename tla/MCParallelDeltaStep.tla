------------------------- MODULE MCParallelDeltaStep -------------------------
(* Instances of ParallelDeltaStep for TLC.                                 *)
EXTENDS ParallelDeltaStep, WeightedSamples

CONSTANT Weights   \* edge weights of the sample graphs

(* Two ways from 0 to 3, so that threads race for vertex 3, with any       *)
(* weights; an edge between the two ways and one back may be added.        *)
Diamond == {<<0, 1>>, <<0, 2>>, <<1, 3>>, <<2, 3>>}
Extra == {<<2, 1>>, <<3, 1>>, <<0, 3>>}
Diamonds ==
  {Weighted(f) : f \in {h \in [Diamond \cup Extra -> Weights \cup {NoEdge}] :
                           \A e \in Diamond : h[e] # NoEdge}}

(* The cfg names a definition of its own, so that TLC evaluates the set    *)
(* above once and not at every use.                                        *)
MCGraphs == Diamonds
=============================================================================
