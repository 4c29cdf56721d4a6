----------------------------- MODULE MCDeltaStep -----------------------------
(* Instances of DeltaStep for TLC.                                         *)
EXTENDS DeltaStep, WeightedSamples, TLC

CONSTANT Weights   \* edge weights of the sample graphs

(* All graphs of the vertices 0, 1 and 2.                                  *)
Small == {e \in Pairs : e[1] < 3 /\ e[2] < 3}
SmallGraphs == {Weighted(f) : f \in [Small -> Weights \cup {NoEdge}]}

(* Vertex 0 has edges to all others: the heap comes to hold four entries,  *)
(* and two of one vertex.                                                  *)
Fan == {<<0, 1>>, <<0, 2>>, <<0, 3>>, <<0, 4>>, <<3, 2>>}
Fans == {Weighted(f) : f \in [Fan -> Weights]}

Samples == SmallGraphs \cup Fans

(* numeric_limits<WeightT>::max() / 2, the constant of src/src/sssp.cc:64. *)
HalfMax == (WeightRange \div 2 - 1) \div 2

(* The cfg names a definition of its own, so that TLC evaluates the set    *)
(* above once and not at every use.                                        *)
MCGraphs == Samples

(* The samples fit, as the theorems of DeltaStepProofs ask, with the       *)
(* constant of the C++ program and with the one of the C port.             *)
ASSUME FitAssumption == WeightsFit
=============================================================================
