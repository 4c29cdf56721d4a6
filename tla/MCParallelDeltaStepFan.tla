----------------------- MODULE MCParallelDeltaStepFan -----------------------
(* An instance of ParallelDeltaStep for TLC: a fan of four vertices behind *)
(* vertex 1, which is reached at distance 3 and then at distance 2.  With  *)
(* delta 4 each visit puts the whole fan into bin 1: eight entries over    *)
(* seven edges.                                                            *)
EXTENDS ParallelDeltaStep, WeightedSamples

Path == {<<0, 1>>, <<0, 2>>, <<2, 1>>}
Fan == Path \cup {<<1, n>> : n \in 3 .. 6}
FanGraph == {Weighted([e \in Fan |-> IF e[1] = 1 THEN 4 ELSE IF e = <<0, 1>> THEN 3 ELSE 1])}

(* The cfg names a definition of its own, so that TLC evaluates the set    *)
(* above once and not at every use.                                        *)
MCGraphs == FanGraph
=============================================================================
