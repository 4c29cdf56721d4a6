-------------------------- MODULE MCShiloachVishkin --------------------------
(* Instances of ShiloachVishkin for TLC.                                   *)
EXTENDS ShiloachVishkin, GraphSamples

AllDirected == {Directed(E) : E \in SUBSET Pairs}

(* The cfg names a definition of its own, so that TLC evaluates the set    *)
(* above once and not at every use.                                        *)
MCGraphs == AllDirected
=============================================================================
