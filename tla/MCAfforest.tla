----------------------------- MODULE MCAfforest -----------------------------
(* Instances of Afforest for TLC.                                          *)
EXTENDS Afforest, GraphSamples

(* A vertex of three neighbours whose third is sampled in no round: only   *)
(* the final loop links it, from the end that has the edge.  Edges back    *)
(* join the others, or not, before it does.                                *)
Fan == {<<0, 1>>, <<0, 2>>, <<0, 3>>}
Fans == {Directed(Fan \cup E) : E \in SUBSET {<<2, 1>>, <<3, 2>>, <<3, 0>>}}

(* Paths, a cycle and a cycle with a chord, the lowest vertex inside or    *)
(* at an end, whole or in two parts.                                       *)
Cycles == {Undirected({<<1, 3>>, <<2, 3>>} \cup E) : E \in SUBSET {<<0, 1>>, <<0, 2>>, <<1, 2>>}}

Samples == Fans \cup Cycles

(* The cfg names a definition of its own, so that TLC evaluates the set    *)
(* above once and not at every use.                                        *)
MCGraphs == Samples
=============================================================================
