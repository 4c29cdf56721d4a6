---------------------------- MODULE MCParallelBFS ----------------------------
(* Instances of ParallelBFS for TLC.                                       *)
EXTENDS ParallelBFS, GraphSamples, TLC

(* Six vertices on which DOBFS goes bottom-up, top-down and bottom-up      *)
(* again with alpha = 6: two short branches, then a tail; any of the extra *)
(* edges may be added.                                                     *)
Branches == {<<0, 1>>, <<0, 2>>, <<1, 3>>, <<3, 4>>, <<4, 5>>}
Extra == {<<2, 3>>, <<1, 2>>, <<2, 4>>}
SwitchBack ==
  {Undirected(Branches \cup E) : E \in SUBSET Extra}
  \cup {Directed(Symmetric(Branches) \cup E) : E \in SUBSET Extra}

(* Vertices 4 and 5 isolated, and two to four ways to the vertices 2 and 3 *)
(* that the first threads meet at.                                         *)
Meetings ==
  {Undirected({<<0, 1>>, <<0, 2>>} \cup E) : E \in SUBSET {<<1, 2>>, <<1, 3>>, <<2, 3>>}}

Samples == SwitchBack \cup Meetings

(* The cfg names a definition of its own, so that TLC evaluates the set    *)
(* above once and not at every use.                                        *)
MCGraphs == Samples
=============================================================================
