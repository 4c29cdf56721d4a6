------------------------------- MODULE MCCBFS -------------------------------
(* Instances of CBFS for TLC.                                              *)
EXTENDS CBFS, GraphSamples

(* Six vertices on which DOBFS goes bottom-up, top-down and bottom-up      *)
(* again with alpha = 6; graphs with isolated vertices; one without edges. *)
Branches == {<<0, 1>>, <<0, 2>>, <<1, 3>>, <<3, 4>>, <<4, 5>>}
Samples ==
  {Undirected(Branches \cup E) : E \in SUBSET {<<2, 3>>, <<2, 4>>}}
  \cup {Directed(Symmetric(Branches) \cup {<<2, 3>>}), Directed(Branches)}
  \cup {Undirected(E) : E \in {{}, {<<0, 1>>, <<0, 2>>, <<1, 2>>}, {<<2, 3>>, <<3, 4>>}}}

(* Cycles of eight draws through all six vertices.                         *)
AllStreams ==
  {[i \in 1 .. 8 |-> (step * i + first) % 6] : step \in {1, 5}, first \in {0, 2, 3}}

O(opt, arg) == [opt |-> opt, arg |-> arg]
AllCommandLines ==
  {<<O("g", 2), O("n", 2), O("v", 0)>>, <<O("g", 2), O("n", 2), O("a", 0)>>,
   <<O("f", <<"in", ".el">>), O("r", 0), O("n", 1), O("v", 0), O("a", 0)>>,
   <<O("f", <<"in", ".el">>), O("n", 0), O("a", 0)>>}

(* The cfg names definitions of its own, so that TLC evaluates the sets    *)
(* above once and not at every use.                                        *)
MCGraphs == Samples
MCStreams == AllStreams
MCCommandLines == AllCommandLines
=============================================================================
