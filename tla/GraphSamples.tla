---------------------------- MODULE GraphSamples ----------------------------
(***************************************************************************)
(* Small families of graphs for the MC modules.  Neighbour lists are       *)
(* sorted, without duplicates or self-loops: what SquishCSR                *)
(* (src/src/builder.h) and DeduplicateEdges (src/srcc/builder.h) leave.    *)
(* Bound names are no module's variables: TLC evaluates a constant once    *)
(* only when none of the names in it is one's.                             *)
(***************************************************************************)
EXTENDS CSRGraph, TLC
LOCAL INSTANCE SequencesExt

Ascending(S) == SetToSortSeq(S, LAMBDA x, y : x < y)

FromEdges(E, isDirected) ==
  [directed |-> isDirected,
   out |-> [x \in V |-> Ascending({y \in V : <<x, y>> \in E})],
   in  |-> [y \in V |-> Ascending({x \in V : <<x, y>> \in E})]]

Pairs == {e \in V \X V : e[1] # e[2]}
Symmetric(E) == E \cup {<<e[2], e[1]>> : e \in E}

Undirected(E) == FromEdges(Symmetric(E), FALSE)
Directed(E) == FromEdges(E, TRUE)
=============================================================================
