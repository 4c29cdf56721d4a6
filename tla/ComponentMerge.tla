---------------------------- MODULE ComponentMerge ----------------------------
(***************************************************************************)
(* What a connected-components kernel promises, with nothing of how: the   *)
(* vertices start apart, the two ends of an edge may be brought together,  *)
(* nothing is ever taken apart, and the kernel stops only when every       *)
(* component has come together.                                            *)
(***************************************************************************)
EXTENDS CSRGraph

VARIABLES g,      \* the graph
          part,   \* the partition of the vertices reached so far
          done    \* the kernel has returned

Init ==
  /\ IsGraph(g)
  /\ part = {{v} : v \in V}
  /\ done = FALSE

Merge ==
  /\ ~done
  /\ \E e \in Edges(g), A, B \in part :
       /\ e[1] \in A /\ e[2] \in B /\ A # B
       /\ part' = (part \ {A, B}) \cup {A \cup B}
  /\ UNCHANGED <<g, done>>

Finish ==
  /\ ~done /\ done' = TRUE
  /\ part = {ComponentOf(g, v) : v \in V}
  /\ UNCHANGED <<g, part>>

Next == Merge \/ Finish

Spec == Init /\ [][Next]_<<g, part, done>>
=============================================================================
