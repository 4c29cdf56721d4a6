------------------------------- MODULE BFSTree -------------------------------
(***************************************************************************)
(* What a breadth-first search promises: a tree of shortest paths, grown   *)
(* level by level, in which no vertex ever changes its parent, and which   *)
(* is returned when everything reachable is in it.                         *)
(***************************************************************************)
EXTENDS Distances

VARIABLES g, source,
          tree,   \* parent of each vertex of the tree, NoParent for the others
          done

NoParent == -1

InTree(n) == tree[n] # NoParent

Init ==
  /\ IsGraph(g)
  /\ source \in V
  /\ tree = [n \in V |-> IF n = source THEN source ELSE NoParent]
  /\ done = FALSE

(* n joins below p, one level further out, once p's level is complete.     *)
Join(n, p) ==
  /\ ~done
  /\ ~InTree(n) /\ InTree(p) /\ p \in Elems(g.in[n])
  /\ tree' = [tree EXCEPT ![n] = p]
  /\ LET dist == Depth(g, source) IN
       /\ dist[n] = dist[p] + 1
       /\ \A m \in V : dist[m] <= dist[p] => InTree(m)
  /\ UNCHANGED <<g, source, done>>

Finish ==
  /\ ~done /\ done' = TRUE
  /\ {n \in V : InTree(n)} = Ball(g, source)[NumNodes]
  /\ UNCHANGED <<g, source, tree>>

Next == Finish \/ \E n, p \in V : Join(n, p)

Spec == Init /\ [][Next]_<<g, source, tree, done>>
=============================================================================
