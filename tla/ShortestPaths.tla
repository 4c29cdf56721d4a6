---------------------------- MODULE ShortestPaths ----------------------------
(***************************************************************************)
(* What a label-correcting search for shortest paths promises: a label is  *)
(* always the length of some walk from the source, it only ever drops, and *)
(* the labels are returned when they are the lengths of shortest paths.    *)
(***************************************************************************)
EXTENDS WeightedGraph

CONSTANT Infinity   \* the label of a vertex not reached yet

VARIABLES g, source, dist, done

Init ==
  /\ IsWeightedGraph(g)
  /\ source \in V
  /\ dist = [n \in V |-> IF n = source THEN 0 ELSE Infinity]
  /\ done = FALSE

(* The label of n drops to the length of a walk.                           *)
Improve(n) ==
  /\ ~done
  /\ dist'[n] < dist[n] /\ <<n, dist'[n]>> \in Walks(g, source)
  /\ dist' = [dist EXCEPT ![n] = dist'[n]]
  /\ UNCHANGED <<g, source, done>>

Finish ==
  /\ ~done /\ done' = TRUE
  /\ dist = ShortestLengths(g, source, Infinity)
  /\ UNCHANGED <<g, source, dist>>

Next == Finish \/ \E n \in V : Improve(n)

Spec == Init /\ [][Next]_<<g, source, dist, done>>
=============================================================================
