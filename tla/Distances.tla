------------------------------ MODULE Distances ------------------------------
(***************************************************************************)
(* Reference definition of hop distances, used by properties only.  It     *)
(* grows balls around the source, so it shares nothing with the searches   *)
(* it judges.                                                              *)
(***************************************************************************)
EXTENDS CSRGraph

(* The vertices at most k edges away from s.                               *)
Ball(gr, s) ==
  LET ball[k \in 0 .. NumNodes] ==
        IF k = 0 THEN {s}
        ELSE ball[k - 1] \cup UNION {Elems(gr.out[n]) : n \in ball[k - 1]}
  IN  ball

Unreachable == NumNodes

(* The least number of edges from s to each vertex.                        *)
Depth(gr, s) ==
  LET ball == Ball(gr, s) IN
    [n \in V |-> IF n \notin ball[NumNodes] THEN Unreachable
                 ELSE CHOOSE k \in 0 .. NumNodes :
                        n \in ball[k] /\ \A j \in 0 .. k - 1 : n \notin ball[j]]
=============================================================================
