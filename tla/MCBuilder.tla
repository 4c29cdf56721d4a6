------------------------------ MODULE MCBuilder -----------------------------
(* Instances of Builder for TLC.                                           *)
EXTENDS Builder, TLC

E(a, b, w) == [u |-> a, v |-> b, w |-> w]
EdgesOver(k, Ws) == {E(a, b, w) : a \in 0 .. k - 1, b \in 0 .. k - 1, w \in Ws}

(* Every list of at most two edges over 3 vertices with two weights.       *)
Short == UNION {[1 .. k -> EdgesOver(3, {1, 2})] : k \in 0 .. 2}

(* Lists of three unweighted edges over 2 vertices, with parallel edges    *)
(* and self-loops, for two threads to meet in one neighbour list.          *)
Dense == [1 .. 3 -> EdgesOver(2, {0})]

(* Every set of edges over 3 vertices, and of at most six over 4, without  *)
(* self-loops, in descending order, twice, with a self-loop between: what  *)
(* is left after sorting is any sequence the in-place steps can see.       *)
Descending(S) ==
  [j \in 1 .. Cardinality(S) |->
     CHOOSE e \in S : Cardinality({x \in S : (e.u < x.u \/ (e.u = x.u /\ e.v < x.v))}) = j - 1]
Sets(k, size) ==
  {Descending(S) : S \in {T \in SUBSET {e \in EdgesOver(k, {0}) : e.u # e.v} :
                            Cardinality(T) <= size}}
Doubled(lists) == {s \o <<E(1, 1, 0)>> \o s : s \in lists}

Samples ==
  [el : Short \cup Dense, symmetrize : BOOLEAN, inPlace : {FALSE}]
  \cup [el : Doubled(Sets(3, 6)), symmetrize : {FALSE}, inPlace : {TRUE}]
  \cup [el : Doubled(Sets(4, 6)), symmetrize : {TRUE}, inPlace : {TRUE}]

(* The cfg names a definition of its own, so that TLC evaluates the set    *)
(* above once and not at every use.                                        *)
MCInputs == Samples
=============================================================================
