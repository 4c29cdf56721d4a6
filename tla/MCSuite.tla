------------------------------- MODULE MCSuite -------------------------------
(***************************************************************************)
(* Instances for TLC of the programs that share no state with another.     *)
(* The cfg gives each set of graphs and options to a constant, so that TLC *)
(* evaluates it once and not at every use.                                 *)
(***************************************************************************)
EXTENDS Suite, GraphSamples

(* Triangle counting runs on all undirected graphs.                        *)
AllUndirected == {Undirected(E) : E \in SUBSET {e \in Pairs : e[1] < e[2]}}

(* Two ways from 0 to 3, with more edges between or beside them.           *)
Ways == {<<0, 1>>, <<0, 2>>, <<1, 3>>, <<2, 3>>}
Beside == {<<1, 2>>, <<0, 3>>}
Lattices ==
  {Undirected(Ways \cup E) : E \in SUBSET Beside}
  \cup {Directed(Ways \cup E) : E \in SUBSET (Beside \cup {<<3, 0>>})}

(* Vertex 3 has two ways from 0, or hangs from a cycle that leads back.    *)
Hangings ==
  {Undirected(E) : E \in SUBSET {<<0, 1>>, <<0, 2>>, <<1, 2>>, <<1, 3>>}}
  \cup {Directed(E) : E \in SUBSET {<<0, 1>>, <<1, 2>>, <<2, 0>>, <<3, 2>>}}

(* Some graphs of three vertices; two iterations, or one in two trials.    *)
Small == INSTANCE GraphSamples WITH NumNodes <- 3
Three ==
  {Small!Undirected(E) : E \in SUBSET {<<0, 1>>, <<1, 2>>}}
  \cup {Small!Directed(E) : E \in SUBSET {<<0, 1>>, <<0, 2>>, <<1, 2>>, <<2, 0>>}}

Units == 24576
O(opt, arg) == [opt |-> opt, arg |-> arg]
Options ==
  {<<O("g", 2), O("n", 1), O("i", iters), O("t", tolerance), O("v", 0), O("a", 0)>> :
     iters \in {0, 2}, tolerance \in {Units \div 8, Units \div 3}}
  \cup {<<O("f", <<"in", ".el">>), O("n", 2), O("i", 1), O("v", 0)>>}
=============================================================================
