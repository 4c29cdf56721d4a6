------------------------------- MODULE CBuilder ------------------------------
(***************************************************************************)
(* The C port's graph builder: src/srcc/builder.h.  Unlike the C++ port's, *)
(* it symmetrizes and deduplicates the edge list before it makes a graph   *)
(* of it: a radix sort, a compaction within the array, and two counting    *)
(* passes.  An edge list with weights is treated as one without, but for   *)
(* the weights carried along.                                              *)
(***************************************************************************)
EXTENDS Generator, GraphFile
LOCAL INSTANCE SequencesExt
LOCAL INSTANCE FiniteSetsExt

CONSTANT Buckets  \* BUCKETS, 1 << 16 in the code: two digits make a vertex

ASSUME BucketsAssumption == Buckets \in Nat \ {0}

VARIABLES
  num_nodes,     \* -1 until it is known
  pass,          \* the pass of the radix sort
  read, write,   \* the indices of the compaction
  graph          \* the graph built

NoGraph ==
  [directed |-> FALSE, num_nodes |-> -1, num_edges |-> 0,
   out_offsets |-> <<0>>, out_neighs |-> <<>>, in_offsets |-> <<0>>, in_neighs |-> <<>>]

BuilderMaxNode(list) ==
  Max({-1} \cup {Source(list[i]) : i \in DOMAIN list} \cup {Target(list[i]) : i \in DOMAIN list})

(* Every edge is appended turned around.                                   *)
BuilderAppendSymmetry(list) == list \o [i \in DOMAIN list |-> Reversed(list[i])]

(* Mutant: a vertex gives one digit to the key.                            *)
EdgeKey_OneDigit(e, k) == (IF k < 2 THEN Target(e) ELSE Source(e)) % Buckets

(* The digit of an edge's key that a pass sorts by: the target's first.    *)
EdgeKey(e, k) ==
  LET id == IF k < 2 THEN Target(e) ELSE Source(e)
  IN  IF k % 2 = 0 THEN id % Buckets ELSE (id \div Buckets) % Buckets

(* One pass: counting makes every bucket a stretch of the other array, and *)
(* edges go to their stretches in the order they have.                     *)
RadixPass(list, k) ==
  FlattenSeq([b \in 1 .. Buckets |-> SelectSeq(list, LAMBDA e : EdgeKey(e, k) = b - 1)])

SameEnds(a, b) == Source(a) = Source(b) /\ Target(a) = Target(b)

(* Mutant: only the targets are compared.                                  *)
Keeps_TargetOnly(list, r, w) ==
  ~IsLoop(list[r]) /\ (w = 0 \/ Target(list[r]) # Target(list[w]))

(* The compaction keeps an edge that differs from the last one kept.       *)
Keeps(list, r, w) ==
  /\ ~IsLoop(list[r])
  /\ w = 0 \/ ~SameEnds(list[r], list[w])

(* How many edges have an end in each vertex, given the ends of the edges  *)
(* on one side, and where the neighbours of each vertex begin.             *)
Degree(ends, u) == Cardinality({i \in DOMAIN ends : ends[i] = u})

Offsets(ends, n) ==
  LET sum[u \in 0 .. n] == IF u = 0 THEN 0 ELSE sum[u - 1] + Degree(ends, u - 1)
  IN  [u \in 1 .. n + 1 |-> sum[u - 1]]

(* Every edge goes to the next free place of its vertex.                   *)
Placed(ends, dests, n) ==
  LET offsets == Offsets(ends, n)
      Place(i) == offsets[ends[i] + 1] + Cardinality({j \in 1 .. i : ends[j] = ends[i]})
  IN  [p \in DOMAIN dests |-> dests[CHOOSE i \in DOMAIN ends : Place(i) = p]]

OutDest(e) == Tail(e)
InDest(e) == Tail(Reversed(e))

BuilderEdgesToCSR(list, n, symmetrize) ==
  LET sources == [i \in DOMAIN list |-> Source(list[i])]
      targets == [i \in DOMAIN list |-> Target(list[i])]
      outs == [i \in DOMAIN list |-> OutDest(list[i])]
      ins == [i \in DOMAIN list |-> InDest(list[i])]
  IN  [directed |-> ~symmetrize, num_nodes |-> n,
       num_edges |-> IF symmetrize THEN Len(list) \div 2 ELSE Len(list),
       out_offsets |-> Offsets(sources, n),
       out_neighs |-> Placed(sources, outs, n),
       in_offsets |-> Offsets(targets, n),
       in_neighs |-> Placed(targets, ins, n)]
-----------------------------------------------------------------------------
builderVars == <<num_nodes, pass, read, write, graph>>

BuilderInit ==
  /\ num_nodes = -1 /\ pass = 0 /\ read = 0 /\ write = 0
  /\ graph = NoGraph

(* ProcessEdges: first the reversed edges, when asked for.                 *)
Symmetrize ==
  /\ pc = "process" /\ port = "C"
  /\ edges' = IF cl.symmetrize THEN BuilderAppendSymmetry(edges) ELSE edges
  /\ pc' = IF edges = <<>> THEN "csr" ELSE "radix"
  /\ pass' = 0
  /\ UNCHANGED <<port, cl, generatorVars, num_nodes, read, write, graph>>

RadixSort ==
  /\ pc = "radix" /\ pass < 4
  /\ edges' = RadixPass(edges, pass)
  /\ pass' = pass + 1
  /\ UNCHANGED <<port, cl, pc, generatorVars, num_nodes, read, write, graph>>

StartDedup ==
  /\ pc = "radix" /\ pass = 4
  /\ read' = 1 /\ write' = 0 /\ pc' = "dedup"
  /\ UNCHANGED <<port, cl, edges, generatorVars, num_nodes, pass, graph>>

(* One edge of the compaction.  read counts from 1, write is how many were *)
(* kept.                                                                   *)
DedupEdge ==
  /\ pc = "dedup" /\ read <= Len(edges)
  /\ IF Keeps(edges, read, write)
       THEN edges' = [edges EXCEPT ![write + 1] = edges[read]] /\ write' = write + 1
       ELSE UNCHANGED <<edges, write>>
  /\ read' = read + 1
  /\ UNCHANGED <<port, cl, pc, generatorVars, num_nodes, pass, graph>>

EndDedup ==
  /\ pc = "dedup" /\ read > Len(edges)
  /\ edges' = SubSeq(edges, 1, write)
  /\ pc' = "csr"
  /\ UNCHANGED <<port, cl, generatorVars, builderVars>>

MakeCSR ==
  /\ pc = "csr"
  /\ graph' = BuilderEdgesToCSR(edges, num_nodes, cl.symmetrize)
  /\ pc' = "write"
  /\ UNCHANGED <<port, cl, edges, generatorVars, num_nodes, pass, read, write>>

BuilderStep == Symmetrize \/ RadixSort \/ StartDedup \/ DedupEdge \/ EndDedup \/ MakeCSR
=============================================================================
