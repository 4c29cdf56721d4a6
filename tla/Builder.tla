------------------------------- MODULE Builder -------------------------------
(***************************************************************************)
(* Building a graph from an edge list: MakeGraphFromEL, MakeCSR,           *)
(* MakeCSRInPlace and SquishGraph of src/src/builder.h.  MakeCSR places    *)
(* edges by several OpenMP threads; the in-place variant reuses the edge   *)
(* list's own memory, so it is modelled word by word.  Parallel loops      *)
(* whose iterations share nothing, or only add atomically to what nobody   *)
(* reads before the barrier, are one step.                                 *)
(***************************************************************************)
EXTENDS Integers, Sequences, FiniteSets
LOCAL INSTANCE FiniteSetsExt

CONSTANTS
  Inputs,      \* the edge lists considered, each with the options -s and -m
  Threads,     \* OpenMP worker threads
  BlockSize    \* block_size of ParallelPrefixSum, 1 << 20 in the code

(* An edge goes from u to v with weight w, as InsertWeights leaves it; it  *)
(* is 0 in an unweighted list, and weights and -m exclude each other.      *)
IsInput(inp) ==
  /\ inp.symmetrize \in BOOLEAN /\ inp.inPlace \in BOOLEAN
  /\ \A i \in 1 .. Len(inp.el) :
       /\ inp.el[i].u \in Nat /\ inp.el[i].v \in Nat /\ inp.el[i].w \in Nat
       /\ inp.inPlace => inp.el[i].w = 0

ASSUME InputsAssumption == \A inp \in Inputs : IsInput(inp)
ASSUME ThreadsAssumption == IsFiniteSet(Threads) /\ Threads # {}
ASSUME BlockSizeAssumption == BlockSize \in Nat \ {0}

VARIABLES
  input,         \* el, symmetrize_ and in_place_
  numNodes,      \* num_nodes_
  stage,         \* where the builder is
  transpose,     \* MakeCSR is building the incoming side
  offsets,       \* the offsets being advanced, 0 .. num_nodes_
  csr,           \* per side: index, as offsets, and neighs
  todo,          \* edges no thread has yet
  ends, slot,    \* per thread: ends of its edge to place, the slot of the first
  edges,         \* in place: the edge list once squished
  mem,           \* in place: the words of el.data(), then of neighs
  indegrees, invsNeeded, total, tail,  \* in place: the locals of those names
  n, i           \* in place: the loop variables

vars == <<input, numNodes, stage, transpose, offsets, csr, todo, ends, slot,
          edges, mem, indegrees, invsNeeded, total, tail, n, i>>
parallel == <<transpose, csr, todo, ends, slot>>
inPlace == <<edges, mem, indegrees, invsNeeded, total, tail, n, i>>

NoSlot == -1
Unwritten == <<-1, 0>>
el == input.el
symmetrize == input.symmetrize

(* FindMaxNodeID: an empty list still has a vertex 0.                      *)
FindMaxNodeID == Max({0} \cup {el[j].u : j \in DOMAIN el} \cup {el[j].v : j \in DOMAIN el})

Nodes == 0 .. numNodes - 1
Sides == {"out", "in"}
Empty == [index |-> [m \in 0 .. numNodes |-> 0], neighs |-> <<>>]
-----------------------------------------------------------------------------
(* Degrees and offsets.                                                    *)

CountDegrees(list, trans) ==
  [m \in Nodes |->
     (IF symmetrize \/ ~trans THEN Cardinality({j \in DOMAIN list : list[j].u = m}) ELSE 0)
     + (IF (symmetrize /\ ~input.inPlace) \/ (~symmetrize /\ trans)
          THEN Cardinality({j \in DOMAIN list : list[j].v = m}) ELSE 0)]

(* The sum of f from lo up to, but without, hi.                            *)
Sum(f, lo, hi) ==
  LET upTo[k \in lo .. hi] == IF k = lo THEN 0 ELSE upTo[k - 1] + f[k - 1] IN upTo[hi]

NumBlocks == (numNodes + BlockSize - 1) \div BlockSize

BlockEnd(b) == Min({(b + 1) * BlockSize, numNodes})

(* Block sums, their serial prefix, and the prefix within each block.      *)
ParallelPrefixSum(degrees) ==
  LET localSums == [b \in 0 .. NumBlocks - 1 |-> Sum(degrees, b * BlockSize, BlockEnd(b))]
      bulkPrefix == [b \in 0 .. NumBlocks |-> Sum(localSums, 0, b)]
  IN  [m \in 0 .. numNodes |->
         IF m = numNodes THEN bulkPrefix[NumBlocks]
         ELSE LET b == m \div BlockSize
              IN  bulkPrefix[b] + Sum(degrees, b * BlockSize, m)]

(* A set in ascending order.                                               *)
Ascending(S, Less(_, _)) ==
  [j \in 1 .. Cardinality(S) |-> CHOOSE x \in S : Cardinality({y \in S : Less(y, x)}) = j - 1]

(* The neighbours of m in a pair of CSR arrays.                            *)
List(side, m) == [j \in 1 .. side.index[m + 1] - side.index[m] |-> side.neighs[side.index[m] + j - 1]]
-----------------------------------------------------------------------------
Init ==
  /\ input \in Inputs
  /\ numNodes = FindMaxNodeID + 1
  /\ stage = "start" /\ transpose = FALSE
  /\ csr = [s \in Sides |-> Empty]
  /\ offsets = [m \in 0 .. numNodes |-> 0]
  /\ todo = {}
  /\ ends = [t \in Threads |-> <<>>] /\ slot = [t \in Threads |-> NoSlot]
  /\ edges = <<>> /\ mem = <<>>
  /\ indegrees = [m \in Nodes |-> 0] /\ invsNeeded = [m \in Nodes |-> 0]
  /\ total = 0 /\ tail = 0 /\ n = 0 /\ i = 0

(* MakeCSR up to its loop: the offsets are both kept, as the index, and    *)
(* advanced by the threads.                                                *)
MakeCSR(trans) ==
  LET start == ParallelPrefixSum(CountDegrees(el, trans)) IN
    /\ offsets' = start
    /\ csr' = [csr EXCEPT ![IF trans THEN "in" ELSE "out"] =
                 [index |-> start,
                  neighs |-> [j \in 0 .. start[numNodes] - 1 |-> Unwritten]]]
    /\ transpose' = trans /\ todo' = DOMAIN el
    /\ stage' = "place"
    /\ UNCHANGED <<input, numNodes, ends, slot, inPlace>>

StartCSR == stage = "start" /\ ~input.inPlace /\ MakeCSR(FALSE)

(* The lists an edge goes into, and what is put there.                     *)
Ends(e) ==
  (IF symmetrize \/ ~transpose THEN << <<e.u, <<e.v, e.w>> >> >> ELSE <<>>)
    \o (IF symmetrize \/ transpose THEN << <<e.v, <<e.u, e.w>> >> >> ELSE <<>>)

Claim(t) ==
  /\ stage = "place" /\ ends[t] = <<>>
  /\ \E j \in todo :
       /\ todo' = todo \ {j}
       /\ ends' = [ends EXCEPT ![t] = Ends(el[j])]
  /\ UNCHANGED <<input, numNodes, stage, transpose, offsets, csr, slot, inPlace>>

(* The fetch_and_add of the offset, then the store to the slot it gave.    *)
Reserve(t) ==
  /\ stage = "place" /\ ends[t] # <<>> /\ slot[t] = NoSlot
  /\ slot' = [slot EXCEPT ![t] = offsets[Head(ends[t])[1]]]
  /\ offsets' = [offsets EXCEPT ![Head(ends[t])[1]] = @ + 1]
  /\ UNCHANGED <<input, numNodes, stage, transpose, csr, todo, ends, inPlace>>

Place(t) ==
  /\ stage = "place" /\ slot[t] # NoSlot
  /\ csr' = [csr EXCEPT ![IF transpose THEN "in" ELSE "out"].neighs[slot[t]] = Head(ends[t])[2]]
  /\ ends' = [ends EXCEPT ![t] = Tail(@)]
  /\ slot' = [slot EXCEPT ![t] = NoSlot]
  /\ UNCHANGED <<input, numNodes, stage, transpose, offsets, todo, inPlace>>

AllPlaced == stage = "place" /\ todo = {} /\ \A t \in Threads : ends[t] = <<>>

(* A directed graph needs its incoming side too.                           *)
StartInverse == AllPlaced /\ ~symmetrize /\ ~transpose /\ MakeCSR(TRUE)
-----------------------------------------------------------------------------
(* SquishCSR: sort by vertex and weight, keep the first of equal vertices, *)
(* drop the vertex itself; then copy to arrays of the new size.            *)

Below(a, b) == a[1] < b[1] \/ (a[1] = b[1] /\ a[2] < b[2])

(* Mutant: parallel edges keep their greatest weight.                      *)
Squished_Greatest(list, m) ==
  Ascending({list[j] : j \in {k \in DOMAIN list :
                  /\ list[k][1] # m
                  /\ \A l \in DOMAIN list : list[l][1] = list[k][1] => ~Below(list[k], list[l])}},
               Below)

Squished(list, m) ==
  Ascending({list[j] : j \in {k \in DOMAIN list :
                  /\ list[k][1] # m
                  /\ \A l \in DOMAIN list : list[l][1] = list[k][1] => ~Below(list[l], list[k])}},
               Below)

SquishCSR(side) ==
  LET lists == [m \in Nodes |-> Squished(List(side, m), m)]
      start == ParallelPrefixSum([m \in Nodes |-> Len(lists[m])])
      owner(p) == CHOOSE m \in Nodes : start[m] <= p /\ p < start[m + 1]
  IN  [index |-> start,
       neighs |-> [p \in 0 .. start[numNodes] - 1 |-> lists[owner(p)][p - start[owner(p)] + 1]]]

SquishGraph ==
  /\ AllPlaced /\ (symmetrize \/ transpose)
  /\ csr' = [s \in Sides |-> IF s = "out" \/ ~symmetrize THEN SquishCSR(csr[s]) ELSE csr[s]]
  /\ stage' = "done"
  /\ UNCHANGED <<input, numNodes, transpose, offsets, todo, ends, slot, inPlace>>
-----------------------------------------------------------------------------
(* MakeCSRInPlace.  The list is sorted, duplicates and self-loops go; what *)
(* is left lies in memory as two words per edge.                           *)

EdgeBelow(a, b) == a.u < b.u \/ (a.u = b.u /\ a.v < b.v)

SquishedEL == Ascending({el[j] : j \in {k \in DOMAIN el : el[k].u # el[k].v}}, EdgeBelow)
numEdges == Len(edges)

Preprocess ==
  /\ stage = "start" /\ input.inPlace
  /\ edges' = SquishedEL
  /\ mem' = [p \in 0 .. 2 * Len(edges') - 1 |->
               IF p % 2 = 0 THEN edges'[p \div 2 + 1].u ELSE edges'[p \div 2 + 1].v]
  /\ offsets' = ParallelPrefixSum(CountDegrees(edges', FALSE))
  /\ indegrees' = CountDegrees(edges', TRUE)
  /\ i' = 0
  /\ stage' = "repurpose"
  /\ UNCHANGED <<input, numNodes, parallel, invsNeeded, total, tail, n>>

(* One edge is read and its head written over the words already read.      *)
Repurpose ==
  /\ stage = "repurpose" /\ i < numEdges
  /\ mem' = [mem EXCEPT ![offsets[mem[2 * i]]] = mem[2 * i + 1]]
  /\ offsets' = [offsets EXCEPT ![mem[2 * i]] = @ + 1]
  /\ i' = i + 1
  /\ UNCHANGED <<input, numNodes, stage, parallel, edges, indegrees, invsNeeded, total, tail, n>>

RevertOffsets == [m \in 0 .. numNodes |-> IF m # 0 THEN offsets[m - 1] ELSE 0]

Resized(f, size) == [p \in 0 .. size - 1 |-> f[p]]
AsDests(f) == [p \in DOMAIN f |-> <<f[p], 0>>]

(* Without -s: the incoming side is filled by scanning u upwards.          *)
FinishDirected ==
  /\ stage = "repurpose" /\ i = numEdges /\ ~symmetrize
  /\ LET start == RevertOffsets
         inStart == ParallelPrefixSum(indegrees)
         sources(v) == Ascending({u \in Nodes : \E p \in start[u] .. start[u + 1] - 1 : mem[p] = v},
                                    <)
         owner(p) == CHOOSE v \in Nodes : inStart[v] <= p /\ p < inStart[v + 1]
     IN  /\ offsets' = start
         /\ csr' = [out |-> [index |-> start, neighs |-> AsDests(Resized(mem, numEdges))],
                    in |-> [index |-> inStart,
                            neighs |-> [p \in 0 .. inStart[numNodes] - 1 |->
                                          <<sources(owner(p))[p - inStart[owner(p)] + 1], 0>>]]]
  /\ stage' = "done"
  /\ UNCHANGED <<input, numNodes, transpose, todo, ends, slot, inPlace>>

(* std::binary_search: lower_bound by halving, as the library does it, so  *)
(* that it may miss its value in a range that is not sorted.               *)
LowerBound(f, first, last, x) ==
  LET bound[a \in first .. last, len \in 0 .. last - first] ==
        IF len = 0 THEN a
        ELSE LET half == len \div 2 IN
               IF f[a + half] < x THEN bound[a + half + 1, len - half - 1] ELSE bound[a, half]
  IN  bound[first, last - first]

BinarySearch(f, first, last, x) ==
  LET p == LowerBound(f, first, last, x) IN p # last /\ ~(x < f[p])

(* Step 1: how many inverses each list lacks; then the offsets make room.  *)
(* A reallocation to nothing may answer with a null pointer.               *)
CountInverses ==
  /\ stage = "repurpose" /\ i = numEdges /\ symmetrize
  /\ LET start == RevertOffsets
         lacks(v) == {u \in Nodes :
                        /\ \E p \in start[u] .. start[u + 1] - 1 : mem[p] = v
                        /\ ~BinarySearch(mem, start[v], start[v + 1], u)}
         needed == [v \in Nodes |-> Cardinality(lacks(v))]
         raised == [m \in 0 .. numNodes |-> start[m] + Sum(needed, 0, m)]
     IN  /\ invsNeeded' = needed
         /\ offsets' = raised
         /\ total' = Sum(needed, 0, numNodes)
         /\ mem' = Resized(mem, raised[numNodes])
         /\ \/ /\ n' = numNodes - 1
               /\ i' = raised[numNodes] - 1 /\ tail' = raised[numNodes] - 1
               /\ stage' = "spread"
            \/ /\ raised[numNodes] = 0
               /\ stage' = "failed" /\ UNCHANGED <<n, i, tail>>
  /\ UNCHANGED <<input, numNodes, parallel, edges, indegrees>>

(* Step 2, one word: backwards, so that no word is overwritten unread.     *)
Spread ==
  /\ stage = "spread" /\ i >= offsets[n] + invsNeeded[n]
  /\ mem' = [mem EXCEPT ![tail] = mem[i - total]]
  /\ tail' = tail - 1 /\ i' = i - 1
  /\ UNCHANGED <<input, numNodes, stage, parallel, offsets, edges, indegrees, invsNeeded, total, n>>

SpreadNext ==
  /\ stage = "spread" /\ i < offsets[n] + invsNeeded[n]
  /\ total' = total - invsNeeded[n] /\ tail' = tail - invsNeeded[n]
  /\ IF n > 0 THEN n' = n - 1 /\ i' = offsets[n] - 1 /\ UNCHANGED stage
              ELSE n' = 0 /\ i' = offsets[0] + invsNeeded[0] /\ stage' = "add"
  /\ UNCHANGED <<input, numNodes, parallel, offsets, edges, mem, indegrees, invsNeeded>>

(* Mutant: the free words of a list filled from the front.                 *)
AddInverse_FromFront ==
  /\ stage = "add" /\ i < offsets[n + 1]
  /\ LET v == mem[i] IN
       IF BinarySearch(mem, offsets[v] + invsNeeded[v], offsets[v + 1], n)
         THEN UNCHANGED <<mem, invsNeeded>>
         ELSE /\ mem' = [mem EXCEPT ![offsets[v]] = n]
              /\ invsNeeded' = [invsNeeded EXCEPT ![v] = @ - 1]
  /\ i' = i + 1
  /\ UNCHANGED <<input, numNodes, stage, parallel, offsets, edges, indegrees, total, tail, n>>

(* Step 3, one neighbour: an inverse that is missing goes into the free    *)
(* word next to its list.                                                  *)
AddInverse ==
  /\ stage = "add" /\ i < offsets[n + 1]
  /\ LET v == mem[i] IN
       IF BinarySearch(mem, offsets[v] + invsNeeded[v], offsets[v + 1], n)
         THEN UNCHANGED <<mem, invsNeeded>>
         ELSE /\ mem' = [mem EXCEPT ![offsets[v] + invsNeeded[v] - 1] = n]
              /\ invsNeeded' = [invsNeeded EXCEPT ![v] = @ - 1]
  /\ i' = i + 1
  /\ UNCHANGED <<input, numNodes, stage, parallel, offsets, edges, indegrees, total, tail, n>>

AddNext ==
  /\ stage = "add" /\ i >= offsets[n + 1] /\ n + 1 \in Nodes
  /\ n' = n + 1 /\ i' = offsets[n + 1] + invsNeeded[n + 1]
  /\ UNCHANGED <<input, numNodes, stage, parallel, offsets, edges, mem, indegrees, invsNeeded, total, tail>>

FinishSymmetric ==
  /\ stage = "add" /\ i >= offsets[n + 1] /\ n + 1 \notin Nodes
  /\ LET before(p, q) == mem[p] < mem[q] \/ (mem[p] = mem[q] /\ p < q)
         sorted == [m \in Nodes |-> Ascending(offsets[m] .. offsets[m + 1] - 1, before)]
         owner(p) == CHOOSE m \in Nodes : offsets[m] <= p /\ p < offsets[m + 1]
     IN  csr' = [csr EXCEPT !["out"] =
                   [index |-> offsets,
                    neighs |-> [p \in DOMAIN mem |->
                                  <<mem[sorted[owner(p)][p - offsets[owner(p)] + 1]], 0>>]]]
  /\ stage' = "done"
  /\ UNCHANGED <<input, numNodes, transpose, offsets, todo, ends, slot, inPlace>>
-----------------------------------------------------------------------------
ThreadStep(t) == Claim(t) \/ Reserve(t) \/ Place(t)

Program ==
  \/ StartCSR \/ StartInverse \/ SquishGraph
  \/ Preprocess \/ Repurpose \/ FinishDirected
  \/ CountInverses \/ Spread \/ SpreadNext \/ AddInverse \/ AddNext \/ FinishSymmetric

Terminated == stage \in {"done", "failed"} /\ UNCHANGED vars

Next == (\E t \in Threads : ThreadStep(t)) \/ Program \/ Terminated

Spec == Init /\ [][Next]_vars
-----------------------------------------------------------------------------
(* The edges the list asks for, in one direction or, with -s, in both.     *)
Weights(a, b) ==
  {el[j].w : j \in {k \in DOMAIN el :
     \/ el[k].u = a /\ el[k].v = b
     \/ symmetrize /\ el[k].u = b /\ el[k].v = a}}

(* Whether the threads race for the slots of one list or the list's own    *)
(* memory is rewritten in place, the graph built has exactly the edges of  *)
(* the list: each once, without self-loops, sorted, with the least weight  *)
(* given to it in either direction when symmetrized (so that both          *)
(* directions agree), and a directed graph has the same edges on its       *)
(* incoming side.  The builder gives up only when no edge is left.         *)
BuildsExactly ==
  /\ stage = "done" =>
       \A m \in Nodes :
         /\ List(csr["out"], m) =
              Ascending({<<o, Min(Weights(m, o))>> : o \in {x \in Nodes \ {m} : Weights(m, x) # {}}},
                           Below)
         /\ ~symmetrize =>
              List(csr["in"], m) =
                Ascending({<<o, Min(Weights(o, m))>> : o \in {x \in Nodes \ {m} : Weights(x, m) # {}}},
                             Below)
  /\ stage = "failed" => \A j \in DOMAIN el : el[j].u = el[j].v

(* The in-place builder never destroys what it still has to read: edges    *)
(* not yet repurposed are intact although their own memory is written, and *)
(* when inverses are looked up, every list is split into what is below and *)
(* what is not below the vertex looked for, although inverses have been    *)
(* put in front of it unsorted; so the binary search is right, and each    *)
(* list has exactly as many free words as inverses to come.                *)
InPlaceSafe ==
  /\ stage = "repurpose" =>
       \A j \in i .. numEdges - 1 :
         mem[2 * j] = edges[j + 1].u /\ mem[2 * j + 1] = edges[j + 1].v
  /\ stage = "add" =>
       \A v \in Nodes :
         LET searched == offsets[v] + invsNeeded[v] .. offsets[v + 1] - 1
         IN  /\ v \in {mem[p] : p \in i .. offsets[n + 1] - 1} =>
                  \A p, q \in searched : p < q /\ mem[q] < n => mem[p] < n
             /\ invsNeeded[v] = Cardinality({j \in DOMAIN edges :
                  edges[j].v = v /\ edges[j].u \notin {mem[p] : p \in searched}})

(* The type invariant of the builder's state.                              *)
TypeOK ==
  /\ IsInput(input) /\ numNodes \in Nat \ {0} /\ transpose \in BOOLEAN
  /\ stage \in {"start", "place", "repurpose", "spread", "add", "failed", "done"}
  /\ offsets \in [0 .. numNodes -> 0 .. 2 * Len(el)]
  /\ todo \subseteq DOMAIN el
  /\ \A s \in Sides :
       /\ csr[s].index \in [0 .. numNodes -> 0 .. 2 * Len(el)]
       /\ \A p \in DOMAIN csr[s].neighs : csr[s].neighs[p] = Unwritten \/ csr[s].neighs[p][1] \in Nodes
  /\ \A t \in Threads : Len(ends[t]) <= 2 /\ slot[t] \in -1 .. 2 * Len(el) - 1
  /\ \A p \in DOMAIN mem : p >= 0 /\ mem[p] \in Nodes
  /\ indegrees \in [Nodes -> Nat] /\ invsNeeded \in [Nodes -> Nat]
  /\ total \in Nat /\ tail \in -1 .. 2 * Len(el)
  /\ n \in Nodes /\ i \in -1 .. 2 * Len(el)

(* Every variable has its type, and the in-place builder destroys nothing  *)
(* it still has to read.                                                   *)
InPlaceInv == TypeOK /\ InPlaceSafe
=============================================================================
