------------------------------ MODULE DeltaStep ------------------------------
(***************************************************************************)
(* Single-source shortest paths by delta-stepping: DeltaStep of the C port *)
(* (src/srcc/sssp.c), which is sequential, and then SSSPVerifier, which    *)
(* judges the result by Dijkstra's algorithm over a heap of its own.  One  *)
(* action per pass of the outer loop, per entry taken from the bag or the  *)
(* heap, per edge and per end of a bag.  A vertex whose distance drops is  *)
(* pushed again and its old entries stay where they are.                   *)
(***************************************************************************)
EXTENDS WeightedGraph, SequencesExt

CONSTANTS
  Graphs,   \* the inputs considered
  Deltas,   \* values of the -d option, once made positive
  DistInf   \* kDistInf

ASSUME GraphsAssumption == \A gr \in Graphs : IsWeightedGraph(gr)
ASSUME DeltasAssumption == Deltas \subseteq Nat \ {0}
ASSUME DistInfAssumption == DistInf \in Int

VARIABLES
  g, source, delta,
  dist,         \* the distances found so far
  bins,         \* the BinArray: bins[b + 1] holds the entries of bin b
  current,      \* current_bin
  bag, idx,     \* the entries being processed and the next one
  u, edges,     \* the entry looked at and its edges not yet relaxed
  oracle,       \* oracle: the verifier's distances
  heap,         \* the verifier's MinHeap
  hn, nbrs,     \* the entry taken from it and the edges not yet relaxed
  stage

kernel == <<dist, bins, current, bag, idx, u, edges>>
verifier == <<oracle, heap, hn, nbrs>>
vars == <<g, source, delta, kernel, verifier, stage>>

(* The constant of the C port: all ones in an unsigned word twice as wide, *)
(* shifted right by two, converted to WeightT.                             *)
kDistInf == Truncate((WeightRange * WeightRange - 1) \div 4)

(* No weight or sum of the inputs leaves the range of WeightT, and an      *)
(* infinity that is above 0 is at least as long as every shortest path.    *)
WeightsFit ==
  /\ \A gr \in Graphs, n \in V : \A e \in Elems(gr.out[n]) :
       e.w < WeightRange \div 2 /\ DistInf + e.w <= WeightRange \div 2
  /\ DistInf > 0 =>
       /\ DistInf <= WeightRange \div 2
       /\ \A gr \in Graphs, s, n \in V : ShortestLengths(gr, s, DistInf)[n] <= DistInf

Size == Len(bins)
Bin(b) == bins[b + 1]

(* EnsureBin: new bins are empty.                                          *)
EnsureBin(bs, b) ==
  IF b < Len(bs) THEN bs ELSE bs \o [i \in 1 .. b + 1 - Len(bs) |-> <<>>]

HeapNode(d, n) == [dist |-> d, node |-> n]

Init ==
  /\ g \in Graphs /\ source \in V /\ delta \in Deltas
  /\ dist = [n \in V |-> IF n = source THEN 0 ELSE DistInf]
  /\ bins = <<<<source>>>>
  /\ current = 0
  /\ bag = <<>> /\ idx = 1 /\ u = source /\ edges = <<>>
  /\ oracle = [n \in V |-> DistInf] /\ heap = <<>>
  /\ hn = HeapNode(0, source) /\ nbrs = <<>>
  /\ stage = "bins"

SkipEmptyBin ==
  /\ stage = "bins" /\ current < Size /\ Bin(current) = <<>>
  /\ current' = current + 1
  /\ UNCHANGED <<g, source, delta, dist, bins, bag, idx, u, edges, verifier, stage>>

(* Mutant: the bin is copied to the bag and not cleared.                   *)
TakeBin_NotCleared ==
  /\ stage = "bins" /\ current < Size /\ Bin(current) # <<>>
  /\ bag' = Bin(current) /\ idx' = 1
  /\ stage' = "bag"
  /\ UNCHANGED <<g, source, delta, dist, bins, current, u, edges, verifier>>

(* The bin is moved to the bag.                                            *)
TakeBin ==
  /\ stage = "bins" /\ current < Size /\ Bin(current) # <<>>
  /\ bag' = Bin(current) /\ idx' = 1
  /\ bins' = [bins EXCEPT ![current + 1] = <<>>]
  /\ stage' = "bag"
  /\ UNCHANGED <<g, source, delta, dist, current, u, edges, verifier>>

(* Mutant: an entry on the lower bound of its bin counts as stale.         *)
IsStale_OnBound(n) == Truncate(current * delta) >= dist[n]

(* An entry is stale when its vertex has reached a lower bin since.        *)
IsStale(n) == Truncate(current * delta) > dist[n]

TakeEntry ==
  /\ stage = "bag" /\ edges = <<>> /\ idx <= Len(bag)
  /\ u' = bag[idx] /\ idx' = idx + 1
  /\ edges' = IF IsStale(u') THEN <<>> ELSE g.out[u']
  /\ UNCHANGED <<g, source, delta, dist, bins, current, bag, verifier, stage>>

(* Mutant: a vertex of the current bin is not put back into the bag.       *)
Insert_DropsCurrent(dest, n) ==
  /\ bins' = IF dest = current THEN EnsureBin(bins, dest)
             ELSE [EnsureBin(bins, dest) EXCEPT ![dest + 1] = Append(@, n)]
  /\ UNCHANGED bag

(* A vertex of the current bin goes to the end of the bag being scanned.   *)
Insert(dest, n) ==
  IF dest = current
    THEN bins' = EnsureBin(bins, dest) /\ bag' = Append(bag, n)
    ELSE /\ bins' = [EnsureBin(bins, dest) EXCEPT ![dest + 1] = Append(@, n)]
         /\ UNCHANGED bag

Relax ==
  /\ stage = "bag" /\ edges # <<>>
  /\ LET nbr == Head(edges)
         newDist == Truncate(dist[u] + nbr.w)
     IN  IF newDist < dist[nbr.v]
           THEN /\ dist' = [dist EXCEPT ![nbr.v] = newDist]
                /\ Insert(newDist \div delta, nbr.v)
           ELSE UNCHANGED <<dist, bins, bag>>
  /\ edges' = Tail(edges)
  /\ UNCHANGED <<g, source, delta, current, idx, u, verifier, stage>>

(* The bag is freed and the same bin is looked at again.                   *)
EndBag ==
  /\ stage = "bag" /\ edges = <<>> /\ idx > Len(bag)
  /\ bag' = <<>> /\ idx' = 1
  /\ stage' = "bins"
  /\ UNCHANGED <<g, source, delta, dist, bins, current, u, edges, verifier>>

Return ==
  /\ stage = "bins" /\ current >= Size
  /\ stage' = "done"
  /\ UNCHANGED <<g, source, delta, kernel, verifier>>

-----------------------------------------------------------------------------
(* The binary heap of HeapNode pairs; index i here is i - 1 in the code.   *)

(* The new entry climbs past the ancestors that are farther.               *)
HeapPush(h, e) ==
  LET last == Len(h) + 1
      path[i \in 1 .. last] ==
        IF i = 1 \/ h[i \div 2].dist <= e.dist THEN {i} ELSE {i} \cup path[i \div 2]
      climbed == path[last]
  IN  [i \in 1 .. last |->
         IF i \notin climbed THEN h[i]
         ELSE IF i = Min(climbed) THEN e ELSE h[i \div 2]]

(* The least of the entry that sinks, when it is at i, and its children.   *)
Smallest(h, i, e) ==
  LET Dist(j) == IF j = i THEN e.dist ELSE h[j].dist
      here == {i, 2 * i, 2 * i + 1} \cap (1 .. Len(h))
  IN  Min({j \in here : \A k \in here : Dist(j) <= Dist(k)})

(* Mutant: the entry that sinks is compared with its left child only.      *)
HeapPop_LeftOnly(h) ==
  LET e == Last(h)
      rest == Front(h)
      path[i \in DOMAIN h] ==
        IF 2 * i > Len(rest) \/ rest[2 * i].dist >= e.dist THEN {i} ELSE {i} \cup path[2 * i]
      sunk == path[1]
  IN  IF rest = <<>> THEN <<>>
      ELSE [i \in DOMAIN rest |->
              IF i \notin sunk THEN rest[i] ELSE IF i = Max(sunk) THEN e ELSE rest[2 * i]]

(* The last entry takes the place of the root and sinks; e, at the end of  *)
(* h no more, is compared at each place it comes to.                       *)
HeapPop(h) ==
  LET e == Last(h)
      rest == Front(h)
      path[i \in DOMAIN rest] ==
        IF Smallest(rest, i, e) = i THEN {i} ELSE {i} \cup path[Smallest(rest, i, e)]
      sunk == path[1]
  IN  IF rest = <<>> THEN <<>>
      ELSE [i \in DOMAIN rest |->
              IF i \notin sunk THEN rest[i]
              ELSE IF i = Max(sunk) THEN e ELSE rest[Smallest(rest, i, e)]]

StartVerifier ==
  /\ stage = "done"
  /\ oracle' = [oracle EXCEPT ![source] = 0]
  /\ heap' = HeapPush(<<>>, HeapNode(0, source))
  /\ stage' = "heap"
  /\ UNCHANGED <<g, source, delta, kernel, hn, nbrs>>

(* An entry is skipped when a shorter way to its vertex was found since.   *)
IsOutdated(entry) == entry.dist # oracle[entry.node]

PopNearest ==
  /\ stage = "heap" /\ nbrs = <<>> /\ heap # <<>>
  /\ hn' = heap[1]
  /\ nbrs' = IF IsOutdated(heap[1]) THEN <<>> ELSE g.out[heap[1].node]
  /\ heap' = HeapPop(heap)
  /\ UNCHANGED <<g, source, delta, kernel, oracle, stage>>

RelaxFirst ==
  /\ stage = "heap" /\ nbrs # <<>>
  /\ LET nbr == Head(nbrs)
         newDist == Truncate(hn.dist + nbr.w)
     IN  IF newDist < oracle[nbr.v]
           THEN /\ oracle' = [oracle EXCEPT ![nbr.v] = newDist]
                /\ heap' = HeapPush(heap, HeapNode(newDist, nbr.v))
           ELSE UNCHANGED <<oracle, heap>>
  /\ nbrs' = Tail(nbrs)
  /\ UNCHANGED <<g, source, delta, kernel, hn, stage>>

Judge ==
  /\ stage = "heap" /\ nbrs = <<>> /\ heap = <<>>
  /\ stage' = IF oracle = dist THEN "accepted" ELSE "rejected"
  /\ UNCHANGED <<g, source, delta, kernel, verifier>>

Returned == stage \notin {"bins", "bag"}
Judged == stage \in {"accepted", "rejected"}

Program ==
  \/ SkipEmptyBin \/ TakeBin \/ TakeEntry \/ Relax \/ EndBag \/ Return
  \/ StartVerifier \/ PopNearest \/ RelaxFirst \/ Judge
Terminated == Judged /\ UNCHANGED vars
Next == Program \/ Terminated

Spec == Init /\ [][Next]_vars

(* A sequential program goes on as long as it can.                         *)
FairSpec == Spec /\ WF_vars(Program)
-----------------------------------------------------------------------------
(* The type invariant of the program state of DeltaStep.                   *)
TypeOK ==
  /\ IsWeightedGraph(g) /\ source \in V /\ delta \in Deltas
  /\ dist \in [V -> Int]
  /\ bins \in Seq(Seq(V)) /\ current \in 0 .. Size
  /\ bag \in Seq(V) /\ idx \in 1 .. Len(bag) + 1
  /\ u \in V /\ edges \in Seq(NodeWeight)
  /\ oracle \in [V -> Int] /\ heap \in Seq([dist : Int, node : V])
  /\ hn \in [dist : Int, node : V] /\ nbrs \in Seq(NodeWeight)
  /\ stage \in {"bins", "bag", "done", "heap", "accepted", "rejected"}

Exact == ShortestLengths(g, source, DistInf)

(* What DeltaStep returns: "array of distances for all vertices from given *)
(* source vertex" (src/src/sssp.cc:24), kDistInf where there is no path.   *)
DistancesExact == Returned => dist = Exact

(* No edge has been relaxed: every vertex but the source is where it was.  *)
NothingFound == dist = [n \in V |-> IF n = source THEN 0 ELSE DistInf]

(* The loop over the bins never turns back, so an entry put into a bin     *)
(* already passed would be lost: an edge that would still shorten a way is *)
(* among those being relaxed, or its vertex is in the bag or in the bin    *)
(* its distance belongs to, and that bin is not behind current_bin.        *)
Pending(n) ==
  /\ dist[n] \div delta \in current .. Size - 1
  /\ \/ \E i \in idx .. Len(bag) : bag[i] = n
     \/ n \in Elems(Bin(dist[n] \div delta))
NothingLost ==
  \A n \in V : dist[n] # DistInf =>
    \A e \in Elems(g.out[n]) :
      dist[e.v] > dist[n] + e.w => Pending(n) \/ (n = u /\ e \in Elems(edges))

(* Bins settle in order: once current_bin has moved on, a distance below   *)
(* its lower bound is exact and never changes again, although stale        *)
(* entries of the same vertex are still waiting in later bins.             *)
SettledBelowCurrent ==
  LET exact == Exact IN
    \A n \in V : exact[n] < current * delta /\ exact[n] # DistInf => dist[n] = exact[n]

(* Every variable has its type, and the bins lose no vertex that still     *)
(* has to be expanded and never reopen what is settled.                    *)
BinsInv == TypeOK /\ NothingLost /\ SettledBelowCurrent

(* The verifier takes the vertices by rising distance: its heap is ordered *)
(* after every push and pop, nothing nearer than an entry taken from it is *)
(* pushed later, and a vertex nearer than that entry has its shortest      *)
(* distance, although entries that are out of date stay in the heap.       *)
HeapOrdered == \A i \in 2 .. Len(heap) : heap[i \div 2].dist <= heap[i].dist
TakenInOrder ==
  stage = "heap" =>
    LET exact == Exact IN
      /\ \A n \in V : exact[n] < hn.dist => oracle[n] = exact[n]
      /\ \A i \in DOMAIN heap : hn.dist <= heap[i].dist

(* The verifier accepts shortest distances and nothing else: its search,   *)
(* "to get oracle distances" (src/src/sssp.cc:166), finds them, nearest    *)
(* vertices first.                                                         *)
VerdictExact ==
  /\ HeapOrdered /\ TakenInOrder
  /\ Judged => (stage = "accepted" <=> dist = Exact)

(* Re-insertion of improved vertices into the bag and the bins comes to an *)
(* end, and so does the verifier's search.                                 *)
Termination == <>Judged
=============================================================================
