-------------------------- MODULE ParallelDeltaStep --------------------------
(***************************************************************************)
(* Delta-stepping with bucket fusion: DeltaStep and RelaxEdges of          *)
(* src/src/sssp.cc run by several OpenMP threads, one action per access to *)
(* what they share: the distances, the frontier and its tails, and the bin *)
(* indexes.  Every thread has its own bins.  The pair of tails and the     *)
(* pair of indexes are double buffers: side iter % 2 is the current one.   *)
(***************************************************************************)
EXTENDS WeightedGraph

CONSTANTS
  Threads,            \* OpenMP worker threads
  Graphs,             \* the inputs considered
  Deltas,             \* values of the -d option
  DistInf,            \* kDistInf
  MaxBin,             \* kMaxBin, above every bin a distance can fall into
  BinSizeThreshold    \* kBinSizeThreshold, 1000 in the code

ASSUME ThreadsAssumption == IsFiniteSet(Threads) /\ Threads # {}
ASSUME GraphsAssumption == \A gr \in Graphs : IsWeightedGraph(gr)
ASSUME DeltasAssumption == Deltas \subseteq Nat \ {0}
ASSUME LimitsAssumption ==
  /\ {DistInf, MaxBin, BinSizeThreshold} \subseteq Nat \ {0}
  /\ \A d \in Deltas : (DistInf - 1) \div d < MaxBin
(* kDistInf is half the range of a distance, for paths to stay below it.   *)
ASSUME PathsAssumption ==
  \A gr \in Graphs, s, n \in V : ShortestLengths(gr, s, DistInf)[n] <= DistInf
(* A sum past the range of an int is undefined in C++: no weight is longer *)
(* than 2^30, so that what is added to a distance leaves it an int.        *)
ASSUME SumsAssumption ==
  \A gr \in Graphs, n \in V : \A e \in Elems(gr.out[n]) : DistInf + e.w < WeightRange \div 2

VARIABLES
  g, source, delta,
  dist,             \* the shared distances
  frontier,         \* the shared bin, as far as it is written
  tails, indexes,   \* frontier_tails and shared_indexes
  iter,             \* parity of iter, the same in all threads
  todo,             \* frontier positions not handed out yet
  singled,          \* the single block of this iteration has been entered
  pc,               \* per thread: its next access
  caller,           \* per thread: the loop that called RelaxEdges
  bins,             \* per thread: local_bins, empty beyond their size
  fused,            \* per thread: what is left of curr_bin_copy
  u, edges,         \* per thread: vertex and its edges left, the current first
  old, new,         \* per thread: old_dist, new_dist
  pos               \* per thread: copy_start

shared == <<g, source, delta, dist, frontier, tails, indexes, iter, todo, singled>>
locals == <<caller, bins, fused, u, edges, old, new, pos>>
vars == <<g, source, delta, dist, frontier, tails, indexes, iter, todo, singled,
          pc, caller, bins, fused, u, edges, old, new, pos>>

Unwritten == -1
Bins == 0 .. MaxBin - 1
Curr == iter
Other == 1 - iter
CurrBin == indexes[Curr]
NextBin == indexes[Other]

Goto(t, l) == pc' = [pc EXCEPT ![t] = l]
AllAt(l) == \A t \in Threads : pc[t] = l

Init ==
  /\ g \in Graphs /\ source \in V /\ delta \in Deltas
  /\ dist = [n \in V |-> IF n = source THEN 0 ELSE DistInf]
  /\ frontier = <<source>>
  /\ tails = [s \in {0, 1} |-> IF s = 0 THEN 1 ELSE 0]
  /\ indexes = [s \in {0, 1} |-> IF s = 0 THEN 0 ELSE MaxBin]
  /\ iter = 0 /\ todo = {1} /\ singled = FALSE
  /\ pc = [t \in Threads |-> "frontier"]
  /\ caller = [t \in Threads |-> "frontier"]
  /\ bins = [t \in Threads |-> [b \in Bins |-> <<>>]]
  /\ fused = [t \in Threads |-> <<>>]
  /\ u = [t \in Threads |-> 0] /\ edges = [t \in Threads |-> <<>>]
  /\ old = [t \in Threads |-> 0] /\ new = [t \in Threads |-> 0]
  /\ pos = [t \in Threads |-> 0]
-----------------------------------------------------------------------------
(* The loop over the shared bin and the one over the thread's own copy of  *)
(* the current bin.                                                        *)

(* Entries of vertices that have reached a lower bin since are left out.   *)
Claim(t) ==
  /\ pc[t] = "frontier"
  /\ \E i \in todo :
       /\ todo' = todo \ {i}
       /\ IF dist[frontier[i]] >= delta * CurrBin
            THEN /\ Goto(t, "edges")
                 /\ u' = [u EXCEPT ![t] = frontier[i]]
                 /\ edges' = [edges EXCEPT ![t] = g.out[frontier[i]]]
            ELSE UNCHANGED <<pc, u, edges>>
  /\ UNCHANGED <<g, source, delta, dist, frontier, tails, indexes, iter, singled,
                 caller, bins, fused, old, new, pos>>

InLoop(t) ==
  \/ pc[t] = "frontier"
  \/ caller[t] = "frontier" /\ pc[t] \in {"edges", "readU", "cas", "recheck"}

(* The loop is nowait: a thread without a chunk goes on, while iterations  *)
(* not started are in the chunks of threads that still are in the loop.    *)
LeaveLoop(t) ==
  /\ pc[t] = "frontier"
  /\ todo = {} \/ \E s \in Threads \ {t} : InLoop(s)
  /\ Goto(t, "fuse")
  /\ UNCHANGED <<shared, locals>>

(* Bucket fusion: a short current bin is processed at once.                *)
FuseBin(t) ==
  /\ pc[t] = "fuse" /\ fused[t] = <<>>
  /\ Len(bins[t][CurrBin]) \in 1 .. BinSizeThreshold - 1
  /\ fused' = [fused EXCEPT ![t] = bins[t][CurrBin]]
  /\ bins' = [bins EXCEPT ![t][CurrBin] = <<>>]
  /\ UNCHANGED <<shared, pc, caller, u, edges, old, new, pos>>

NextFused(t) ==
  /\ pc[t] = "fuse" /\ fused[t] # <<>>
  /\ u' = [u EXCEPT ![t] = Head(fused[t])]
  /\ edges' = [edges EXCEPT ![t] = g.out[Head(fused[t])]]
  /\ fused' = [fused EXCEPT ![t] = Tail(fused[t])]
  /\ Goto(t, "edges") /\ caller' = [caller EXCEPT ![t] = "fuse"]
  /\ UNCHANGED <<shared, bins, old, new, pos>>

LeaveFuse(t) ==
  /\ pc[t] = "fuse" /\ fused[t] = <<>>
  /\ Len(bins[t][CurrBin]) \notin 1 .. BinSizeThreshold - 1
  /\ Goto(t, "vote")
  /\ UNCHANGED <<shared, locals>>
-----------------------------------------------------------------------------
(* RelaxEdges, called from both loops.                                     *)

(* The current edge is done with: dead values for its locals.              *)
NextEdge(t) ==
  /\ Goto(t, "edges")
  /\ edges' = [edges EXCEPT ![t] = Tail(@)]
  /\ old' = [old EXCEPT ![t] = 0]
  /\ new' = [new EXCEPT ![t] = 0]

(* The while loop of RelaxEdges goes on as long as a would improve on b.   *)
LoopTest(t, a, b) ==
  IF a < b
    THEN /\ Goto(t, "cas")
         /\ new' = [new EXCEPT ![t] = a] /\ old' = [old EXCEPT ![t] = b]
         /\ UNCHANGED edges
    ELSE NextEdge(t)

ReadOld(t) ==
  /\ pc[t] = "edges" /\ edges[t] # <<>>
  /\ old' = [old EXCEPT ![t] = dist[Head(edges[t]).v]]
  /\ Goto(t, "readU")
  /\ UNCHANGED <<shared, caller, bins, fused, u, edges, new, pos>>

ReadU(t) ==
  /\ pc[t] = "readU"
  /\ LoopTest(t, Truncate(dist[u[t]] + Head(edges[t]).w), old[t])
  /\ UNCHANGED <<shared, caller, bins, fused, u, pos>>

(* Mutant: a plain store in place of the CAS.                              *)
CasDist_Store(t) ==
  /\ pc[t] = "cas"
  /\ LET n == Head(edges[t]).v IN
       /\ dist' = [dist EXCEPT ![n] = new[t]]
       /\ bins' = [bins EXCEPT ![t][new[t] \div delta] = Append(@, n)]
  /\ NextEdge(t)
  /\ UNCHANGED <<g, source, delta, frontier, tails, indexes, iter, todo, singled,
                 caller, fused, u, pos>>

(* The winner of the CAS puts the vertex into its own bin.                 *)
CasDist(t) ==
  /\ pc[t] = "cas"
  /\ LET n == Head(edges[t]).v IN
       IF dist[n] = old[t]
         THEN /\ dist' = [dist EXCEPT ![n] = new[t]]
              /\ bins' = [bins EXCEPT ![t][new[t] \div delta] = Append(@, n)]
              /\ NextEdge(t)
         ELSE Goto(t, "recheck") /\ UNCHANGED <<dist, bins, edges, old, new>>
  /\ UNCHANGED <<g, source, delta, frontier, tails, indexes, iter, todo, singled,
                 caller, fused, u, pos>>

Recheck(t) ==
  /\ pc[t] = "recheck"
  /\ LoopTest(t, new[t], dist[Head(edges[t]).v])
  /\ UNCHANGED <<shared, caller, bins, fused, u, pos>>

EndVertex(t) ==
  /\ pc[t] = "edges" /\ edges[t] = <<>>
  /\ Goto(t, caller[t])
  /\ u' = [u EXCEPT ![t] = 0]
  /\ UNCHANGED <<shared, caller, bins, fused, edges, old, new, pos>>
-----------------------------------------------------------------------------
(* The end of an iteration: a vote on the next bin, a barrier, a reset by  *)
(* one thread while the others go on, the copies, and a second barrier.    *)

(* Mutant: what bucket fusion left in the current bin is not voted for.    *)
Vote_Later(t) ==
  /\ pc[t] = "vote"
  /\ LET mine == {b \in Bins : b > CurrBin /\ bins[t][b] # <<>>} IN
       \E b \in mine \cup {NextBin} :
         /\ \A c \in mine \cup {NextBin} : b <= c
         /\ indexes' = [indexes EXCEPT ![Other] = b]
  /\ Goto(t, "voted")
  /\ UNCHANGED <<g, source, delta, dist, frontier, tails, iter, todo, singled, locals>>

Vote(t) ==
  /\ pc[t] = "vote"
  /\ LET mine == {b \in Bins : b >= CurrBin /\ bins[t][b] # <<>>} IN
       \E b \in mine \cup {NextBin} :
         /\ \A c \in mine \cup {NextBin} : b <= c
         /\ indexes' = [indexes EXCEPT ![Other] = b]
  /\ Goto(t, "voted")
  /\ UNCHANGED <<g, source, delta, dist, frontier, tails, iter, todo, singled, locals>>

OpenVoted ==
  /\ AllAt("voted")
  /\ pc' = [t \in Threads |-> "single"]
  /\ singled' = FALSE
  /\ UNCHANGED <<g, source, delta, dist, frontier, tails, indexes, iter, todo, locals>>

(* Mutants: the reset of the wrong tail, and no reset of the index.        *)
Single_OtherTail(t) ==
  /\ pc[t] = "single"
  /\ singled' = TRUE
  /\ IF singled
       THEN UNCHANGED <<indexes, tails>>
       ELSE /\ indexes' = [indexes EXCEPT ![Curr] = MaxBin]
            /\ tails' = [tails EXCEPT ![Other] = 0]
  /\ Goto(t, "reserve")
  /\ UNCHANGED <<g, source, delta, dist, frontier, iter, todo, locals>>
Single_KeepsIndex(t) ==
  /\ pc[t] = "single"
  /\ singled' = TRUE
  /\ tails' = IF singled THEN tails ELSE [tails EXCEPT ![Curr] = 0]
  /\ Goto(t, "reserve")
  /\ UNCHANGED <<g, source, delta, dist, frontier, indexes, iter, todo, locals>>

(* single nowait: the first thread to come resets the current side.        *)
Single(t) ==
  /\ pc[t] = "single"
  /\ singled' = TRUE
  /\ IF singled
       THEN UNCHANGED <<indexes, tails>>
       ELSE /\ indexes' = [indexes EXCEPT ![Curr] = MaxBin]
            /\ tails' = [tails EXCEPT ![Curr] = 0]
  /\ Goto(t, "reserve")
  /\ UNCHANGED <<g, source, delta, dist, frontier, iter, todo, locals>>

Selected(t) == IF NextBin \in Bins THEN bins[t][NextBin] ELSE <<>>

Reserve(t) ==
  /\ pc[t] = "reserve"
  /\ IF Selected(t) = <<>>
       THEN Goto(t, "copied") /\ UNCHANGED <<tails, pos>>
       ELSE /\ pos' = [pos EXCEPT ![t] = tails[Other]]
            /\ tails' = [tails EXCEPT ![Other] = @ + Len(Selected(t))]
            /\ Goto(t, "copy")
  /\ UNCHANGED <<g, source, delta, dist, frontier, indexes, iter, todo, singled,
                 caller, bins, fused, u, edges, old, new>>

(* The array is as long as it has to be here: FrontierFits is about the    *)
(* length the code gives it.                                               *)
Copy(t) ==
  /\ pc[t] = "copy"
  /\ LET end == pos[t] + Len(Selected(t)) IN
       frontier' = [i \in 1 .. (IF end > Len(frontier) THEN end ELSE Len(frontier)) |->
                      IF i \in pos[t] + 1 .. end THEN Selected(t)[i - pos[t]]
                      ELSE IF i <= Len(frontier) THEN frontier[i] ELSE Unwritten]
  /\ bins' = [bins EXCEPT ![t][NextBin] = <<>>]
  /\ pos' = [pos EXCEPT ![t] = 0]
  /\ Goto(t, "copied")
  /\ UNCHANGED <<g, source, delta, dist, tails, indexes, iter, todo, singled,
                 caller, fused, u, edges, old, new>>

(* iter++, the barrier, and the test of the while loop.                    *)
OpenCopied ==
  /\ AllAt("copied")
  /\ iter' = Other
  /\ IF indexes[Other] # MaxBin
       THEN /\ todo' = 1 .. tails[Other]
            /\ pc' = [t \in Threads |-> "frontier"]
            /\ caller' = [t \in Threads |-> "frontier"]
       ELSE /\ pc' = [t \in Threads |-> "done"]
            /\ UNCHANGED <<todo, caller>>
  /\ UNCHANGED <<g, source, delta, dist, frontier, tails, indexes, singled,
                 bins, fused, u, edges, old, new, pos>>
-----------------------------------------------------------------------------
RelaxStep(t) == ReadOld(t) \/ ReadU(t) \/ CasDist(t) \/ Recheck(t) \/ EndVertex(t)

ThreadStep(t) ==
  \/ Claim(t) \/ LeaveLoop(t) \/ FuseBin(t) \/ NextFused(t) \/ LeaveFuse(t)
  \/ RelaxStep(t)
  \/ Vote(t) \/ Single(t) \/ Reserve(t) \/ Copy(t)

Barrier == OpenVoted \/ OpenCopied
Terminated == AllAt("done") /\ UNCHANGED vars

Next == (\E t \in Threads : ThreadStep(t)) \/ Barrier \/ Terminated

Spec == Init /\ [][Next]_vars

(* The OpenMP runtime runs every runnable thread and opens the barriers.   *)
FairSpec == Spec /\ (\A t \in Threads : WF_vars(ThreadStep(t))) /\ WF_vars(Barrier)
-----------------------------------------------------------------------------
(* The type invariant of the program state of the parallel DeltaStep.      *)
Sides(S) == [{0, 1} -> S]
PerThread(S) == [Threads -> S]
TypeOK ==
  /\ IsWeightedGraph(g) /\ source \in V /\ delta \in Deltas
  /\ dist \in [V -> Nat]
  /\ frontier \in Seq(V \cup {Unwritten})
  /\ tails \in Sides(Nat) /\ indexes \in Sides(0 .. MaxBin)
  /\ iter \in {0, 1} /\ todo \subseteq 1 .. Len(frontier) /\ singled \in BOOLEAN
  /\ pc \in PerThread({"frontier", "edges", "readU", "cas", "recheck", "fuse", "vote",
                        "voted", "single", "reserve", "copy", "copied", "done"})
  /\ caller \in PerThread({"frontier", "fuse"})
  /\ bins \in PerThread([Bins -> Seq(V)]) /\ fused \in PerThread(Seq(V))
  /\ u \in PerThread(V) /\ edges \in PerThread(Seq(NodeWeight))
  /\ old \in PerThread(Nat) /\ new \in PerThread(Nat) /\ pos \in PerThread(Nat)

(* Between iterations no improvement is forgotten, whoever made it and     *)
(* whoever lost a CAS: a vertex with an edge still to relax is in the      *)
(* shared bin, or in some thread's bin of its distance, and not behind the *)
(* bin all threads are about to process.                                   *)
NothingLost ==
  AllAt("frontier") /\ todo = 1 .. tails[Curr] =>
    \A n \in V :
      dist[n] # DistInf /\ (\E e \in Elems(g.out[n]) : dist[e.v] > dist[n] + e.w) =>
        /\ dist[n] \div delta >= CurrBin
        /\ \/ \E i \in todo : frontier[i] = n
           \/ \E t \in Threads : n \in Elems(bins[t][dist[n] \div delta])

(* The slots handed out at the start of an iteration have been written:    *)
(* the reservation by fetch_and_add and the copy that follows are over,    *)
(* and the other side is ready for the next reservation and vote.          *)
FrontierWritten ==
  AllAt("frontier") /\ todo = 1 .. tails[Curr] =>
    /\ \A i \in todo : frontier[i] # Unwritten
    /\ tails[Other] = 0 /\ indexes[Other] = MaxBin

(* Every variable has its type, and no slot of the shared bin is read      *)
(* before it is written.                                                   *)
FrontierInv == TypeOK /\ FrontierWritten

(* Labels of the shared array only ever drop, through CASes that succeed,  *)
(* to lengths of walks from the source, and DeltaStep returns when they    *)
(* are exact: the parallel program implements ShortestPaths, "without      *)
(* violating the priority-based execution order" (src/src/sssp.cc:49).     *)
Abstract == INSTANCE ShortestPaths WITH Infinity <- DistInf, done <- AllAt("done")
FindsShortestPaths == Abstract!Spec

(* Threads that improve each other's vertices come to an end.              *)
Termination == <>AllAt("done")

(* "each thread copies its selected thread-local bin into the shared bin"  *)
(* (src/src/sssp.cc:38), for which the code allocates one slot per         *)
(* directed edge: the bins copied in one iteration fit.                    *)
Slots == Cardinality({p \in V \X (1 .. NumNodes) : p[2] \in DOMAIN g.out[p[1]]})
FrontierFits == OutDegree(g, source) > 0 => tails[0] <= Slots /\ tails[1] <= Slots
=============================================================================
