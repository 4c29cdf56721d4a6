------------------------------ MODULE Afforest ------------------------------
(***************************************************************************)
(* Connected components by subgraph sampling: Afforest of src/src/cc.cc    *)
(* run by several OpenMP threads, one action per access to the shared      *)
(* array comp.  With a single thread it is the C port of src/srcc/cc.c,    *)
(* whose plain comparison and assignment take the place of the CAS.        *)
(*                                                                         *)
(* Each parallel for hands its iterations out from `todo`; which thread    *)
(* takes which iteration, and in which order, is left open, which covers   *)
(* every schedule clause.  Leaving the loop is the implicit barrier.       *)
(***************************************************************************)
EXTENDS CSRGraph

CONSTANTS Threads,         \* OpenMP worker threads
          NeighborRounds,  \* neighbor_rounds, 2 in the code
          Graphs           \* the inputs considered

ASSUME ThreadsAssumption == IsFiniteSet(Threads) /\ Threads # {}
ASSUME RoundsAssumption == NeighborRounds \in Nat
ASSUME GraphsAssumption == \A gr \in Graphs : IsGraph(gr)

VARIABLES
  g,          \* the input graph
  comp,       \* the shared label array: a forest of parent pointers
  phase,      \* the loop the program is in
  round,      \* r, the sampling round
  c,          \* label of the component to skip
  todo,       \* iterations of the current parallel for not yet handed out
  pc,         \* per thread: the next access it makes
  u, nbrs, v, \* per thread: iteration, neighbours left, neighbour being linked
  p1, p2, x   \* per thread: Link's locals; x is a value read from comp

shared == <<g, comp, phase, round, c, todo>>
locals == <<u, nbrs, v, p1, p2, x>>
vars == <<g, comp, phase, round, c, todo, pc, u, nbrs, v, p1, p2, x>>

Loops == {"link", "compress", "final", "finalCompress"}
Phases == Loops \cup {"sample", "done"}
InLink == {"readP2", "readHigh", "cas", "readParent", "readGrandparent", "readLow"}
InCompress == {"test", "read", "write"}
Labels == {"idle", "skip", "edge"} \cup InLink \cup InCompress

High(t) == IF p1[t] > p2[t] THEN p1[t] ELSE p2[t]
Low(t) == p1[t] + (p2[t] - High(t))

(* Thread t goes on at l.                                                  *)
Goto(t, l) == pc' = [pc EXCEPT ![t] = l]

(* Locals that leave their scope get a dead value, 0.                      *)
Leave(t) ==
  /\ Goto(t, "idle")
  /\ u' = [u EXCEPT ![t] = 0]

LeaveLink(t) ==
  /\ v' = [v EXCEPT ![t] = 0]
  /\ p1' = [p1 EXCEPT ![t] = 0]
  /\ p2' = [p2 EXCEPT ![t] = 0]
  /\ x' = [x EXCEPT ![t] = 0]

Init ==
  /\ g \in Graphs
  /\ comp = [n \in V |-> n]
  /\ phase = IF NeighborRounds > 0 THEN "link" ELSE "sample"
  /\ round = 0
  /\ c = 0
  /\ todo = V
  /\ pc = [t \in Threads |-> "idle"]
  /\ nbrs = [t \in Threads |-> <<>>]
  /\ u = [t \in Threads |-> 0] /\ v = [t \in Threads |-> 0]
  /\ p1 = [t \in Threads |-> 0] /\ p2 = [t \in Threads |-> 0]
  /\ x = [t \in Threads |-> 0]
-----------------------------------------------------------------------------
(* Work sharing.                                                           *)

(* At most one neighbour, the one at offset round.                         *)
SampledNeigh(n) ==
  LET rest == OutNeigh(g, n, round) IN IF rest = <<>> THEN <<>> ELSE <<rest[1]>>

Claim(t) ==
  /\ phase \in Loops /\ pc[t] = "idle"
  /\ \E n \in todo :
       /\ todo' = todo \ {n}
       /\ u' = [u EXCEPT ![t] = n]
       /\ nbrs' = [nbrs EXCEPT ![t] = IF phase = "link" THEN SampledNeigh(n) ELSE <<>>]
       /\ Goto(t, CASE phase = "link"  -> "edge"
                    [] phase = "final" -> "skip"
                    [] OTHER           -> "test")
  /\ UNCHANGED <<g, comp, phase, round, c, v, p1, p2, x>>

(* Mutant: forgets that an edge may be recorded at its other end only.     *)
RemainingNeigh_OutOnly(n) == OutNeigh(g, n, NeighborRounds)

(* The remaining edges of a vertex outside the largest component; for a    *)
(* directed graph the reverse graph is processed completely.               *)
RemainingNeigh(n) ==
  OutNeigh(g, n, NeighborRounds) \o (IF g.directed THEN InNeigh(g, n) ELSE <<>>)

SkipLargest(t) ==
  /\ pc[t] = "skip"
  /\ IF comp[u[t]] = c
       THEN Leave(t) /\ UNCHANGED nbrs
       ELSE Goto(t, "edge") /\ nbrs' = [nbrs EXCEPT ![t] = RemainingNeigh(u[t])] /\ UNCHANGED u
  /\ UNCHANGED <<shared, v, p1, p2, x>>

EndIteration(t) ==
  /\ pc[t] = "edge" /\ nbrs[t] = <<>>
  /\ Leave(t)
  /\ UNCHANGED <<shared, nbrs, v, p1, p2, x>>

(* The implicit barrier at the end of a parallel for, and what the         *)
(* program does next.                                                      *)
AfterLoop ==
  CASE phase = "link"     -> <<"compress", round>>
    [] phase = "compress" -> <<IF round + 1 < NeighborRounds THEN "link" ELSE "sample", round + 1>>
    [] phase = "final"    -> <<"finalCompress", round>>
    [] OTHER              -> <<"done", round>>

EndLoop ==
  /\ phase \in Loops /\ todo = {}
  /\ \A t \in Threads : pc[t] = "idle"
  /\ phase' = AfterLoop[1] /\ round' = AfterLoop[2]
  /\ todo' = V
  /\ UNCHANGED <<g, comp, c, pc, locals>>

(* The most frequent label among random samples may be any label in use.   *)
SampleFrequentElement ==
  /\ phase = "sample"
  /\ c' \in {comp[n] : n \in V}
  /\ phase' = "final"
  /\ UNCHANGED <<g, comp, round, todo, pc, locals>>
-----------------------------------------------------------------------------
(* Link(u, v): bring the trees of u and v together, high root under low.   *)

ReadP1(t) ==
  /\ pc[t] = "edge" /\ nbrs[t] # <<>>
  /\ v' = [v EXCEPT ![t] = Head(nbrs[t])]
  /\ nbrs' = [nbrs EXCEPT ![t] = Tail(nbrs[t])]
  /\ p1' = [p1 EXCEPT ![t] = comp[u[t]]]
  /\ Goto(t, "readP2")
  /\ UNCHANGED <<shared, u, p2, x>>

(* Mutant: a do-while, which goes round once more when the two are equal.  *)
LoopTest_Late(t, a, b) ==
  /\ Goto(t, "readHigh")
  /\ p1' = [p1 EXCEPT ![t] = a]
  /\ p2' = [p2 EXCEPT ![t] = b]
  /\ x' = [x EXCEPT ![t] = 0]
  /\ UNCHANGED v

(* p2 is read, and the loop goes on while the two differ.                  *)
LoopTest(t, a, b) ==
  IF a = b
    THEN Goto(t, "edge") /\ LeaveLink(t)
    ELSE /\ Goto(t, "readHigh")
         /\ p1' = [p1 EXCEPT ![t] = a]
         /\ p2' = [p2 EXCEPT ![t] = b]
         /\ x' = [x EXCEPT ![t] = 0]
         /\ UNCHANGED v

ReadP2(t) ==
  /\ pc[t] = "readP2"
  /\ LoopTest(t, p1[t], comp[v[t]])
  /\ UNCHANGED <<shared, u, nbrs>>

ReadHigh(t) ==
  /\ pc[t] = "readHigh"
  /\ LET pHigh == comp[High(t)] IN
       \/ pHigh = Low(t)  /\ Goto(t, "edge") /\ LeaveLink(t)
       \/ pHigh = High(t) /\ Goto(t, "cas") /\ UNCHANGED <<v, p1, p2, x>>
       \/ pHigh \notin {Low(t), High(t)} /\ Goto(t, "readParent") /\ UNCHANGED <<v, p1, p2, x>>
  /\ UNCHANGED <<shared, u, nbrs>>

(* Mutant: a plain store in place of the CAS.                              *)
CompareAndSwap_Store(t) ==
  /\ pc[t] = "cas"
  /\ comp' = [comp EXCEPT ![High(t)] = Low(t)] /\ Goto(t, "edge") /\ LeaveLink(t)
  /\ UNCHANGED <<g, phase, round, c, todo, u, nbrs>>
CompareAndSwap(t) ==
  /\ pc[t] = "cas"
  /\ IF comp[High(t)] = High(t)
       THEN comp' = [comp EXCEPT ![High(t)] = Low(t)] /\ Goto(t, "edge") /\ LeaveLink(t)
       ELSE Goto(t, "readParent") /\ UNCHANGED <<comp, v, p1, p2, x>>
  /\ UNCHANGED <<g, phase, round, c, todo, u, nbrs>>

(* p1 = comp[comp[high]], two reads.                                       *)
ReadParent(t) ==
  /\ pc[t] = "readParent"
  /\ x' = [x EXCEPT ![t] = comp[High(t)]]
  /\ Goto(t, "readGrandparent")
  /\ UNCHANGED <<shared, u, nbrs, v, p1, p2>>

ReadGrandparent(t) ==
  /\ pc[t] = "readGrandparent"
  /\ x' = [x EXCEPT ![t] = comp[x[t]]]
  /\ Goto(t, "readLow")
  /\ UNCHANGED <<shared, u, nbrs, v, p1, p2>>

(* Mutant: the labels are not read again after a lost CAS.                 *)
ReadLow_Stale(t) ==
  /\ pc[t] = "readLow"
  /\ LoopTest(t, p1[t], p2[t])
  /\ UNCHANGED <<shared, u, nbrs>>

(* p2 = comp[low], then the loop test.                                     *)
ReadLow(t) ==
  /\ pc[t] = "readLow"
  /\ LoopTest(t, x[t], comp[Low(t)])
  /\ UNCHANGED <<shared, u, nbrs>>
-----------------------------------------------------------------------------
(* Compress: iteration n shortens the path of n while others shorten the   *)
(* paths n's pointer goes through.  comp[n] itself is written by no other  *)
(* thread, so each evaluation of comp[comp[n]] is one shared read.         *)

CompressTest(t) ==
  /\ pc[t] = "test"
  /\ IF comp[u[t]] = comp[comp[u[t]]]
       THEN Leave(t)
       ELSE Goto(t, "read") /\ UNCHANGED u
  /\ UNCHANGED <<shared, nbrs, v, p1, p2, x>>

CompressRead(t) ==
  /\ pc[t] = "read"
  /\ x' = [x EXCEPT ![t] = comp[comp[u[t]]]]
  /\ Goto(t, "write")
  /\ UNCHANGED <<shared, u, nbrs, v, p1, p2>>

(* Mutant: the label is written to the vertex's root.                      *)
CompressWrite_AtRoot(t) ==
  /\ pc[t] = "write"
  /\ comp' = [comp EXCEPT ![x[t]] = u[t]]
  /\ x' = [x EXCEPT ![t] = 0]
  /\ Goto(t, "test")
  /\ UNCHANGED <<g, phase, round, c, todo, u, nbrs, v, p1, p2>>

CompressWrite(t) ==
  /\ pc[t] = "write"
  /\ comp' = [comp EXCEPT ![u[t]] = x[t]]
  /\ x' = [x EXCEPT ![t] = 0]
  /\ Goto(t, "test")
  /\ UNCHANGED <<g, phase, round, c, todo, u, nbrs, v, p1, p2>>
-----------------------------------------------------------------------------
LinkStep(t) ==
  \/ ReadP1(t) \/ ReadP2(t) \/ ReadHigh(t) \/ CompareAndSwap(t)
  \/ ReadParent(t) \/ ReadGrandparent(t) \/ ReadLow(t)

CompressStep(t) == CompressTest(t) \/ CompressRead(t) \/ CompressWrite(t)

ThreadStep(t) ==
  Claim(t) \/ SkipLargest(t) \/ EndIteration(t) \/ LinkStep(t) \/ CompressStep(t)

Program == EndLoop \/ SampleFrequentElement

Terminated == phase = "done" /\ UNCHANGED vars

Next == (\E t \in Threads : ThreadStep(t)) \/ Program \/ Terminated

Spec == Init /\ [][Next]_vars

(* A runnable thread is eventually run, and the barrier opens when all     *)
(* threads have reached it: what the OpenMP runtime guarantees.            *)
Fairness == (\A t \in Threads : WF_vars(ThreadStep(t))) /\ WF_vars(Program)

FairSpec == Spec /\ Fairness
-----------------------------------------------------------------------------
(* Properties.                                                             *)

(* The type invariant of the program state of Afforest.                    *)
TypeOK ==
  /\ g \in Graphs
  /\ comp \in [V -> V]
  /\ phase \in Phases /\ round \in 0 .. NeighborRounds
  /\ c \in V /\ todo \in SUBSET V
  /\ pc \in [Threads -> Labels]
  /\ nbrs \in [Threads -> Seq(V)]
  /\ u \in [Threads -> V] /\ v \in [Threads -> V]
  /\ p1 \in [Threads -> V] /\ p2 \in [Threads -> V] /\ x \in [Threads -> V]

(* However reads, CASes and compressions interleave, a label is never      *)
(* above its vertex (so the pointers never form a cycle and every crawl    *)
(* ends) and is always a vertex of the same component of the graph: Link   *)
(* and Compress of src/src/cc.cc never join two components.                *)
LabelsSound == \A n \in V : comp[n] <= n /\ Connected(g, n, comp[n])

(* a and b hang in one tree of the forest: no set closed under parent      *)
(* pointers separates them.                                                *)
PointerClosed(S) == \A n \in V : n \in S <=> comp[n] \in S
SameTree(a, b) == \A S \in SUBSET V : PointerClosed(S) => (a \in S <=> b \in S)
Trees == {{m \in V : SameTree(n, m)} : n \in V}

(* After the link loop of a sampling round, the edges sampled so far are   *)
(* joined although several threads linked them at once with CASes that     *)
(* fail and are retried: "Place nodes u and v in same component"           *)
(* (src/src/cc.cc:40).  When the samples are taken, and when Afforest      *)
(* returns, every tree has depth 1: "due to prior compression, this value  *)
(* represents the largest intermediate component"                          *)
(* (src/src/cc.cc:118-119).                                                *)
RoundsLinked == round + (IF phase = "compress" THEN 1 ELSE 0)
SampledEdgesJoined ==
  \A a \in V, i \in 1 .. RoundsLinked :
    i <= OutDegree(g, a) => SameTree(a, g.out[a][i])

CompressedWhenRead ==
  phase \in {"sample", "done"} => \A n \in V : comp[comp[n]] = comp[n]

SampledThenCompressed == SampledEdgesJoined /\ CompressedWhenRead

(* What Afforest returns: two vertices have one label iff they are in one  *)
(* component, although the final loop skips every vertex whose label       *)
(* equals c when it is looked at, a label others may be changing.          *)
LabelsExact ==
  phase = "done" => \A a, b \in V : comp[a] = comp[b] <=> Connected(g, a, b)

(* A label only descends: no step undoes the progress Link's retry loop    *)
(* and Compress's crawl rely on to end.                                    *)
LabelsDescend == [][\A n \in V : comp'[n] <= comp[n]]_comp

(* Every merge is a merge of two components by an edge, no compression     *)
(* and no lost CAS takes a tree apart, and the program returns only when   *)
(* all components are whole: Afforest implements ComponentMerge.           *)
Abstract == INSTANCE ComponentMerge WITH part <- Trees, done <- (phase = "done")
MergesOnly == Abstract!Spec

(* With the threads scheduled fairly, Afforest returns: no set of threads  *)
(* can keep each other retrying for ever.                                  *)
Termination == <>(phase = "done")
-----------------------------------------------------------------------------
(* The inductive invariant behind LabelsSound: what a thread holds in its  *)
(* locals while others write comp.  Nothing in ThreadInv mentions comp, so *)
(* no other thread can disturb it: however stale a label read from comp    *)
(* is, it stays a vertex of the component it was read in.                  *)

RoundInv == phase \in {"link", "compress"} => round < NeighborRounds

ThreadInv(t) ==
  /\ pc[t] \in InLink \cup {"edge"} \/ nbrs[t] = <<>>
  /\ \A i \in DOMAIN nbrs[t] : Connected(g, u[t], nbrs[t][i])
  /\ pc[t] = "readP2" => Connected(g, u[t], v[t]) /\ Connected(g, u[t], p1[t])
  /\ pc[t] \in InLink \ {"readP2"} => p1[t] # p2[t] /\ Connected(g, p1[t], p2[t])
  /\ pc[t] \in {"readGrandparent", "readLow"} => Connected(g, High(t), x[t])
  /\ pc[t] = "write" => x[t] <= u[t] /\ Connected(g, u[t], x[t])

(* Labels and the labels threads hold stay in their component.             *)
SoundInv == TypeOK /\ RoundInv /\ LabelsSound /\ \A t \in Threads : ThreadInv(t)
=============================================================================
