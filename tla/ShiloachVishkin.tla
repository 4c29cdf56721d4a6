--------------------------- MODULE ShiloachVishkin ---------------------------
(***************************************************************************)
(* Connected components by hooking and pointer jumping: ShiloachVishkin of *)
(* src/src/cc_sv.cc run by several OpenMP threads, one action per access   *)
(* to the shared array comp.  With a single thread it is the C port of     *)
(* src/srcc/cc_sv.c.  Nothing is atomic here: between the test that a      *)
(* label is a root and the write that hooks it another thread may hook the *)
(* same root elsewhere, and one of the two hooks is lost.                  *)
(***************************************************************************)
EXTENDS CSRGraph

CONSTANTS Threads,  \* OpenMP worker threads
          Graphs    \* the inputs considered

ASSUME ThreadsAssumption == IsFiniteSet(Threads) /\ Threads # {}
ASSUME GraphsAssumption == \A gr \in Graphs : IsGraph(gr)

VARIABLES
  g,          \* the input graph
  comp,       \* the shared label array
  change,     \* a hook was made in this round
  phase,      \* the parallel loop the program is in
  todo,       \* its iterations not yet handed out
  pc,         \* per thread: the next access it makes
  u, nbrs, v, \* per thread: iteration, neighbours left, neighbour looked at
  cu, cv, x   \* per thread: comp_u, comp_v; x is a value read by pointer jumping

shared == <<g, comp, change, phase, todo>>
vars == <<g, comp, change, phase, todo, pc, u, nbrs, v, cu, cv, x>>

InHook == {"edge", "readV", "testRoot", "setChange", "hook"}
InJump == {"test", "read", "write"}

HighComp(t) == IF cu[t] > cv[t] THEN cu[t] ELSE cv[t]
LowComp(t) == cu[t] + (cv[t] - HighComp(t))

Goto(t, l) == pc' = [pc EXCEPT ![t] = l]

(* Locals that leave their scope get a dead value, 0.                      *)
Leave(t) == Goto(t, "idle") /\ u' = [u EXCEPT ![t] = 0]

NextNeighbour(t) ==
  /\ Goto(t, "edge")
  /\ v' = [v EXCEPT ![t] = 0]
  /\ cu' = [cu EXCEPT ![t] = 0]
  /\ cv' = [cv EXCEPT ![t] = 0]

Init ==
  /\ g \in Graphs
  /\ comp = [n \in V |-> n]
  /\ change = FALSE
  /\ phase = "hook"
  /\ todo = V
  /\ pc = [t \in Threads |-> "idle"]
  /\ nbrs = [t \in Threads |-> <<>>]
  /\ u = [t \in Threads |-> 0] /\ v = [t \in Threads |-> 0]
  /\ cu = [t \in Threads |-> 0] /\ cv = [t \in Threads |-> 0]
  /\ x = [t \in Threads |-> 0]
-----------------------------------------------------------------------------
Claim(t) ==
  /\ phase \in {"hook", "jump"} /\ pc[t] = "idle"
  /\ \E n \in todo :
       /\ todo' = todo \ {n}
       /\ u' = [u EXCEPT ![t] = n]
       /\ nbrs' = [nbrs EXCEPT ![t] = IF phase = "hook" THEN OutNeigh(g, n, 0) ELSE <<>>]
       /\ Goto(t, IF phase = "hook" THEN "edge" ELSE "test")
  /\ UNCHANGED <<g, comp, change, phase, v, cu, cv, x>>

EndIteration(t) ==
  /\ pc[t] = "edge" /\ nbrs[t] = <<>>
  /\ Leave(t)
  /\ UNCHANGED <<shared, nbrs, v, cu, cv, x>>

(* Mutant: change is left set from one round to the next.                  *)
EndLoop_KeepsChange ==
  /\ phase \in {"hook", "jump"} /\ todo = {}
  /\ \A t \in Threads : pc[t] = "idle"
  /\ \/ phase = "hook" /\ phase' = "jump"
     \/ phase = "jump" /\ change /\ phase' = "hook"
     \/ phase = "jump" /\ ~change /\ phase' = "done"
  /\ todo' = V
  /\ UNCHANGED <<g, comp, change, pc, u, nbrs, v, cu, cv, x>>

(* The barrier that ends a loop.  After pointer jumping the while loop     *)
(* tests change, and a new round starts by clearing it.                    *)
EndLoop ==
  /\ phase \in {"hook", "jump"} /\ todo = {}
  /\ \A t \in Threads : pc[t] = "idle"
  /\ \/ phase = "hook" /\ phase' = "jump" /\ UNCHANGED change
     \/ phase = "jump" /\ change /\ phase' = "hook" /\ change' = FALSE
     \/ phase = "jump" /\ ~change /\ phase' = "done" /\ UNCHANGED change
  /\ todo' = V
  /\ UNCHANGED <<g, comp, pc, u, nbrs, v, cu, cv, x>>
-----------------------------------------------------------------------------
(* Hooking.                                                                *)

ReadU(t) ==
  /\ pc[t] = "edge" /\ nbrs[t] # <<>>
  /\ v' = [v EXCEPT ![t] = Head(nbrs[t])]
  /\ nbrs' = [nbrs EXCEPT ![t] = Tail(nbrs[t])]
  /\ cu' = [cu EXCEPT ![t] = comp[u[t]]]
  /\ Goto(t, "readV")
  /\ UNCHANGED <<shared, u, cv, x>>

ReadV(t) ==
  /\ pc[t] = "readV"
  /\ IF comp[v[t]] = cu[t]
       THEN NextNeighbour(t)
       ELSE Goto(t, "testRoot") /\ cv' = [cv EXCEPT ![t] = comp[v[t]]] /\ UNCHANGED <<v, cu>>
  /\ UNCHANGED <<shared, u, nbrs, x>>

TestRoot(t) ==
  /\ pc[t] = "testRoot"
  /\ IF comp[HighComp(t)] = HighComp(t)
       THEN Goto(t, "setChange") /\ UNCHANGED <<v, cu, cv>>
       ELSE NextNeighbour(t)
  /\ UNCHANGED <<shared, u, nbrs, x>>

(* Mutant: change is private to the thread that sets it.                   *)
SetChange_Private(t) ==
  /\ pc[t] = "setChange"
  /\ Goto(t, "hook")
  /\ UNCHANGED <<shared, u, nbrs, v, cu, cv, x>>

SetChange(t) ==
  /\ pc[t] = "setChange"
  /\ change' = TRUE
  /\ Goto(t, "hook")
  /\ UNCHANGED <<g, comp, phase, todo, u, nbrs, v, cu, cv, x>>

(* Mutants: min and max swapped, and a hook to the vertex, not its label.  *)
Hook_Swapped(t) ==
  /\ pc[t] = "hook"
  /\ comp' = [comp EXCEPT ![LowComp(t)] = HighComp(t)]
  /\ NextNeighbour(t)
  /\ UNCHANGED <<g, change, phase, todo, u, nbrs, x>>
Hook_Vertex(t) ==
  /\ pc[t] = "hook"
  /\ comp' = [comp EXCEPT ![HighComp(t)] = u[t]]
  /\ NextNeighbour(t)
  /\ UNCHANGED <<g, change, phase, todo, u, nbrs, x>>

Hook(t) ==
  /\ pc[t] = "hook"
  /\ comp' = [comp EXCEPT ![HighComp(t)] = LowComp(t)]
  /\ NextNeighbour(t)
  /\ UNCHANGED <<g, change, phase, todo, u, nbrs, x>>
-----------------------------------------------------------------------------
(* Pointer jumping: comp[n] is written by the thread of iteration n only.  *)

JumpTest(t) ==
  /\ pc[t] = "test"
  /\ IF comp[u[t]] = comp[comp[u[t]]]
       THEN Leave(t)
       ELSE Goto(t, "read") /\ UNCHANGED u
  /\ UNCHANGED <<shared, nbrs, v, cu, cv, x>>

JumpRead(t) ==
  /\ pc[t] = "read"
  /\ x' = [x EXCEPT ![t] = comp[comp[u[t]]]]
  /\ Goto(t, "write")
  /\ UNCHANGED <<shared, u, nbrs, v, cu, cv>>

JumpWrite(t) ==
  /\ pc[t] = "write"
  /\ comp' = [comp EXCEPT ![u[t]] = x[t]]
  /\ x' = [x EXCEPT ![t] = 0]
  /\ Goto(t, "test")
  /\ UNCHANGED <<g, change, phase, todo, u, nbrs, v, cu, cv>>
-----------------------------------------------------------------------------
HookStep(t) == ReadU(t) \/ ReadV(t) \/ TestRoot(t) \/ SetChange(t) \/ Hook(t)
JumpStep(t) == JumpTest(t) \/ JumpRead(t) \/ JumpWrite(t)
ThreadStep(t) == Claim(t) \/ EndIteration(t) \/ HookStep(t) \/ JumpStep(t)

Terminated == phase = "done" /\ UNCHANGED vars

Next == (\E t \in Threads : ThreadStep(t)) \/ EndLoop \/ Terminated

Spec == Init /\ [][Next]_vars

(* The OpenMP runtime runs every runnable thread and opens the barrier.    *)
FairSpec == Spec /\ (\A t \in Threads : WF_vars(ThreadStep(t))) /\ WF_vars(EndLoop)
-----------------------------------------------------------------------------
(* The type invariant of the program state of ShiloachVishkin.             *)
TypeOK ==
  /\ g \in Graphs
  /\ comp \in [V -> V] /\ change \in BOOLEAN
  /\ phase \in {"hook", "jump", "done"} /\ todo \in SUBSET V
  /\ pc \in [Threads -> {"idle"} \cup InHook \cup InJump]
  /\ nbrs \in [Threads -> Seq(V)]
  /\ u \in [Threads -> V] /\ v \in [Threads -> V]
  /\ cu \in [Threads -> V] /\ cv \in [Threads -> V] /\ x \in [Threads -> V]

(* Racing hooks never make a cycle and never join two components: the      *)
(* "min-max swap such that lower component IDs propagate"                  *)
(* (src/src/cc_sv.cc:46) keeps comp[n] <= n for every outcome of the race. *)
LabelsSound == \A n \in V : comp[n] <= n /\ Connected(g, n, comp[n])

(* Every variable has its type, and no label rises above its vertex or     *)
(* leaves its component.                                                   *)
SoundInv == TypeOK /\ LabelsSound

(* A vertex that has been hooked is never a root again, whichever of two   *)
(* racing hooks survives; each round therefore has fewer roots.            *)
Roots == {n \in V : comp[n] = n}
HookedForGood == [][Roots' \subseteq Roots]_comp

(* A lost hook is never overlooked: when a round of hooking ends with      *)
(* change still false, no edge joins two different labels.  So the labels  *)
(* returned are the components, for undirected graphs and for directed     *)
(* ones read through their out-edges only.                                 *)
QuietRoundIsFinal ==
  /\ phase = "jump" /\ ~change => \A e \in Edges(g) : comp[e[1]] = comp[e[2]]
  /\ phase = "done" => \A a, b \in V : comp[a] = comp[b] <=> Connected(g, a, b)

(* The rounds end: racing threads cannot undo each other's hooks for ever. *)
Termination == <>(phase = "done")
=============================================================================
