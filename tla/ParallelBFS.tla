----------------------------- MODULE ParallelBFS -----------------------------
(***************************************************************************)
(* Direction-optimizing BFS: DOBFS of src/src/bfs.cc run by several OpenMP *)
(* threads over the structures of src/src/sliding_queue.h and              *)
(* src/src/bitmap.h.  One action per access to what threads share: the     *)
(* parent array, the queue's insertion index and slots, the bitmap words.  *)
(* scout_count and awake_count are OpenMP reductions: their private copies *)
(* are added here as they grow, which the barrier makes equal to the sum.  *)
(***************************************************************************)
EXTENDS Distances

CONSTANTS
  Graphs,        \* the inputs considered
  Threads,       \* OpenMP worker threads
  Alphas, Betas, \* values of the parameters alpha and beta, 15 and 18 by default
  BufferSize,    \* given_size of a QueueBuffer, 16384 in the code
  WordBits,      \* kBitsPerWord, 64 in the code
  Chunk          \* chunk size of BUStep's schedule clause, 1024 in the code

ASSUME GraphsAssumption == \A gr \in Graphs : IsGraph(gr)
ASSUME ThreadsAssumption == IsFiniteSet(Threads) /\ Threads # {}
ASSUME TuningAssumption ==
  Alphas \cup Betas \cup {BufferSize, WordBits, Chunk} \subseteq Nat \ {0}
(* No word belongs to two chunks.                                          *)
ASSUME AlignmentAssumption == Chunk % WordBits = 0

VARIABLES
  g, source, alpha, beta,
  parent,                \* < 0: unvisited, the negated out-degree (or -1)
  slots, in, start, end, \* SlidingQueue: shared, shared_in and the window
  front, curr,           \* the two Bitmaps, as the sets of their 1 bits
  edges, scout,          \* edges_to_check, scout_count
  awake, oldAwake,       \* awake_count, old_awake_count
  stage,                 \* where DOBFS is
  todo,                  \* iterations of the current parallel for not handed out
  pc,                    \* per thread: its next access
  u, nbrs, v, cv,        \* per thread: vertex, neighbours left, neighbour, curr_val
  buf, pos,              \* per thread: its QueueBuffer and copy_start
  word                   \* per thread: the bitmap word it read

queue == <<slots, in, start, end>>
args == <<g, source, alpha, beta>>
counters == <<edges, scout, awake, oldAwake>>
vars == <<args, parent, queue, front, curr, counters, stage, todo,
          pc, u, nbrs, v, cv, buf, pos, word>>

NoNode == -1
Node == V \cup {NoNode}
Regions == {"td", "queueToBitmap", "bu", "bitmapToQueue"}

Window == start .. end - 1
Frontier == {slots[i] : i \in Window}
Visited == {n \in V : parent[n] >= 0}
(* Mutant: words that straddle the chunks.                                 *)
WordOf_Shifted(n) == {m \in V : (m + 1) \div WordBits = (n + 1) \div WordBits}
WordOf(n) == {m \in V : m \div WordBits = n \div WordBits}

NumEdgesDirected == Cardinality(Edges(g))

InitParent ==
  [n \in V |-> IF OutDegree(g, n) # 0 THEN -OutDegree(g, n) ELSE -1]

Init ==
  /\ g \in Graphs /\ source \in V /\ alpha \in Alphas /\ beta \in Betas
  /\ parent = [InitParent EXCEPT ![source] = source]
  /\ slots = [i \in V |-> IF i = 0 THEN source ELSE NoNode]
  /\ in = 1 /\ start = 0 /\ end = 1
  /\ front = {} /\ curr = {}
  /\ edges = NumEdgesDirected /\ scout = OutDegree(g, source)
  /\ awake = 0 /\ oldAwake = 0
  /\ stage = "decide" /\ todo = {}
  /\ pc = [t \in Threads |-> "idle"]
  /\ u = [t \in Threads |-> 0] /\ v = [t \in Threads |-> NoNode]
  /\ nbrs = [t \in Threads |-> <<>>] /\ cv = [t \in Threads |-> 0]
  /\ buf = [t \in Threads |-> <<>>] /\ pos = [t \in Threads |-> 0]
  /\ word = [t \in Threads |-> {}]

Goto(t, l) == pc' = [pc EXCEPT ![t] = l]
-----------------------------------------------------------------------------
(* The sequential program between the parallel regions.                    *)

SlideWindow == start' = end /\ end' = in

AllAt(l) == todo = {} /\ \A t \in Threads : pc[t] = l
Rejoin == pc' = [t \in Threads |-> "idle"]

(* The test of the while loop and the choice of a direction.  What is      *)
(* subtracted from edges_to_check is at most a share of it, so the         *)
(* dividend never is negative.                                             *)
GoTopDown ==
  /\ stage = "decide" /\ start # end
  /\ scout <= edges \div alpha
  /\ edges' = edges - scout /\ scout' = 0
  /\ stage' = "td" /\ todo' = Window
  /\ UNCHANGED <<args, parent, queue, front, curr, awake, oldAwake,
                 pc, u, nbrs, v, cv, buf, pos, word>>

GoBottomUp ==
  /\ stage = "decide" /\ start # end
  /\ scout > edges \div alpha
  /\ stage' = "queueToBitmap" /\ todo' = Window
  /\ UNCHANGED <<args, parent, queue, front, curr, counters,
                 pc, u, nbrs, v, cv, buf, pos, word>>

(* The loop ends and the unvisited entries become -1.                      *)
Return ==
  /\ stage = "decide" /\ start = end
  /\ parent' = [n \in V |-> IF parent[n] < -1 THEN -1 ELSE parent[n]]
  /\ stage' = "done"
  /\ UNCHANGED <<args, queue, front, curr, counters, todo,
                 pc, u, nbrs, v, cv, buf, pos, word>>

EndTopDown ==
  /\ stage = "td" /\ AllAt("arrived") /\ Rejoin
  /\ SlideWindow
  /\ stage' = "decide"
  /\ UNCHANGED <<args, parent, slots, in, front, curr, counters, todo,
                 u, nbrs, v, cv, buf, pos, word>>

(* Mutants: the next bitmap keeps its bits, old_awake_count its value.     *)
StartBottomUp_NoReset(count) ==
  /\ oldAwake' = count /\ awake' = 0
  /\ curr' = front
  /\ stage' = "bu" /\ todo' = {n \div Chunk : n \in V}
StartBottomUp_KeepsOld(count) ==
  /\ oldAwake' = oldAwake /\ awake' = 0
  /\ curr' = {}
  /\ stage' = "bu" /\ todo' = {n \div Chunk : n \in V}

(* BUStep starts by clearing the next bitmap.                              *)
StartBottomUp(count) ==
  /\ oldAwake' = count /\ awake' = 0
  /\ curr' = {}
  /\ stage' = "bu" /\ todo' = {n \div Chunk : n \in V}

EndQueueToBitmap ==
  /\ stage = "queueToBitmap" /\ AllAt("idle")
  /\ StartBottomUp(end - start)
  /\ SlideWindow
  /\ UNCHANGED <<args, parent, slots, in, front, edges, scout,
                 pc, u, nbrs, v, cv, buf, pos, word>>

(* front.swap(curr), then the test of the do-while loop.                   *)
EndBottomUp ==
  /\ stage = "bu" /\ AllAt("idle")
  /\ front' = curr
  /\ IF awake >= oldAwake \/ awake > NumNodes \div beta
       THEN StartBottomUp(awake)
       ELSE /\ curr' = front
            /\ stage' = "bitmapToQueue" /\ todo' = V
            /\ UNCHANGED <<awake, oldAwake>>
  /\ UNCHANGED <<args, parent, queue, edges, scout,
                 pc, u, nbrs, v, cv, buf, pos, word>>

EndBitmapToQueue ==
  /\ stage = "bitmapToQueue" /\ AllAt("arrived") /\ Rejoin
  /\ SlideWindow
  /\ scout' = 1
  /\ stage' = "decide"
  /\ UNCHANGED <<args, parent, slots, in, front, curr, edges, awake, oldAwake, todo,
                 u, nbrs, v, cv, buf, pos, word>>
-----------------------------------------------------------------------------
(* Thread t takes an iteration: a queue position, a chunk of vertices for  *)
(* BUStep, or a vertex.  Which thread takes which one is left open.        *)
Claim(t) ==
  /\ stage \in Regions /\ pc[t] = "idle"
  /\ \E i \in todo :
       /\ todo' = todo \ {i}
       /\ \/ /\ stage = "td"
             /\ u' = [u EXCEPT ![t] = slots[i]]
             /\ nbrs' = [nbrs EXCEPT ![t] = OutNeigh(g, slots[i], 0)]
             /\ Goto(t, "scan") /\ UNCHANGED v
          \/ /\ stage = "queueToBitmap"
             /\ u' = [u EXCEPT ![t] = slots[i]]
             /\ Goto(t, "readWord") /\ UNCHANGED <<nbrs, v>>
          \/ /\ stage = "bu"
             /\ u' = [u EXCEPT ![t] = i * Chunk]
             /\ Goto(t, "visit") /\ UNCHANGED <<nbrs, v>>
          \/ /\ stage = "bitmapToQueue" /\ i \in front
             /\ v' = [v EXCEPT ![t] = i]
             /\ Goto(t, "push") /\ UNCHANGED <<u, nbrs>>
          \/ /\ stage = "bitmapToQueue" /\ i \notin front
             /\ UNCHANGED <<pc, u, nbrs, v>>
  /\ UNCHANGED <<args, parent, queue, front, curr, counters, stage, cv, buf, pos, word>>

(* A thread in the loop of TDStep or BitmapToQueue: also while its full    *)
(* buffer is flushed from within a push.                                   *)
InLoop(t) == pc[t] \in {"idle", "scan"} \/ v[t] # NoNode

(* The loops of TDStep and BitmapToQueue are nowait: a thread without      *)
(* iterations of its own left goes on to flush its buffer before the       *)
(* barrier.  Those not started are the share, or the rest of the chunk, of *)
(* threads that still are in the loop.                                     *)
LeaveLoop(t) ==
  /\ stage \in {"td", "bitmapToQueue"} /\ pc[t] = "idle"
  /\ todo = {} \/ \E s \in Threads \ {t} : InLoop(s)
  /\ Goto(t, "flush")
  /\ UNCHANGED <<args, parent, queue, front, curr, counters, stage, todo,
                 u, nbrs, v, cv, buf, pos, word>>
-----------------------------------------------------------------------------
(* TDStep.                                                                 *)

ReadParent(t) ==
  /\ pc[t] = "scan" /\ nbrs[t] # <<>>
  /\ nbrs' = [nbrs EXCEPT ![t] = Tail(nbrs[t])]
  /\ LET n == Head(nbrs[t]) IN
       IF parent[n] < 0
         THEN /\ Goto(t, "cas")
              /\ v' = [v EXCEPT ![t] = n]
              /\ cv' = [cv EXCEPT ![t] = parent[n]]
         ELSE UNCHANGED <<pc, v, cv>>
  /\ UNCHANGED <<args, parent, queue, front, curr, counters, stage, todo, u, buf, pos, word>>

EndScan(t) ==
  /\ pc[t] = "scan" /\ nbrs[t] = <<>>
  /\ Goto(t, "idle") /\ u' = [u EXCEPT ![t] = 0]
  /\ UNCHANGED <<args, parent, queue, front, curr, counters, stage, todo,
                 nbrs, v, cv, buf, pos, word>>

(* Mutant: a plain store in place of the CAS.                              *)
CasParent_Store(t) ==
  /\ pc[t] = "cas"
  /\ parent' = [parent EXCEPT ![v[t]] = u[t]]
  /\ scout' = scout + (-cv[t])
  /\ Goto(t, "push")
  /\ cv' = [cv EXCEPT ![t] = 0]
  /\ UNCHANGED <<args, queue, front, curr, edges, awake, oldAwake, stage, todo,
                 u, nbrs, v, buf, pos, word>>

CasParent(t) ==
  /\ pc[t] = "cas"
  /\ IF parent[v[t]] = cv[t]
       THEN /\ parent' = [parent EXCEPT ![v[t]] = u[t]]
            /\ scout' = scout + (-cv[t])
            /\ Goto(t, "push") /\ UNCHANGED v
       ELSE Goto(t, "scan") /\ v' = [v EXCEPT ![t] = NoNode] /\ UNCHANGED <<parent, scout>>
  /\ cv' = [cv EXCEPT ![t] = 0]
  /\ UNCHANGED <<args, queue, front, curr, edges, awake, oldAwake, stage, todo,
                 u, nbrs, buf, pos, word>>
-----------------------------------------------------------------------------
(* QueueBuffer: push_back flushes a full buffer first; flush reserves room *)
(* with a fetch_and_add and then copies.                                   *)

AfterPush == IF stage = "td" THEN "scan" ELSE "idle"

Push(t) ==
  /\ pc[t] = "push"
  /\ IF Len(buf[t]) = BufferSize
       THEN Goto(t, "flush") /\ UNCHANGED <<buf, v>>
       ELSE /\ buf' = [buf EXCEPT ![t] = Append(@, v[t])]
            /\ v' = [v EXCEPT ![t] = NoNode]
            /\ Goto(t, AfterPush)
  /\ UNCHANGED <<args, parent, queue, front, curr, counters, stage, todo,
                 u, nbrs, cv, pos, word>>

Reserve(t) ==
  /\ pc[t] = "flush"
  /\ pos' = [pos EXCEPT ![t] = in]
  /\ in' = in + Len(buf[t])
  /\ Goto(t, "copy")
  /\ UNCHANGED <<args, parent, slots, start, end, front, curr, counters, stage, todo,
                 u, nbrs, v, cv, buf, word>>

Copy(t) ==
  /\ pc[t] = "copy"
  /\ slots' = [i \in V |-> IF i \in pos[t] .. pos[t] + Len(buf[t]) - 1
                             THEN buf[t][i - pos[t] + 1] ELSE slots[i]]
  /\ buf' = [buf EXCEPT ![t] = <<>>]
  /\ pos' = [pos EXCEPT ![t] = 0]
  /\ Goto(t, IF v[t] # NoNode THEN "push" ELSE "arrived")
  /\ UNCHANGED <<args, parent, in, start, end, front, curr, counters, stage, todo,
                 u, nbrs, v, cv, word>>
-----------------------------------------------------------------------------
(* BUStep, vertex by vertex through the chunk.  Only the owner of a chunk  *)
(* touches the parents of its vertices; a bit is set by reading and then   *)
(* writing back its whole word.                                            *)

FrontNeighbours(n) == {i \in DOMAIN g.in[n] : g.in[n][i] \in front}
FirstInFront(n) ==
  g.in[n][CHOOSE i \in FrontNeighbours(n) : \A j \in FrontNeighbours(n) : i <= j]

NextInChunk(t) ==
  IF u[t] + 1 \in V /\ (u[t] + 1) % Chunk # 0
    THEN Goto(t, "visit") /\ u' = [u EXCEPT ![t] = @ + 1]
    ELSE Goto(t, "idle") /\ u' = [u EXCEPT ![t] = 0]

Visit(t) ==
  /\ pc[t] = "visit"
  /\ IF parent[u[t]] < 0 /\ FrontNeighbours(u[t]) # {}
       THEN /\ parent' = [parent EXCEPT ![u[t]] = FirstInFront(u[t])]
            /\ awake' = awake + 1
            /\ Goto(t, "readWord") /\ UNCHANGED u
       ELSE NextInChunk(t) /\ UNCHANGED <<parent, awake>>
  /\ UNCHANGED <<args, queue, front, curr, edges, scout, oldAwake, stage, todo,
                 nbrs, v, cv, buf, pos, word>>

(* The read of set_bit (the next bitmap) or of set_bit_atomic (front).     *)
ReadWord(t) ==
  /\ pc[t] = "readWord"
  /\ word' = [word EXCEPT ![t] = WordOf(u[t]) \cap (IF stage = "bu" THEN curr ELSE front)]
  /\ Goto(t, "writeWord")
  /\ UNCHANGED <<args, parent, queue, front, curr, counters, stage, todo,
                 u, nbrs, v, cv, buf, pos>>

SetBit(t) ==
  /\ stage = "bu" /\ pc[t] = "writeWord"
  /\ curr' = (curr \ WordOf(u[t])) \cup word[t] \cup {u[t]}
  /\ word' = [word EXCEPT ![t] = {}]
  /\ NextInChunk(t)
  /\ UNCHANGED <<args, parent, queue, front, counters, stage, todo, nbrs, v, cv, buf, pos>>

SetBitAtomic(t) ==
  /\ stage = "queueToBitmap" /\ pc[t] = "writeWord"
  /\ IF front \cap WordOf(u[t]) = word[t]
       THEN /\ front' = front \cup {u[t]}
            /\ Goto(t, "idle") /\ u' = [u EXCEPT ![t] = 0]
       ELSE Goto(t, "readWord") /\ UNCHANGED <<front, u>>
  /\ word' = [word EXCEPT ![t] = {}]
  /\ UNCHANGED <<args, parent, queue, curr, counters, stage, todo, nbrs, v, cv, buf, pos>>
-----------------------------------------------------------------------------
ThreadStep(t) ==
  \/ Claim(t) \/ LeaveLoop(t)
  \/ ReadParent(t) \/ EndScan(t) \/ CasParent(t)
  \/ Push(t) \/ Reserve(t) \/ Copy(t)
  \/ Visit(t) \/ ReadWord(t) \/ SetBit(t) \/ SetBitAtomic(t)

Program ==
  \/ GoTopDown \/ GoBottomUp \/ Return
  \/ EndTopDown \/ EndQueueToBitmap \/ EndBottomUp \/ EndBitmapToQueue

Terminated == stage = "done" /\ UNCHANGED vars

Next == (\E t \in Threads : ThreadStep(t)) \/ Program \/ Terminated

Spec == Init /\ [][Next]_vars

(* The OpenMP runtime runs every runnable thread and opens the barriers.   *)
FairSpec == Spec /\ (\A t \in Threads : WF_vars(ThreadStep(t))) /\ WF_vars(Program)
-----------------------------------------------------------------------------
(* The tree the parents describe.                                          *)
Tree == INSTANCE BFSTree WITH
  tree <- [n \in V |-> IF parent[n] >= 0 THEN parent[n] ELSE NoNode],
  done <- (stage = "done")

(* The type invariant of the program state of DOBFS.                       *)
TypeOK ==
  /\ IsGraph(g) /\ source \in V /\ {alpha, beta} \subseteq Nat \ {0}
  /\ parent \in [V -> Int] /\ \A n \in V : parent[n] < NumNodes
  /\ slots \in [V -> Node] /\ {in, start, end} \subseteq Nat
  /\ front \in SUBSET V /\ curr \in SUBSET V
  /\ {edges, scout, awake, oldAwake} \subseteq Nat
  /\ stage \in Regions \cup {"decide", "done"}
  /\ todo \in SUBSET (0 .. NumNodes)
  /\ pc \in [Threads -> {"idle", "scan", "cas", "push", "flush", "copy", "arrived",
                         "visit", "readWord", "writeWord"}]
  /\ u \in [Threads -> V] /\ nbrs \in [Threads -> Seq(V)]
  /\ v \in [Threads -> Node] /\ cv \in [Threads -> Int]
  /\ buf \in [Threads -> Seq(V)] /\ pos \in [Threads -> Nat]
  /\ word \in [Threads -> SUBSET V]

(* The queue is allocated once, with num_nodes slots, and never checked:   *)
(* it cannot overflow although BitmapToQueue appends the bottom-up         *)
(* frontier behind the windows of earlier levels without a reset.          *)
QueueInBounds == in <= NumNodes

(* Every variable has its type, and no push leaves the queue's allocation. *)
QueueInv == TypeOK /\ QueueInBounds

(* Whenever a direction is chosen, the window holds exactly the last level *)
(* reached, each vertex once and no slot still unwritten, and everything   *)
(* up to that level has been visited.                                      *)
WindowIsLevel ==
  stage = "decide" =>
    LET dist == Depth(g, source) IN
      /\ Cardinality(Frontier) = end - start
      /\ \E k \in 0 .. NumNodes :
           /\ Frontier = {n \in V : dist[n] = k /\ k # Unreachable}
           /\ Visited = {n \in V : dist[n] <= k /\ dist[n] # Unreachable}

(* The non-atomic set_bit of BUStep loses no bit: the chunks of the loop   *)
(* are aligned to whole words, so no two threads write one word, and at    *)
(* the barrier the next bitmap holds the level just reached, as many       *)
(* vertices as awake_count says.                                           *)
NoBitLost ==
  stage = "bu" /\ AllAt("idle") =>
    LET dist == Depth(g, source) IN
      /\ Cardinality(curr) = awake
      /\ \E k \in 0 .. NumNodes :
           /\ curr = {n \in V : dist[n] = k /\ k # Unreachable}
           /\ Visited = {n \in V : dist[n] <= k /\ dist[n] # Unreachable}

(* scout_count is what DOBFS believes it is when it picks a direction: the *)
(* out-edges of the new frontier (one for a vertex without any), although  *)
(* every thread adds up the encoded degrees of the vertices it won.        *)
ScoutOf(n) == IF OutDegree(g, n) = 0 THEN 1 ELSE OutDegree(g, n)
ScoutCountsFrontier ==
  stage = "td" /\ AllAt("arrived") =>
    LET sum[i \in end .. in] == IF i = end THEN 0 ELSE sum[i - 1] + ScoutOf(slots[i - 1])
    IN  scout = sum[in]

(* No vertex of a level is lost or doubled between the buffers, the queue  *)
(* and the bitmaps, whichever way the level travelled, and the counts the  *)
(* next direction is chosen by are those of the level.                     *)
LevelsExact == WindowIsLevel /\ NoBitLost /\ ScoutCountsFrontier

(* Through CAS races, direction switches and front bits left over from an  *)
(* earlier bottom-up phase, the parents form a tree of shortest paths that *)
(* only grows, level by level, and that is complete when DOBFS returns:    *)
(* "all vertices reachable from source have a parent"                      *)
(* (src/src/bfs.cc:200).                                                   *)
GrowsShortestPathTree == Tree!Spec

(* The search ends: the do-while loop cannot spin on an empty frontier and *)
(* no switch of direction can be repeated for ever.                        *)
Termination == <>(stage = "done")
=============================================================================
