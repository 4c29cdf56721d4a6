------------------------------ MODULE Brandes -------------------------------
(***************************************************************************)
(* Betweenness centrality: Brandes, PBFS and BCVerifier of src/src/bc.cc   *)
(* and src/srcc/bc.c.  The C++ PBFS is run by several OpenMP threads, one  *)
(* action per access to the depths, the path counts and the queue they     *)
(* share; the C port is sequential and pushes to the queue directly.  A    *)
(* vertex once given a depth keeps it, so the second test of depths[v] is  *)
(* joined to the access that settled it; a successor bit is read after the *)
(* region only, so the atomic set_bit is joined to the atomic addition     *)
(* that follows it.  Scores are floats in the code: here they are exact,   *)
(* in units of 1/Unit.                                                     *)
(***************************************************************************)
EXTENDS Distances
LOCAL INSTANCE FiniteSetsExt

CONSTANTS
  Graphs,        \* the inputs considered
  Threads,       \* OpenMP worker threads
  NumIters,      \* num_iters, the -i option
  BufferSize,    \* given_size of a QueueBuffer, 16384 in the code
  Unit           \* a multiple of every quotient of path counts that occurs

Assumptions ==
  /\ \A gr \in Graphs : IsGraph(gr)
  /\ IsFiniteSet(Threads) /\ Threads # {}
  /\ {NumIters, BufferSize, Unit} \subseteq Nat \ {0}

VARIABLES
  port,                  \* whose program it is, "cpp" or "c"
  g,
  given,                 \* given_source_ of the SourcePicker, -1 without -r
  iter, picked,          \* iterations done and the sources they had
  depths, counts,        \* depths, path_counts
  succ,                  \* the 1 bits of succ, as <<vertex, place in its list>>
  slots, in, start, end, \* SlidingQueue: shared, shared_in and the window
  index,                 \* depth_index, as positions in the queue
  depth,                 \* depth of the level being found, then being scored
  deltas, scores,
  divisor,               \* biggest_score, once the scores are divided by it
  stage,                 \* where Brandes is
  todo,                  \* queue positions not handed out yet
  pc,                    \* per thread: its next access
  u, k,                  \* per thread: vertex and place in its list
  buf, pos               \* per thread: its QueueBuffer and copy_start

args == <<port, g, given>>
queue == <<slots, in, start, end>>
search == <<depths, counts, succ, queue, index, depth>>
result == <<deltas, scores, divisor>>
locals == <<u, k, buf, pos>>
vars == <<args, iter, picked, search, result, stage, todo, pc, locals>>

NoNode == -1
Node == V \cup {NoNode}
source == picked[Len(picked)]
Neigh(t) == g.out[u[t]][k[t]]

Init ==
  /\ port \in {"cpp", "c"}
  /\ g \in Graphs /\ given \in Node
  /\ given = NoNode => \E n \in V : OutDegree(g, n) # 0
  /\ iter = 0 /\ picked = <<>>
  /\ depths = [n \in V |-> -1] /\ counts = [n \in V |-> 0] /\ succ = {}
  /\ slots = [i \in V |-> NoNode] /\ in = 0 /\ start = 0 /\ end = 0
  /\ index = <<>> /\ depth = 0
  /\ deltas = [n \in V |-> 0] /\ scores = [n \in V |-> 0] /\ divisor = NoNode
  /\ stage = "pick" /\ todo = {}
  /\ pc = [t \in Threads |-> "idle"]
  /\ u = [t \in Threads |-> 0] /\ k = [t \in Threads |-> 0]
  /\ buf = [t \in Threads |-> <<>>] /\ pos = [t \in Threads |-> 0]

Goto(t, l) == pc' = [pc EXCEPT ![t] = l]
Crew == IF port = "c" THEN {CHOOSE t \in Threads : TRUE} ELSE Threads
InTurn(i) == port = "c" => \A j \in todo : i <= j
AllAt(l) == todo = {} /\ \A t \in Threads : pc[t] = l
-----------------------------------------------------------------------------
(* SourcePicker: the given vertex, or any vertex with out-edges.           *)
PickNext(s) == IF given # NoNode THEN s = given ELSE OutDegree(g, s) # 0

(* Mutant: the successor bits of the last iteration are left.              *)
Refill_KeepsSucc(s) ==
  /\ counts' = [n \in V |-> IF n = s THEN 1 ELSE 0]
  /\ succ' = succ

Refill(s) ==
  /\ counts' = [n \in V |-> IF n = s THEN 1 ELSE 0]
  /\ succ' = {}

(* The next iteration, up to the parallel region of PBFS.  queue.reset     *)
(* leaves old vertices in the slots.                                       *)
StartSearch ==
  /\ stage = "pick" /\ iter < NumIters
  /\ \E s \in V :
       /\ PickNext(s)
       /\ picked' = Append(picked, s)
       /\ depths' = [n \in V |-> IF n = s THEN 0 ELSE -1]
       /\ Refill(s)
       /\ slots' = [slots EXCEPT ![0] = s]
  /\ in' = 1 /\ start' = 0 /\ end' = 1
  /\ index' = <<0>> /\ depth' = 1
  /\ stage' = "search" /\ todo' = {0}
  /\ UNCHANGED <<args, iter, result, pc, locals>>
-----------------------------------------------------------------------------
(* The parallel region of PBFS.                                            *)

Claim(t) ==
  /\ stage = "search" /\ pc[t] = "idle" /\ t \in Crew
  /\ \E i \in todo :
       /\ InTurn(i)
       /\ todo' = todo \ {i}
       /\ u' = [u EXCEPT ![t] = slots[i]]
  /\ k' = [k EXCEPT ![t] = 1]
  /\ Goto(t, "scan")
  /\ UNCHANGED <<args, iter, picked, search, result, stage, buf, pos>>

(* A thread inside an iteration has a place k in a list.                   *)
InLoop(t) == pc[t] = "idle" \/ k[t] # 0

(* The loop is nowait: a thread without a chunk goes on to flush its       *)
(* buffer, while iterations not started are in the chunks of threads that  *)
(* still are in the loop.                                                  *)
LeaveLoop(t) ==
  /\ stage = "search" /\ pc[t] = "idle"
  /\ todo = {} \/ \E s \in Crew \ {t} : InLoop(s)
  /\ Goto(t, IF port = "c" THEN "arrived" ELSE "flush")
  /\ UNCHANGED <<args, iter, picked, search, result, stage, todo, locals>>

EndScan(t) ==
  /\ pc[t] = "scan" /\ k[t] > OutDegree(g, u[t])
  /\ Goto(t, "idle")
  /\ u' = [u EXCEPT ![t] = 0] /\ k' = [k EXCEPT ![t] = 0]
  /\ UNCHANGED <<args, iter, picked, search, result, stage, todo, buf, pos>>

NextNeigh(t) == Goto(t, "scan") /\ k' = [k EXCEPT ![t] = @ + 1]

ReadDepth(t) ==
  /\ pc[t] = "scan" /\ k[t] <= OutDegree(g, u[t])
  /\ \/ depths[Neigh(t)] = -1 /\ Goto(t, "cas") /\ UNCHANGED k
     \/ depths[Neigh(t)] = depth /\ Goto(t, "count") /\ UNCHANGED k
     \/ depths[Neigh(t)] \notin {-1, depth} /\ NextNeigh(t)
  /\ UNCHANGED <<args, iter, picked, search, result, stage, todo, u, buf, pos>>

(* Mutant: a thread that loses the vertex does not count its own paths.    *)
CasDepth_WinnerCounts(t) ==
  /\ pc[t] = "cas"
  /\ IF depths[Neigh(t)] = -1
       THEN depths' = [depths EXCEPT ![Neigh(t)] = depth] /\ Goto(t, "push") /\ UNCHANGED k
       ELSE UNCHANGED depths /\ NextNeigh(t)
  /\ UNCHANGED <<args, iter, picked, counts, succ, queue, index, depth, result,
                 stage, todo, u, buf, pos>>
(* Whoever wins the vertex queues it; every thread goes on to count.       *)
CasDepth(t) ==
  /\ pc[t] = "cas"
  /\ IF depths[Neigh(t)] = -1
       THEN depths' = [depths EXCEPT ![Neigh(t)] = depth] /\ Goto(t, "push") /\ UNCHANGED k
       ELSE /\ UNCHANGED depths
            /\ IF depths[Neigh(t)] = depth THEN Goto(t, "count") /\ UNCHANGED k
                                           ELSE NextNeigh(t)
  /\ UNCHANGED <<args, iter, picked, counts, succ, queue, index, depth, result,
                 stage, todo, u, buf, pos>>

PushBack(t) ==
  /\ pc[t] = "push" /\ port = "c"
  /\ slots' = [slots EXCEPT ![in] = Neigh(t)] /\ in' = in + 1
  /\ Goto(t, "count")
  /\ UNCHANGED <<args, iter, picked, depths, counts, succ, start, end, index, depth,
                 result, stage, todo, locals>>

Push(t) ==
  /\ pc[t] = "push" /\ port = "cpp"
  /\ IF Len(buf[t]) = BufferSize
       THEN Goto(t, "flush") /\ UNCHANGED buf
       ELSE Goto(t, "count") /\ buf' = [buf EXCEPT ![t] = Append(@, Neigh(t))]
  /\ UNCHANGED <<args, iter, picked, search, result, stage, todo, u, k, pos>>

CountPaths(t) ==
  /\ pc[t] = "count"
  /\ succ' = succ \cup {<<u[t], k[t]>>}
  /\ counts' = [counts EXCEPT ![Neigh(t)] = @ + counts[u[t]]]
  /\ NextNeigh(t)
  /\ UNCHANGED <<args, iter, picked, depths, queue, index, depth, result,
                 stage, todo, u, buf, pos>>

Reserve(t) ==
  /\ pc[t] = "flush"
  /\ pos' = [pos EXCEPT ![t] = in]
  /\ in' = in + Len(buf[t])
  /\ Goto(t, "copy")
  /\ UNCHANGED <<args, iter, picked, depths, counts, succ, slots, start, end,
                 index, depth, result, stage, todo, u, k, buf>>

(* A full buffer is flushed inside push_back, the last time behind a loop. *)
Copy(t) ==
  /\ pc[t] = "copy"
  /\ slots' = [i \in V |-> IF i \in pos[t] .. pos[t] + Len(buf[t]) - 1
                             THEN buf[t][i - pos[t] + 1] ELSE slots[i]]
  /\ buf' = [buf EXCEPT ![t] = <<>>]
  /\ pos' = [pos EXCEPT ![t] = 0]
  /\ Goto(t, IF k[t] # 0 THEN "push" ELSE "arrived")
  /\ UNCHANGED <<args, iter, picked, depths, counts, succ, in, start, end,
                 index, depth, result, stage, todo, u, k>>
-----------------------------------------------------------------------------
Level(idx, d) == idx[d + 1] .. idx[d + 2] - 1

(* The single block after the barrier notes where the level began, and the *)
(* push_back behind the region where the last one ends.  The C port notes  *)
(* where the next one begins.                                              *)
SlideLevel ==
  /\ start' = end /\ end' = in
  /\ index' = IF port = "c" THEN Append(index, start')
              ELSE IF in = end THEN index \o <<start, start'>> ELSE Append(index, start)

EndLevel ==
  /\ stage = "search" /\ AllAt("arrived")
  /\ pc' = [t \in Threads |-> "idle"]
  /\ SlideLevel
  /\ IF in # end
       THEN /\ depth' = depth + 1 /\ todo' = end .. in - 1
            /\ UNCHANGED <<stage, deltas>>
       ELSE /\ depth' = Len(index') - 2 /\ todo' = Level(index', depth')
            /\ stage' = "score" /\ deltas' = [n \in V |-> 0]
  /\ UNCHANGED <<args, iter, picked, depths, counts, succ, slots, in,
                 scores, divisor, locals>>
-----------------------------------------------------------------------------
(* Back-propagation, a parallel loop per level.  An iteration reads what   *)
(* deeper levels settled and writes the cells of its own vertex: it is one *)
(* step of whichever thread has it.                                        *)

Contribution(n, m) == (counts[n] * (Unit + deltas[m])) \div counts[m]

Successors(n) == {i \in DOMAIN g.out[n] : <<n, i>> \in succ}

Propagate(t) ==
  /\ stage = "score" /\ pc[t] = "idle" /\ t \in Crew
  /\ \E i \in todo :
       /\ InTurn(i)
       /\ todo' = todo \ {i}
       /\ LET n == slots[i]
              delta == MapThenSumSet(LAMBDA j : Contribution(n, g.out[n][j]), Successors(n))
          IN  /\ deltas' = [deltas EXCEPT ![n] = delta]
              /\ scores' = [scores EXCEPT ![n] = @ + delta]
  /\ UNCHANGED <<args, iter, picked, search, divisor, stage, pc, locals>>

EndScored ==
  /\ stage = "score" /\ AllAt("idle")
  /\ IF depth > 0
       THEN /\ depth' = depth - 1 /\ todo' = Level(index, depth')
            /\ UNCHANGED <<stage, iter>>
       ELSE stage' = "pick" /\ iter' = iter + 1 /\ UNCHANGED <<depth, todo>>
  /\ UNCHANGED <<args, picked, depths, counts, succ, queue, index, result, pc, locals>>

(* The maximum and the division by it, which the C port leaves out for 0.  *)
Normalize ==
  /\ stage = "pick" /\ iter = NumIters
  /\ divisor' = Max({0} \cup {scores[n] : n \in V})
  /\ stage' = "done"
  /\ UNCHANGED <<args, iter, picked, search, deltas, scores, todo, pc, locals>>
-----------------------------------------------------------------------------
(* BCVerifier: a serial search and back-propagation from each source that  *)
(* its own picker draws, the same as the kernel's, and the comparison of   *)
(* the scores.  What is not a number compares as equal in C++.             *)
SerialCounts(s) ==
  LET dist == Depth(g, s)
      Above(n) == {e \in V \X (1 .. NumNodes) :
                     e[2] \in DOMAIN g.out[e[1]] /\ g.out[e[1]][e[2]] = n
                     /\ dist[n] = dist[e[1]] + 1}
      count[d \in 0 .. NumNodes - 1] ==
        [n \in V |-> IF d = 0 THEN IF n = s THEN 1 ELSE 0
                     ELSE IF dist[n] = d THEN MapThenSumSet(LAMBDA e : count[d - 1][e[1]], Above(n))
                     ELSE count[d - 1][n]]
  IN  count[NumNodes - 1]

SerialDeltas(s) ==
  LET dist == Depth(g, s)
      paths == SerialCounts(s)
      Below(n) == {i \in DOMAIN g.out[n] : dist[g.out[n][i]] = dist[n] + 1}
      delta[d \in 0 .. NumNodes] ==
        [n \in V |-> IF dist[n] # d \/ d = NumNodes THEN IF d = NumNodes THEN 0 ELSE delta[d + 1][n]
                     ELSE MapThenSumSet(LAMBDA i : LET m == g.out[n][i] IN
                            (paths[n] * (Unit + delta[d + 1][m])) \div paths[m], Below(n))]
  IN  delta[0]

OrOne(x) == IF x = 0 THEN 1 ELSE x

BCVerifier ==
  LET serial == [n \in V |-> MapThenSumSet(LAMBDA i : SerialDeltas(picked[i])[n], DOMAIN picked)]
      biggest == Max({serial[n] : n \in V})
  IN  \/ port = "cpp" /\ 0 \in {biggest, divisor}
      \/ \A n \in V : scores[n] * OrOne(biggest) = serial[n] * OrOne(divisor)

Verify ==
  /\ stage = "done"
  /\ stage' = IF BCVerifier THEN "accepted" ELSE "rejected"
  /\ UNCHANGED <<args, iter, picked, search, result, todo, pc, locals>>
-----------------------------------------------------------------------------
ThreadStep(t) ==
  \/ Claim(t) \/ LeaveLoop(t) \/ EndScan(t)
  \/ ReadDepth(t) \/ CasDepth(t) \/ Push(t) \/ PushBack(t) \/ CountPaths(t)
  \/ Reserve(t) \/ Copy(t) \/ Propagate(t)

Program == StartSearch \/ EndLevel \/ EndScored \/ Normalize \/ Verify

Terminated == stage \in {"accepted", "rejected"} /\ UNCHANGED vars

Next == (\E t \in Threads : ThreadStep(t)) \/ Program \/ Terminated

Spec == Init /\ [][Next]_vars

-----------------------------------------------------------------------------
(* The type invariant of Brandes.  A queue position above the allocation   *)
(* would fail in slots.                                                    *)
TypeOK ==
  /\ IsGraph(g) /\ given \in Node
  /\ iter \in 0 .. NumIters /\ picked \in Seq(V)
  /\ depths \in [V -> -1 .. NumNodes] /\ counts \in [V -> Nat]
  /\ succ \in SUBSET (V \X (1 .. NumNodes * NumNodes))
  /\ slots \in [V -> Node] /\ in \in 0 .. NumNodes /\ {start, end} \subseteq 0 .. in
  /\ index \in Seq(0 .. NumNodes) /\ depth \in 0 .. NumNodes
  /\ deltas \in [V -> Nat] /\ scores \in [V -> Nat] /\ divisor \in Nat \cup {NoNode}
  /\ stage \in {"pick", "search", "score", "done", "accepted", "rejected"} /\ todo \in SUBSET V
  /\ pc \in [Threads -> {"idle", "scan", "cas", "push", "count", "flush", "copy", "arrived"}]
  /\ u \in [Threads -> V] /\ k \in [Threads -> Nat]
  /\ buf \in [Threads -> Seq(V)] /\ pos \in [Threads -> 0 .. NumNodes]

(* The shortest paths from s to n, each as the sequence of its vertices:   *)
(* the reference the counts and scores are judged by.                      *)
Paths(s, n) ==
  LET len == Depth(g, s)[n] IN
    IF len = Unreachable THEN {}
    ELSE {p \in [0 .. len -> V] :
            /\ p[0] = s /\ p[len] = n
            /\ \A i \in 1 .. len : p[i] \in Elems(g.out[p[i - 1]])}

(* Whatever the races for depths and path counts, when a level is complete *)
(* every vertex found so far has exactly as many paths as there are        *)
(* shortest paths to it, the successor bits are the edges those paths use, *)
(* and the queue holds the levels where depth_index says they start.       *)
PathsCounted ==
  stage = "score" =>
    LET dist == Depth(g, source) IN
      /\ \A n \in V : counts[n] = Cardinality(Paths(source, n))
      /\ succ = {e \in V \X (1 .. NumNodes) :
                   /\ dist[e[1]] # Unreachable /\ e[2] \in DOMAIN g.out[e[1]]
                   /\ dist[g.out[e[1]][e[2]]] = dist[e[1]] + 1}
      /\ \A d \in 0 .. Len(index) - 2 :
           {slots[i] : i \in Level(index, d)} =
             {n \in V : dist[n] = IF port = "c" THEN d ELSE d - 1}

(* Every variable has its type, and the path counts of finished levels are *)
(* exact.                                                                  *)
PathsInv == TypeOK /\ PathsCounted

(* The share of n in the paths from s to each vertex behind it.            *)
Dependency(s, n) ==
  MapThenSumSet(
    LAMBDA m : (Unit * Cardinality({p \in Paths(s, m) : \E i \in DOMAIN p : p[i] = n}))
                 \div Cardinality(Paths(s, m)),
    {m \in V \ {n} : Paths(s, m) # {}})

(* The scores returned are the sums, over the sources drawn, of each       *)
(* vertex's exact share of the shortest paths, over the largest of them:   *)
(* nothing of an earlier iteration, of a race for a path count or of the   *)
(* order of the levels shows, and BCVerifier accepts them.  The divisor is *)
(* 0, and the quotients not numbers, only when no source has an out-edge,  *)
(* which takes -r.                                                         *)
ScoresExact ==
  stage = "done" =>
    /\ \A n \in V :
         scores[n] = MapThenSumSet(LAMBDA i : Dependency(picked[i], n), 1 .. NumIters)
    /\ divisor = Max({scores[n] : n \in V})
    /\ divisor = 0 => given # NoNode /\ OutDegree(g, given) = 0
    /\ BCVerifier
=============================================================================
