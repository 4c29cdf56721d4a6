-------------------------- MODULE ParallelBFSProofs --------------------------
(***************************************************************************)
(* For every graph, every number of vertices and threads and all values of *)
(* the tuning parameters: the shared queue of DOBFS never outgrows the     *)
(* num_nodes slots it was allocated with, although nothing checks it; each *)
(* level reaches the next whole, over the CAS races, the buffers and the   *)
(* bitmap words; and DOBFS implements BFSTree.                             *)
(***************************************************************************)
EXTENDS ParallelBFS, CSRGraphProofs

(***************************************************************************)
(* The inductive invariant.  First, which access belongs to which region,  *)
(* and what a thread holds there.                                          *)
(***************************************************************************)
Queueing == {"td", "bitmapToQueue"}

ThreadInv(t) ==
  /\ stage \in {"decide", "done"} => pc[t] = "idle"
  /\ pc[t] \in {"scan", "cas"} => stage = "td"
  /\ pc[t] \in {"push", "flush", "copy", "arrived"} => stage \in Queueing
  /\ pc[t] = "visit" => stage = "bu"
  /\ pc[t] \in {"readWord", "writeWord"} => stage \in {"bu", "queueToBitmap"}
  /\ pc[t] = "cas" => v[t] \in V /\ cv[t] < 0
  /\ pc[t] = "push" => v[t] \in V
  /\ pc[t] \notin {"cas", "push", "flush", "copy"} => v[t] = NoNode
  /\ stage \notin Queueing \/ pc[t] = "arrived" => buf[t] = <<>>
  /\ pc[t] = "copy" => end <= pos[t] /\ pos[t] + Len(buf[t]) <= in

Iterations ==
  CASE stage \in {"decide", "done"}          -> {}
    [] stage \in {"td", "queueToBitmap"}     -> Window
    [] stage = "bu"                          -> {n \div Chunk : n \in V}
    [] stage = "bitmapToQueue"               -> V

ShapeInv ==
  /\ TypeOK
  /\ todo \subseteq Iterations
  /\ start <= end /\ end <= in
  /\ \A t \in Threads : ThreadInv(t)

(***************************************************************************)
(* Second, where a visited vertex may be: in a slot of the queue or about  *)
(* to be copied into it, in a buffer no room was reserved for yet, or in   *)
(* the hands of a thread about to push it.  It is at most at one of them,  *)
(* and every slot that was handed out has one.                             *)
(***************************************************************************)
Copying(t, i) == pc[t] = "copy" /\ i \in pos[t] .. pos[t] + Len(buf[t]) - 1

InSlot(i, n) ==
  /\ i \in 0 .. in - 1
  /\ \/ slots[i] = n /\ \A t \in Threads : ~Copying(t, i)
     \/ \E t \in Threads : Copying(t, i) /\ buf[t][i - pos[t] + 1] = n
InBuf(t, k, n) == pc[t] # "copy" /\ k \in DOMAIN buf[t] /\ buf[t][k] = n
InHand(t, n) == pc[t] \in {"push", "flush", "copy"} /\ v[t] = n

Placed(n) ==
  \/ \E i \in Nat : InSlot(i, n)
  \/ \E t \in Threads : InHand(t, n) \/ \E k \in Nat : InBuf(t, k, n)

AtOnePlace(n) ==
  /\ \A i, j \in Nat : InSlot(i, n) /\ InSlot(j, n) => i = j
  /\ \A s, t \in Threads : \A k, l \in Nat : InBuf(s, k, n) /\ InBuf(t, l, n) => s = t /\ k = l
  /\ \A s, t \in Threads : InHand(s, n) /\ InHand(t, n) => s = t
  /\ \A i, k \in Nat : \A t \in Threads : InSlot(i, n) => ~InHand(t, n) /\ ~InBuf(t, k, n)
  /\ \A s, t \in Threads : \A k \in Nat : InHand(s, n) => ~InBuf(t, k, n)

PlaceInv ==
  /\ \A i \in 0 .. in - 1 : \E n \in V : InSlot(i, n)
  /\ \A n \in V : AtOnePlace(n) /\ (Placed(n) => parent[n] >= 0)

(***************************************************************************)
(* Third, the vertices BUStep reaches are visited and at none of these     *)
(* places, until BitmapToQueue takes them up.                              *)
(***************************************************************************)
Away(n) == parent[n] >= 0 /\ ~Placed(n)

BitInv ==
  /\ stage = "bu" =>
       /\ \A n \in curr : Away(n)
       /\ \A t \in Threads :
            /\ pc[t] \in {"readWord", "writeWord"} => \A n \in V : u[t] = n => Away(n)
            /\ pc[t] = "writeWord" => \A n \in word[t] : Away(n)
  /\ stage = "bitmapToQueue" => \A n \in todo \cap front : Away(n)

IInv == ShapeInv /\ QueueInBounds /\ PlaceInv /\ BitInv
-----------------------------------------------------------------------------
LEMMA VFacts == 0 \in V /\ \A n \in V : n \in Nat /\ n < NumNodes
BY NumNodesAssumption DEF V

(* A quotient is no larger than the dividend, also when multiplied back.   *)
LEMMA Quotients ==
  ASSUME NEW a \in Nat, NEW b \in Nat \ {0}
  PROVE  a \div b \in Nat /\ a \div b <= a /\ (a \div b) * b <= a
OBVIOUS

LEMMA FirstIsNeighbour ==
  ASSUME IsGraph(g), NEW n \in V, FrontNeighbours(n) # {}
  PROVE  FirstInFront(n) \in V \cap front \cap Elems(g.in[n])
<1>1. g.in[n] \in Seq(V)
  BY DEF IsGraph
<1>2. FrontNeighbours(n) \subseteq DOMAIN g.in[n] /\ DOMAIN g.in[n] \subseteq Nat
  BY <1>1 DEF FrontNeighbours
<1>3. \E i \in FrontNeighbours(n) : \A j \in FrontNeighbours(n) : i <= j
  BY <1>2, LeastNumber
<1>. DEFINE least == CHOOSE i \in FrontNeighbours(n) : \A j \in FrontNeighbours(n) : i <= j
<1>4. least \in FrontNeighbours(n)
  BY <1>3
<1>5. FirstInFront(n) = g.in[n][least]
  BY DEF FirstInFront
<1>. HIDE DEF least
<1>. QED BY <1>1, <1>2, <1>4, <1>5 DEF FrontNeighbours, Elems

(* The slots of the window have been written, and lie in the queue.        *)
LEMMA WindowWritten ==
  ASSUME IInv, NEW i \in 0 .. end - 1
  PROVE  i \in V /\ slots[i] \in V
<1>1. start \in Nat /\ end \in Nat /\ in \in Nat /\ end <= in /\ in <= NumNodes
  BY DEF IInv, ShapeInv, TypeOK, QueueInBounds
<1>2. i \in V /\ i \in 0 .. in - 1
  BY <1>1, NumNodesAssumption DEF V
<1>3. \A t \in Threads : ~Copying(t, i)
  <2>. SUFFICES ASSUME NEW t \in Threads, Copying(t, i) PROVE FALSE
    OBVIOUS
  <2>1. end <= pos[t] /\ pos[t] \in Nat /\ i >= pos[t]
    BY DEF IInv, ShapeInv, TypeOK, ThreadInv, Copying
  <2>. QED BY <1>1, <2>1
<1>4. PICK n \in V : InSlot(i, n)
  BY <1>2 DEF IInv, PlaceInv
<1>. QED BY <1>2, <1>3, <1>4 DEF InSlot

LEMMA InitShape == Init => ShapeInv
<1>. SUFFICES ASSUME Init PROVE ShapeInv
  OBVIOUS
<1>1. IsGraph(g) /\ source \in V /\ alpha \in Nat \ {0} /\ beta \in Nat \ {0} /\ 0 \in V
  BY GraphsAssumption, TuningAssumption, NumNodesAssumption DEF Init, V
<1>2. \A n \in V : OutDegree(g, n) \in Nat
  BY <1>1 DEF OutDegree, IsGraph
<1>3. InitParent \in [V -> Int] /\ \A n \in V : InitParent[n] < NumNodes
  BY <1>2, NumNodesAssumption DEF InitParent
<1>4. parent \in [V -> Int] /\ \A n \in V : parent[n] < NumNodes
  BY <1>1, <1>3, NumNodesAssumption DEF Init, V
<1>5. slots \in [V -> Node]
  BY <1>1 DEF Init, Node
<1>6. edges \in Nat /\ scout \in Nat /\ awake \in Nat /\ oldAwake \in Nat
  BY <1>1, <1>2, EdgesFinite DEF Init, NumEdgesDirected
<1>7. TypeOK
  BY <1>1, <1>4, <1>5, <1>6 DEF Init, TypeOK, Regions, Node
<1>. QED BY <1>7 DEF Init, ShapeInv, ThreadInv, Queueing

(* At the start the source is in the first slot, and nothing else is       *)
(* anywhere.                                                               *)
LEMMA InitInv == Init => IInv
<1>. SUFFICES ASSUME Init PROVE IInv
  OBVIOUS
<1>1. ShapeInv /\ source \in V /\ parent[source] >= 0 /\ 0 \in V
  <2>1. ShapeInv /\ source \in V /\ parent = [InitParent EXCEPT ![source] = source]
    BY InitShape DEF Init
  <2>2. parent[source] = source
    BY <2>1 DEF InitParent
  <2>. QED BY <2>1, <2>2, VFacts
<1>2. QueueInBounds
  BY NumNodesAssumption DEF Init, QueueInBounds
<1>3. \A i, n : InSlot(i, n) <=> i = 0 /\ n = source
  BY <1>1 DEF Init, InSlot, Copying
<1>4. \A t \in Threads : \A k, n : ~InHand(t, n) /\ ~InBuf(t, k, n)
  BY DEF Init, InHand, InBuf
<1>5. \A n \in V : AtOnePlace(n) /\ (Placed(n) => n = source)
  BY <1>3, <1>4 DEF AtOnePlace, Placed
<1>6. PlaceInv
  BY <1>1, <1>3, <1>5 DEF Init, PlaceInv
<1>7. BitInv
  BY DEF Init, BitInv
<1>. QED BY <1>1, <1>2, <1>6, <1>7 DEF IInv
-----------------------------------------------------------------------------
(* Types.  What the locals of a thread may become.                         *)
LEMMA NextInChunkType ==
  ASSUME TypeOK, NEW t \in Threads, NextInChunk(t)
  PROVE  /\ u' \in [Threads -> V]
         /\ pc' = [pc EXCEPT ![t] = pc'[t]] /\ pc'[t] \in {"visit", "idle"}
<1>1. u \in [Threads -> V] /\ DOMAIN pc = Threads
  BY DEF TypeOK
<1>2. CASE u[t] + 1 \in V /\ (u[t] + 1) % Chunk # 0
  BY <1>1, <1>2 DEF NextInChunk, Goto
<1>3. CASE ~(u[t] + 1 \in V /\ (u[t] + 1) % Chunk # 0)
  BY <1>1, <1>3, VFacts DEF NextInChunk, Goto
<1>. QED BY <1>2, <1>3

LEMMA ClaimType ==
  ASSUME IInv, NEW t \in Threads, Claim(t)
  PROVE  TypeOK'
<1>1. TypeOK /\ todo \subseteq Iterations /\ start \in Nat /\ end \in Nat
  BY DEF IInv, ShapeInv, TypeOK
<1>2. PICK i \in todo :
        /\ todo' = todo \ {i}
        /\ \/ /\ stage = "td"
              /\ u' = [u EXCEPT ![t] = slots[i]]
              /\ nbrs' = [nbrs EXCEPT ![t] = OutNeigh(g, slots[i], 0)]
              /\ Goto(t, "scan") /\ UNCHANGED v
           \/ /\ stage = "queueToBitmap"
              /\ u' = [u EXCEPT ![t] = slots[i]]
              /\ Goto(t, "readWord") /\ UNCHANGED <<nbrs, v>>
           \/ /\ stage = "bu"
              /\ u' = [u EXCEPT ![t] = i * Chunk]
              /\ Goto(t, "visit") /\ UNCHANGED <<nbrs, v>>
           \/ /\ stage = "bitmapToQueue" /\ i \in front
              /\ v' = [v EXCEPT ![t] = i]
              /\ Goto(t, "push") /\ UNCHANGED <<u, nbrs>>
           \/ /\ stage = "bitmapToQueue" /\ i \notin front
              /\ UNCHANGED <<pc, u, nbrs, v>>
  BY DEF Claim
<1>3. UNCHANGED <<args, parent, queue, front, curr, counters, stage, cv, buf, pos, word>>
  BY DEF Claim
<1>4. todo' \in SUBSET (0 .. NumNodes)
  BY <1>1, <1>2 DEF TypeOK
<1>5. stage \in {"td", "queueToBitmap"} => slots[i] \in V
  <2>. SUFFICES ASSUME stage \in {"td", "queueToBitmap"} PROVE slots[i] \in V
    OBVIOUS
  <2>1. i \in Window
    BY <1>1 DEF Iterations
  <2>2. i \in 0 .. end - 1
    BY <1>1, <2>1 DEF Window
  <2>. QED BY <2>2, WindowWritten
<1>6. stage = "bu" => i * Chunk \in V
  <2>. SUFFICES ASSUME stage = "bu" PROVE i * Chunk \in V
    OBVIOUS
  <2>1. PICK n \in V : i = n \div Chunk
    BY <1>1 DEF Iterations
  <2>2. n \in Nat /\ n < NumNodes /\ Chunk \in Nat \ {0}
    BY TuningAssumption, NumNodesAssumption DEF V
  <2>3. i \in Nat /\ i * Chunk <= n
    BY <2>1, <2>2, Quotients
  <2>4. i * Chunk \in Nat
    BY <2>2, <2>3
  <2>. QED BY <2>2, <2>3, <2>4, NumNodesAssumption DEF V
<1>7. stage = "td" => OutNeigh(g, slots[i], 0) \in Seq(V)
  <2>1. stage = "td" => g.out[slots[i]] \in Seq(V)
    BY <1>1, <1>5 DEF TypeOK, IsGraph
  <2>. QED BY <2>1 DEF OutNeigh, Neighborhood
<1>8. stage = "bitmapToQueue" => i \in V
  BY <1>1 DEF Iterations
<1>9. u' \in [Threads -> V]
  BY <1>1, <1>2, <1>5, <1>6 DEF TypeOK
<1>10. nbrs' \in [Threads -> Seq(V)]
  BY <1>1, <1>2, <1>7 DEF TypeOK
<1>11. v' \in [Threads -> Node]
  BY <1>1, <1>2, <1>8 DEF TypeOK, Node
<1>12. pc' \in [Threads -> {"idle", "scan", "cas", "push", "flush", "copy", "arrived",
                            "visit", "readWord", "writeWord"}]
  BY <1>1, <1>2 DEF TypeOK, Goto
<1>. QED BY <1>1, <1>3, <1>4, <1>9, <1>10, <1>11, <1>12 DEF TypeOK, args, queue, counters

LEMMA TopDownType ==
  ASSUME IInv, NEW t \in Threads, LeaveLoop(t) \/ ReadParent(t) \/ EndScan(t) \/ CasParent(t)
  PROVE  TypeOK'
<1>1. TypeOK /\ ThreadInv(t)
  BY DEF IInv, ShapeInv
<1>2. CASE LeaveLoop(t)
  BY <1>1, <1>2 DEF TypeOK, LeaveLoop, Goto, args, queue, counters
<1>3. CASE ReadParent(t)
  <2>1. nbrs[t] \in Seq(V) /\ nbrs[t] # <<>>
    BY <1>1, <1>3 DEF TypeOK, ReadParent
  <2>2. Head(nbrs[t]) \in V /\ Tail(nbrs[t]) \in Seq(V)
    BY <2>1, HeadTailProperties
  <2>3. nbrs' \in [Threads -> Seq(V)]
    BY <1>1, <1>3, <2>2 DEF TypeOK, ReadParent
  <2>4. v' \in [Threads -> Node]
    BY <1>1, <1>3, <2>2 DEF TypeOK, ReadParent, Node
  <2>5. parent[Head(nbrs[t])] \in Int
    BY <1>1, <2>2 DEF TypeOK
  <2>6. cv' \in [Threads -> Int]
    BY <1>1, <1>3, <2>5 DEF TypeOK, ReadParent
  <2>. QED BY <1>1, <1>3, <2>3, <2>4, <2>6 DEF TypeOK, ReadParent, Goto, args, queue, counters
<1>4. CASE EndScan(t)
  BY <1>1, <1>4, VFacts DEF TypeOK, EndScan, Goto, args, queue, counters
<1>5. CASE CasParent(t)
  <2>1. v[t] \in V /\ cv[t] \in Int /\ cv[t] < 0 /\ u[t] \in V /\ u[t] < NumNodes
    BY <1>1, <1>5, VFacts DEF TypeOK, ThreadInv, CasParent
  <2>0. parent \in [V -> Int] /\ \A n \in V : parent[n] < NumNodes
    BY <1>1 DEF TypeOK
  <2>2. parent' \in [V -> Int] /\ \A n \in V : parent'[n] < NumNodes
    BY <1>5, <2>0, <2>1, VFacts DEF CasParent
  <2>3. scout' \in Nat
    <3>1. scout \in Nat
      BY <1>1 DEF TypeOK
    <3>2. scout' = scout \/ scout' = scout + (-cv[t])
      BY <1>5 DEF CasParent
    <3>. QED BY <2>1, <3>1, <3>2
  <2>4. v' \in [Threads -> Node]
    BY <1>1, <1>5 DEF TypeOK, CasParent, Node
  <2>5. cv' \in [Threads -> Int]
    BY <1>1, <1>5 DEF TypeOK, CasParent
  <2>. QED BY <1>1, <1>5, <2>2, <2>3, <2>4, <2>5 DEF TypeOK, CasParent, Goto, args, queue
<1>. QED BY <1>2, <1>3, <1>4, <1>5

LEMMA BufferType ==
  ASSUME IInv, NEW t \in Threads, Push(t) \/ Reserve(t) \/ Copy(t)
  PROVE  TypeOK'
<1>1. TypeOK /\ ThreadInv(t) /\ buf[t] \in Seq(V) /\ Len(buf[t]) \in Nat /\ pos[t] \in Nat
  <2>1. TypeOK /\ ThreadInv(t)
    BY DEF IInv, ShapeInv
  <2>2. buf[t] \in Seq(V) /\ pos[t] \in Nat
    BY <2>1 DEF TypeOK
  <2>. QED BY <2>1, <2>2
<1>2. CASE Push(t)
  <2>1. v[t] \in V
    BY <1>1, <1>2 DEF ThreadInv, Push
  <2>2. Append(buf[t], v[t]) \in Seq(V)
    BY <1>1, <2>1, AppendProperties
  <2>3. buf' \in [Threads -> Seq(V)] /\ v' \in [Threads -> Node]
    BY <1>1, <1>2, <2>2 DEF TypeOK, Push, Node
  <2>. QED BY <1>1, <1>2, <2>3 DEF TypeOK, Push, AfterPush, Goto, args, queue, counters
<1>3. CASE Reserve(t)
  <2>0. in \in Nat /\ pos \in [Threads -> Nat]
    BY <1>1 DEF TypeOK
  <2>1. in' \in Nat /\ pos' \in [Threads -> Nat]
    BY <1>1, <1>3, <2>0 DEF Reserve
  <2>. QED BY <1>1, <1>3, <2>1 DEF TypeOK, Reserve, Goto, args, counters
<1>4. CASE Copy(t)
  <2>1. \A i \in pos[t] .. pos[t] + Len(buf[t]) - 1 : buf[t][i - pos[t] + 1] \in V
    BY <1>1
  <2>2. slots' \in [V -> Node]
    BY <1>1, <1>4, <2>1 DEF TypeOK, Copy, Node
  <2>3. buf' \in [Threads -> Seq(V)] /\ pos' \in [Threads -> Nat]
    BY <1>1, <1>4 DEF TypeOK, Copy
  <2>. QED BY <1>1, <1>4, <2>2, <2>3 DEF TypeOK, Copy, Goto, args, counters
<1>. QED BY <1>2, <1>3, <1>4

LEMMA BottomUpType ==
  ASSUME IInv, NEW t \in Threads, Visit(t) \/ ReadWord(t) \/ SetBit(t) \/ SetBitAtomic(t)
  PROVE  TypeOK'
<1>1. TypeOK /\ ThreadInv(t) /\ u[t] \in V
  BY DEF IInv, ShapeInv, TypeOK
<1>2. WordOf(u[t]) \in SUBSET V
  BY DEF WordOf
<1>3. CASE Visit(t)
  <2>1. CASE parent[u[t]] < 0 /\ FrontNeighbours(u[t]) # {}
    <3>1. FirstInFront(u[t]) \in V /\ FirstInFront(u[t]) < NumNodes
      BY <1>1, <2>1, FirstIsNeighbour, VFacts DEF TypeOK
    <3>2. parent \in [V -> Int] /\ \A n \in V : parent[n] < NumNodes
      BY <1>1 DEF TypeOK
    <3>3. parent' = [parent EXCEPT ![u[t]] = FirstInFront(u[t])] /\ awake' = awake + 1
          /\ Goto(t, "readWord") /\ UNCHANGED u
      BY <1>3, <2>1 DEF Visit
    <3>. HIDE DEF FirstInFront
    <3>4. parent' \in [V -> Int] /\ \A n \in V : parent'[n] < NumNodes
      BY <1>1, <3>1, <3>2, <3>3, VFacts
    <3>5. UNCHANGED <<args, queue, front, curr, edges, scout, oldAwake, stage, todo, nbrs, v, cv, buf, pos, word>>
      BY <1>3 DEF Visit
    <3>6. awake' \in Nat
      <4>1. awake \in Nat
        BY <1>1 DEF TypeOK
      <4>. QED BY <3>3, <4>1
    <3>7. pc' = [pc EXCEPT ![t] = "readWord"] /\ u' = u
      BY <3>3 DEF Goto
    <3>8. pc' \in [Threads -> {"idle", "scan", "cas", "push", "flush", "copy", "arrived",
                               "visit", "readWord", "writeWord"}]
      BY <1>1, <3>7 DEF TypeOK
    <3>9. parent' \in [V -> Int] /\ (\A n \in V : parent[n] < NumNodes)'
      BY <3>4
    <3>. HIDE DEF V
    <3>. QED BY <1>1, <3>5, <3>6, <3>7, <3>8, <3>9 DEF TypeOK, args, queue
  <2>2. CASE ~(parent[u[t]] < 0 /\ FrontNeighbours(u[t]) # {})
    <3>1. NextInChunk(t) /\ UNCHANGED <<parent, awake>>
      BY <1>3, <2>2 DEF Visit
    <3>. QED BY <1>1, <1>3, <3>1, NextInChunkType DEF TypeOK, Visit, args, queue
  <2>. QED BY <2>1, <2>2
<1>4. CASE ReadWord(t)
  <2>1. word' \in [Threads -> SUBSET V]
    BY <1>1, <1>2, <1>4 DEF TypeOK, ReadWord
  <2>. QED BY <1>1, <1>4, <2>1 DEF TypeOK, ReadWord, Goto, args, queue, counters
<1>5. CASE SetBit(t)
  <2>1. curr' \in SUBSET V /\ word' \in [Threads -> SUBSET V]
    BY <1>1, <1>5 DEF TypeOK, SetBit
  <2>2. NextInChunk(t)
    BY <1>5 DEF SetBit
  <2>. QED BY <1>1, <1>5, <2>1, <2>2, NextInChunkType DEF TypeOK, SetBit, args, queue, counters
<1>6. CASE SetBitAtomic(t)
  <2>1. front' \in SUBSET V
    BY <1>1, <1>6 DEF TypeOK, SetBitAtomic
  <2>2. word' \in [Threads -> SUBSET V]
    BY <1>1, <1>6 DEF TypeOK, SetBitAtomic
  <2>3. u' \in [Threads -> V]
    BY <1>1, <1>6, VFacts DEF TypeOK, SetBitAtomic
  <2>. QED BY <1>1, <1>6, <2>1, <2>2, <2>3 DEF TypeOK, SetBitAtomic, Goto, args, queue, counters
<1>. QED BY <1>3, <1>4, <1>5, <1>6

LEMMA ProgramType ==
  ASSUME IInv, Program
  PROVE  TypeOK'
<1>1. TypeOK /\ start \in Nat /\ end \in Nat /\ in \in Nat /\ start <= end /\ end <= in
      /\ in <= NumNodes
  BY DEF IInv, ShapeInv, TypeOK, QueueInBounds
<1>2. Window \in SUBSET (0 .. NumNodes)
  BY <1>1, NumNodesAssumption DEF Window
<1>3. {n \div Chunk : n \in V} \in SUBSET (0 .. NumNodes)
  <2>. SUFFICES ASSUME NEW n \in V PROVE n \div Chunk \in 0 .. NumNodes
    OBVIOUS
  <2>1. n \in Nat /\ n < NumNodes /\ Chunk \in Nat \ {0}
    BY TuningAssumption, VFacts
  <2>2. n \div Chunk \in Nat /\ n \div Chunk <= n
    BY <2>1, Quotients
  <2>. QED BY <2>1, <2>2, NumNodesAssumption
<1>4. V \in SUBSET (0 .. NumNodes) /\ {} \in SUBSET (0 .. NumNodes)
  BY NumNodesAssumption DEF V
<1>5. CASE GoTopDown
  <2>1. scout \in Nat /\ edges \in Nat /\ alpha \in Nat \ {0} /\ scout <= edges \div alpha
    BY <1>1, <1>5 DEF TypeOK, GoTopDown
  <2>2. edges \div alpha <= edges /\ edges \div alpha \in Nat
    BY <2>1, Quotients
  <2>3. edges' \in Nat /\ scout' \in Nat
    BY <1>5, <2>1, <2>2 DEF GoTopDown
  <2>. QED BY <1>1, <1>2, <1>5, <2>3 DEF TypeOK, GoTopDown, Regions, args, queue
<1>6. CASE GoBottomUp
  BY <1>1, <1>2, <1>6 DEF TypeOK, GoBottomUp, Regions, args, queue, counters
<1>7. CASE Return
  <2>0. parent \in [V -> Int] /\ \A n \in V : parent[n] < NumNodes
    BY <1>1 DEF TypeOK
  <2>1. parent' \in [V -> Int] /\ \A n \in V : parent'[n] < NumNodes
    BY <1>7, <2>0, NumNodesAssumption DEF Return
  <2>. QED BY <1>1, <1>7, <2>1 DEF TypeOK, Return, args, queue, counters
<1>8. CASE EndTopDown
  BY <1>1, <1>8 DEF TypeOK, EndTopDown, SlideWindow, Rejoin, args, counters
<1>9. CASE EndQueueToBitmap
  <2>1. oldAwake' \in Nat /\ awake' \in Nat
    BY <1>1, <1>9 DEF EndQueueToBitmap, StartBottomUp
  <2>. QED BY <1>1, <1>3, <1>9, <2>1
           DEF TypeOK, EndQueueToBitmap, StartBottomUp, SlideWindow, Regions, args
<1>10. CASE EndBottomUp
  <2>1. CASE awake >= oldAwake \/ awake > NumNodes \div beta
    BY <1>1, <1>3, <1>10, <2>1 DEF TypeOK, EndBottomUp, StartBottomUp, Regions, args, queue
  <2>2. CASE ~(awake >= oldAwake \/ awake > NumNodes \div beta)
    BY <1>1, <1>4, <1>10, <2>2 DEF TypeOK, EndBottomUp, Regions, args, queue
  <2>. QED BY <2>1, <2>2
<1>11. CASE EndBitmapToQueue
  BY <1>1, <1>11 DEF TypeOK, EndBitmapToQueue, SlideWindow, Rejoin, args
<1>. QED BY <1>5, <1>6, <1>7, <1>8, <1>9, <1>10, <1>11 DEF Program

LEMMA TypeStep == IInv /\ Next => TypeOK'
<1>. SUFFICES ASSUME IInv, Next PROVE TypeOK'
  OBVIOUS
<1>1. ASSUME NEW t \in Threads, ThreadStep(t) PROVE TypeOK'
  BY <1>1, ClaimType, TopDownType, BufferType, BottomUpType DEF ThreadStep
<1>2. CASE Program
  BY <1>2, ProgramType
<1>3. CASE Terminated
  BY <1>3 DEF IInv, ShapeInv, TypeOK, Terminated, vars, args, queue, counters
<1>. QED BY <1>1, <1>2, <1>3 DEF Next
-----------------------------------------------------------------------------
(* A step of thread t leaves the locals of the others alone, as well as    *)
(* the region and its window.                                              *)
LEMMA OneThread ==
  ASSUME TypeOK, NEW t \in Threads, ThreadStep(t)
  PROVE  /\ UNCHANGED <<args, start, end, stage>>
         /\ in' = in \/ Reserve(t)
         /\ \A s \in Threads \ {t} :
              /\ pc'[s] = pc[s] /\ u'[s] = u[s] /\ v'[s] = v[s] /\ cv'[s] = cv[s]
              /\ buf'[s] = buf[s] /\ pos'[s] = pos[s] /\ word'[s] = word[s] /\ nbrs'[s] = nbrs[s]
<1>1. /\ DOMAIN pc = Threads /\ DOMAIN u = Threads /\ DOMAIN v = Threads /\ DOMAIN cv = Threads
      /\ DOMAIN buf = Threads /\ DOMAIN pos = Threads /\ DOMAIN word = Threads
      /\ DOMAIN nbrs = Threads
  BY DEF TypeOK
<1>2. CASE Claim(t)
  BY <1>1, <1>2 DEF Claim, Goto, queue
<1>3. CASE LeaveLoop(t) \/ ReadParent(t) \/ EndScan(t)
  BY <1>1, <1>3 DEF LeaveLoop, ReadParent, EndScan, Goto, queue
<1>4. CASE CasParent(t)
  BY <1>1, <1>4 DEF CasParent, Goto, queue
<1>5. CASE Push(t) \/ Reserve(t) \/ Copy(t)
  BY <1>1, <1>5 DEF Push, Reserve, Copy, Goto, queue
<1>6. CASE Visit(t)
  BY <1>1, <1>6 DEF Visit, NextInChunk, Goto, queue
<1>7. CASE ReadWord(t) \/ SetBit(t) \/ SetBitAtomic(t)
  BY <1>1, <1>7 DEF ReadWord, SetBit, SetBitAtomic, NextInChunk, Goto, queue
<1>. QED BY <1>2, <1>3, <1>4, <1>5, <1>6, <1>7 DEF ThreadStep

LEMMA OtherInv ==
  ASSUME NEW s, ThreadInv(s), in \in Nat, in' \in Nat, in <= in', UNCHANGED <<stage, end>>,
         pc'[s] = pc[s], v'[s] = v[s], cv'[s] = cv[s], buf'[s] = buf[s], pos'[s] = pos[s],
         pos[s] \in Nat, Len(buf[s]) \in Nat
  PROVE  ThreadInv(s)'
BY DEF ThreadInv

(* The thread that moves.                                                  *)
LEMMA MovingInv ==
  ASSUME IInv, NEW t \in Threads, ThreadStep(t)
  PROVE  ThreadInv(t)'
<1>1. TypeOK /\ ThreadInv(t) /\ todo \subseteq Iterations /\ end <= in
  BY DEF IInv, ShapeInv
<1>2. /\ DOMAIN pc = Threads /\ DOMAIN v = Threads /\ DOMAIN cv = Threads
      /\ DOMAIN buf = Threads /\ DOMAIN pos = Threads
      /\ buf[t] \in Seq(V) /\ in \in Nat /\ end \in Nat /\ pos[t] \in Nat /\ nbrs[t] \in Seq(V)
      /\ parent \in [V -> Int]
  BY <1>1 DEF TypeOK
<1>3. Len(buf[t]) \in Nat
  BY <1>2
<1>4. CASE Claim(t)
  <2>1. stage \in Regions /\ pc[t] = "idle" /\ UNCHANGED <<stage, end, in, cv, buf, pos>>
    BY <1>4 DEF Claim, queue
  <2>2. v[t] = NoNode /\ (stage \notin Queueing => buf[t] = <<>>)
    BY <1>1, <2>1 DEF ThreadInv
  <2>3. stage = "bitmapToQueue" => todo \subseteq V
    BY <1>1 DEF Iterations
  <2>4. \/ stage = "td" /\ pc'[t] = "scan" /\ v'[t] = v[t]
        \/ stage = "queueToBitmap" /\ pc'[t] = "readWord" /\ v'[t] = v[t]
        \/ stage = "bu" /\ pc'[t] = "visit" /\ v'[t] = v[t]
        \/ stage = "bitmapToQueue" /\ pc'[t] = "push" /\ v'[t] \in V
        \/ stage = "bitmapToQueue" /\ pc'[t] = "idle" /\ v'[t] = v[t]
    BY <1>2, <1>4, <2>1, <2>3 DEF Claim, Goto
  <2>. QED BY <2>1, <2>2, <2>4 DEF ThreadInv, Queueing
<1>5. CASE LeaveLoop(t) \/ EndScan(t)
  BY <1>1, <1>2, <1>5 DEF LeaveLoop, EndScan, Goto, ThreadInv, Queueing, queue
<1>6. CASE ReadParent(t)
  <2>1. Head(nbrs[t]) \in V
    BY <1>2, <1>6, HeadTailProperties DEF ReadParent
  <2>2. \/ pc'[t] = "cas" /\ v'[t] \in V /\ cv'[t] < 0
        \/ pc'[t] = pc[t] /\ v'[t] = v[t] /\ cv'[t] = cv[t]
    BY <1>2, <1>6, <2>1 DEF ReadParent, Goto
  <2>. QED BY <1>1, <1>6, <2>2 DEF ReadParent, ThreadInv, Queueing, queue
<1>7. CASE CasParent(t)
  <2>1. \/ pc'[t] = "push" /\ v'[t] = v[t]
        \/ pc'[t] = "scan" /\ v'[t] = NoNode
    BY <1>2, <1>7 DEF CasParent, Goto
  <2>. QED BY <1>1, <1>7, <2>1 DEF CasParent, ThreadInv, Queueing, queue
<1>8. CASE Push(t)
  <2>1. \/ pc'[t] = "flush" /\ v'[t] = v[t] /\ buf'[t] = buf[t]
        \/ pc'[t] = AfterPush /\ v'[t] = NoNode
    BY <1>2, <1>8 DEF Push, Goto
  <2>. QED BY <1>1, <1>8, <2>1 DEF Push, AfterPush, ThreadInv, Queueing, queue
<1>9. CASE Reserve(t)
  <2>1. pc'[t] = "copy" /\ pos'[t] = in /\ in' = in + Len(buf[t])
    BY <1>2, <1>9 DEF Reserve, Goto
  <2>. QED BY <1>1, <1>2, <1>3, <1>9, <2>1 DEF Reserve, ThreadInv, Queueing
<1>10. CASE Copy(t)
  <2>1. /\ pc[t] = "copy" /\ buf'[t] = <<>> /\ UNCHANGED <<v, stage, end, cv>>
        /\ pc'[t] = IF v[t] # NoNode THEN "push" ELSE "arrived"
    BY <1>2, <1>10 DEF Copy, Goto
  <2>2. v[t] \in V \cup {NoNode}
    BY <1>1 DEF TypeOK, Node
  <2>. QED BY <1>1, <2>1, <2>2 DEF ThreadInv, Queueing
<1>11. CASE Visit(t)
  <2>1. pc'[t] \in {"readWord", "visit", "idle"}
    BY <1>2, <1>11 DEF Visit, NextInChunk, Goto
  <2>. QED BY <1>1, <1>11, <2>1 DEF Visit, ThreadInv, Queueing, queue
<1>12. CASE ReadWord(t)
  BY <1>1, <1>2, <1>12 DEF ReadWord, Goto, ThreadInv, Queueing, queue
<1>13. CASE SetBit(t)
  <2>1. pc'[t] \in {"visit", "idle"}
    BY <1>2, <1>13 DEF SetBit, NextInChunk, Goto
  <2>. QED BY <1>1, <1>13, <2>1 DEF SetBit, ThreadInv, Queueing, queue
<1>14. CASE SetBitAtomic(t)
  <2>1. pc'[t] \in {"readWord", "idle"}
    BY <1>2, <1>14 DEF SetBitAtomic, Goto
  <2>. QED BY <1>1, <1>14, <2>1 DEF SetBitAtomic, ThreadInv, Queueing, queue
<1>. QED BY <1>4, <1>5, <1>6, <1>7, <1>8, <1>9, <1>10, <1>11, <1>12, <1>13, <1>14 DEF ThreadStep

LEMMA ThreadShape ==
  ASSUME IInv, NEW t \in Threads, ThreadStep(t)
  PROVE  ShapeInv'
<1>1. TypeOK /\ TypeOK' /\ todo \subseteq Iterations /\ start <= end /\ end <= in
  BY TypeStep DEF IInv, ShapeInv, Next
<1>2. UNCHANGED <<start, end, stage>>
  BY <1>1, OneThread
<1>3. todo' \subseteq todo
  BY DEF ThreadStep, Claim, LeaveLoop, ReadParent, EndScan, CasParent, Push, Reserve, Copy,
         Visit, ReadWord, SetBit, SetBitAtomic
<1>4. in \in Nat /\ in' \in Nat /\ in <= in'
  <2>1. in \in Nat /\ in' \in Nat /\ buf[t] \in Seq(V)
    BY <1>1 DEF TypeOK
  <2>2. Len(buf[t]) \in Nat
    BY <2>1
  <2>. QED BY <1>1, <2>1, <2>2, OneThread DEF Reserve
<1>5. todo' \subseteq Iterations'
  BY <1>1, <1>2, <1>3 DEF Iterations, Window
<1>6. ASSUME NEW s \in Threads, s # t PROVE ThreadInv(s)'
  <2>1. /\ pc'[s] = pc[s] /\ v'[s] = v[s] /\ cv'[s] = cv[s] /\ buf'[s] = buf[s] /\ pos'[s] = pos[s]
    BY <1>1, <1>6, OneThread
  <2>2. pos[s] \in Nat /\ buf[s] \in Seq(V)
    BY <1>1 DEF TypeOK
  <2>3. Len(buf[s]) \in Nat /\ ThreadInv(s)
    BY <2>2 DEF IInv, ShapeInv
  <2>. QED BY <1>2, <1>4, <2>1, <2>2, <2>3, OtherInv
<1>7. start' <= end' /\ end' <= in'
  BY <1>1, <1>2, <1>4 DEF TypeOK
<1>. QED BY <1>1, <1>5, <1>6, <1>7, MovingInv DEF ShapeInv

LEMMA ProgramShape ==
  ASSUME IInv, Program
  PROVE  ShapeInv'
<1>1. /\ TypeOK /\ TypeOK' /\ start <= end /\ end <= in /\ todo \subseteq Iterations
      /\ start \in Nat /\ end \in Nat /\ in \in Nat
  BY TypeStep DEF IInv, ShapeInv, TypeOK, Next
<1>2. \A t \in Threads : ThreadInv(t)
  BY DEF IInv, ShapeInv
<1>3. CASE GoTopDown
  BY <1>1, <1>2, <1>3 DEF GoTopDown, ShapeInv, ThreadInv, Iterations, Window, Queueing, queue
<1>4. CASE GoBottomUp
  BY <1>1, <1>2, <1>4 DEF GoBottomUp, ShapeInv, ThreadInv, Iterations, Window, Queueing, queue
<1>5. CASE Return
  BY <1>1, <1>2, <1>5 DEF Return, ShapeInv, ThreadInv, Iterations, Window, Queueing, queue
<1>6. CASE EndTopDown
  BY <1>1, <1>2, <1>6 DEF EndTopDown, AllAt, Rejoin, SlideWindow, ShapeInv, ThreadInv, Iterations, Queueing
<1>7. CASE EndQueueToBitmap
  BY <1>1, <1>2, <1>7
     DEF EndQueueToBitmap, AllAt, StartBottomUp, SlideWindow, ShapeInv, ThreadInv, Iterations, Queueing
<1>8. CASE EndBottomUp
  BY <1>1, <1>2, <1>8
     DEF EndBottomUp, AllAt, StartBottomUp, ShapeInv, ThreadInv, Iterations, Queueing, queue
<1>9. CASE EndBitmapToQueue
  BY <1>1, <1>2, <1>9
     DEF EndBitmapToQueue, AllAt, Rejoin, SlideWindow, ShapeInv, ThreadInv, Iterations, Queueing
<1>. QED BY <1>3, <1>4, <1>5, <1>6, <1>7, <1>8, <1>9 DEF Program

LEMMA ShapeStep == IInv /\ Next => ShapeInv'
<1>1. IInv /\ Terminated => ShapeInv'
  <2>. SUFFICES ASSUME IInv, Terminated PROVE ShapeInv'
    OBVIOUS
  <2>1. TypeOK'
    BY TypeStep DEF Next
  <2>. QED BY <2>1 DEF IInv, ShapeInv, Terminated, vars, args, queue, counters, ThreadInv, Iterations, Window
<1>. QED BY <1>1, ThreadShape, ProgramShape DEF Next
-----------------------------------------------------------------------------
(* Places.  Where no vertex gets a new place, each is at one still.        *)
LEMMA Unmoved ==
  ASSUME NEW n, AtOnePlace(n),
         \A i \in Nat : InSlot(i, n)' => InSlot(i, n),
         \A t \in Threads : \A k \in Nat : InBuf(t, k, n)' => InBuf(t, k, n),
         \A t \in Threads : InHand(t, n)' => InHand(t, n)
  PROVE  AtOnePlace(n)' /\ (Placed(n)' => Placed(n))
BY DEF AtOnePlace, Placed

(* A vertex that was nowhere is taken up by one thread.                    *)
LEMMA TakenUp ==
  ASSUME NEW n, ~Placed(n), NEW t \in Threads,
         \A i \in Nat : InSlot(i, n)' => InSlot(i, n),
         \A s \in Threads : \A k \in Nat : InBuf(s, k, n)' => InBuf(s, k, n),
         \A s \in Threads \ {t} : InHand(s, n)' => InHand(s, n)
  PROVE  AtOnePlace(n)'
BY DEF AtOnePlace, Placed

(* A step that leaves the queue and the buffers alone, and no thread       *)
(* starting or ending a copy, leaves all slots and buffers as they were.   *)
LEMMA SlotsSame ==
  ASSUME UNCHANGED <<slots, in, pos, buf>>,
         \A t \in Threads : pc'[t] = "copy" <=> pc[t] = "copy"
  PROVE  /\ \A i, n : InSlot(i, n)' <=> InSlot(i, n)
         /\ \A t \in Threads : \A k, n : InBuf(t, k, n)' <=> InBuf(t, k, n)
<1>1. \A t \in Threads : \A i : Copying(t, i)' <=> Copying(t, i)
  BY DEF Copying
<1>. QED BY <1>1 DEF InSlot, InBuf

(* The steps that move no vertex.                                          *)
LEMMA QuietThread ==
  ASSUME IInv, NEW t \in Threads,
         \/ LeaveLoop(t) \/ ReadParent(t) \/ EndScan(t)
         \/ Visit(t) \/ ReadWord(t) \/ SetBit(t) \/ SetBitAtomic(t)
  PROVE  \A n \in V : AtOnePlace(n)' /\ (Placed(n)' => Placed(n))
<1>1. TypeOK /\ ThreadInv(t) /\ ThreadStep(t)
  BY DEF IInv, ShapeInv, ThreadStep
<1>2. DOMAIN pc = Threads /\ DOMAIN v = Threads
  BY <1>1 DEF TypeOK
<1>3. UNCHANGED <<slots, in, pos, buf>> /\ pc[t] # "copy"
  BY DEF LeaveLoop, ReadParent, EndScan, Visit, ReadWord, SetBit, SetBitAtomic, queue
<1>4. pc'[t] \in {"cas", "scan", "idle", "visit", "readWord", "writeWord", "flush"}
  BY <1>2 DEF LeaveLoop, ReadParent, EndScan, Visit, ReadWord, SetBit, SetBitAtomic, NextInChunk, Goto
<1>5. pc'[t] = "flush" => v'[t] = NoNode
  BY <1>1, <1>2 DEF LeaveLoop, ReadParent, EndScan, Visit, ReadWord, SetBit, SetBitAtomic,
                    NextInChunk, Goto, ThreadInv
<1>6. \A s \in Threads \ {t} : pc'[s] = pc[s] /\ v'[s] = v[s]
  BY <1>1, OneThread
<1>7. \A s \in Threads : pc'[s] = "copy" <=> pc[s] = "copy"
  BY <1>3, <1>4, <1>6
<1>. SUFFICES ASSUME NEW n \in V PROVE AtOnePlace(n)' /\ (Placed(n)' => Placed(n))
  OBVIOUS
<1>8. n # NoNode
  BY VFacts DEF NoNode
<1>9. \A s \in Threads : InHand(s, n)' => InHand(s, n)
  BY <1>4, <1>5, <1>6, <1>8 DEF InHand
<1>10. AtOnePlace(n)
  BY DEF IInv, PlaceInv
<1>. QED BY <1>3, <1>7, <1>9, <1>10, SlotsSame, Unmoved

(* A thread takes up the vertex it won, or a vertex of the bitmap.         *)
LEMMA TakingThread ==
  ASSUME IInv, NEW t \in Threads, Claim(t) \/ CasParent(t)
  PROVE  /\ \A n \in V : AtOnePlace(n)'
         /\ \A n \in V : (Placed(n)' => Placed(n)) \/ (pc'[t] = "push" /\ v'[t] = n)
<1>1. TypeOK /\ ThreadInv(t) /\ ThreadStep(t) /\ todo \subseteq Iterations
  BY DEF IInv, ShapeInv, ThreadStep
<1>2. DOMAIN pc = Threads /\ DOMAIN v = Threads
  BY <1>1 DEF TypeOK
<1>3. UNCHANGED <<slots, in, pos, buf>> /\ pc[t] \in {"idle", "cas"}
  BY DEF Claim, CasParent, queue
<1>4. pc'[t] \in {"idle", "scan", "readWord", "visit", "push"}
  BY <1>2, <1>3 DEF Claim, CasParent, Goto
<1>5. pc'[t] = "push" => ~Placed(v'[t])
  <2>1. CASE Claim(t)
    <3>. SUFFICES ASSUME pc'[t] = "push" PROVE ~Placed(v'[t])
      OBVIOUS
    <3>1. PICK i \in todo : stage = "bitmapToQueue" /\ i \in front /\ v' = [v EXCEPT ![t] = i]
      BY <1>2, <2>1 DEF Claim, Goto
    <3>2. Away(i)
      BY <3>1 DEF IInv, BitInv
    <3>. QED BY <1>2, <3>1, <3>2 DEF Away
  <2>2. CASE CasParent(t)
    <3>. SUFFICES ASSUME pc'[t] = "push" PROVE ~Placed(v'[t])
      OBVIOUS
    <3>1. parent[v[t]] = cv[t] /\ v' = v
      BY <1>2, <2>2 DEF CasParent, Goto
    <3>2. v[t] \in V /\ cv[t] < 0 /\ cv[t] \in Int
      BY <1>1, <2>2 DEF CasParent, ThreadInv, TypeOK
    <3>3. ~(parent[v[t]] >= 0)
      BY <3>1, <3>2
    <3>. QED BY <3>1, <3>2, <3>3 DEF IInv, PlaceInv
  <2>. QED BY <2>1, <2>2
<1>6. \A s \in Threads \ {t} : pc'[s] = pc[s] /\ v'[s] = v[s]
  BY <1>1, OneThread
<1>7. \A s \in Threads : pc'[s] = "copy" <=> pc[s] = "copy"
  BY <1>3, <1>4, <1>6
<1>. SUFFICES ASSUME NEW n \in V
              PROVE  /\ AtOnePlace(n)'
                     /\ (Placed(n)' => Placed(n)) \/ (pc'[t] = "push" /\ v'[t] = n)
  OBVIOUS
<1>8. /\ \A i \in Nat : InSlot(i, n)' => InSlot(i, n)
      /\ \A s \in Threads : \A k \in Nat : InBuf(s, k, n)' => InBuf(s, k, n)
  BY <1>3, <1>7, SlotsSame
<1>9. \A s \in Threads \ {t} : InHand(s, n)' => InHand(s, n)
  BY <1>6 DEF InHand
<1>10. CASE pc'[t] = "push" /\ v'[t] = n
  BY <1>5, <1>8, <1>9, <1>10, TakenUp
<1>11. CASE ~(pc'[t] = "push" /\ v'[t] = n)
  <2>1. ~InHand(t, n)'
    BY <1>4, <1>11 DEF InHand
  <2>2. AtOnePlace(n)
    BY DEF IInv, PlaceInv
  <2>3. \A s \in Threads : InHand(s, n)' => InHand(s, n)
    BY <1>9, <2>1
  <2>. QED BY <1>8, <2>2, <2>3, Unmoved
<1>. QED BY <1>10, <1>11

(* Push moves a vertex from the hands of its thread into the buffer.       *)
LEMMA PushThread ==
  ASSUME IInv, NEW t \in Threads, Push(t)
  PROVE  /\ \A n \in V : AtOnePlace(n)' /\ (Placed(n)' => Placed(n))
         /\ \A i, n : InSlot(i, n)' <=> InSlot(i, n)
<1>1. TypeOK /\ ThreadInv(t) /\ ThreadStep(t)
  BY DEF IInv, ShapeInv, ThreadStep
<1>2. /\ DOMAIN pc = Threads /\ DOMAIN v = Threads /\ DOMAIN buf = Threads
      /\ pc[t] = "push" /\ v[t] \in V /\ buf[t] \in Seq(V)
  BY <1>1 DEF TypeOK, ThreadInv, Push
<1>3. UNCHANGED <<slots, in, pos>>
  BY DEF Push, queue
<1>4. \A s \in Threads \ {t} : pc'[s] = pc[s] /\ v'[s] = v[s] /\ buf'[s] = buf[s]
  BY <1>1, OneThread
<1>5. pc'[t] \in {"flush", "scan", "idle"}
  BY <1>2 DEF Push, AfterPush, Goto
<1>6. \A s \in Threads : \A i : Copying(s, i)' <=> Copying(s, i)
  BY <1>2, <1>3, <1>4, <1>5 DEF Copying
<1>7. \A s \in Threads : \A i : Copying(s, i) => buf'[s] = buf[s]
  BY <1>2, <1>4 DEF Copying
<1>8. \A i, n : InSlot(i, n)' <=> InSlot(i, n)
  BY <1>3, <1>6, <1>7 DEF InSlot
<1>. SUFFICES ASSUME NEW n \in V PROVE AtOnePlace(n)' /\ (Placed(n)' => Placed(n))
  BY <1>8
<1>9. AtOnePlace(n)
  BY DEF IInv, PlaceInv
<1>10. CASE Len(buf[t]) = BufferSize
  <2>1. buf' = buf /\ v' = v /\ pc'[t] = "flush"
    BY <1>2, <1>10 DEF Push, Goto
  <2>2. \A s \in Threads : \A k \in Nat : InBuf(s, k, n)' => InBuf(s, k, n)
    BY <1>2, <1>4, <2>1 DEF InBuf
  <2>3. \A s \in Threads : InHand(s, n)' => InHand(s, n)
    BY <1>2, <1>4, <2>1 DEF InHand
  <2>. QED BY <1>8, <1>9, <2>2, <2>3, Unmoved
<1>11. CASE Len(buf[t]) # BufferSize
  <2>1. buf'[t] = Append(buf[t], v[t]) /\ v'[t] = NoNode /\ pc'[t] \in {"scan", "idle"}
    BY <1>2, <1>11 DEF Push, AfterPush, Goto
  <2>. DEFINE b == buf'[t]
  <2>2. /\ Len(buf[t]) \in Nat /\ DOMAIN buf[t] = 1 .. Len(buf[t])
        /\ DOMAIN b = 1 .. Len(buf[t]) + 1 /\ b[Len(buf[t]) + 1] = v[t]
        /\ \A k \in 1 .. Len(buf[t]) : b[k] = buf[t][k]
    BY <1>2, <2>1, AppendProperties
  <2>3. \A k \in Nat : InBuf(t, k, n)' => InBuf(t, k, n) \/ (k = Len(buf[t]) + 1 /\ n = v[t])
    BY <1>2, <2>2 DEF InBuf
  <2>4. \A s \in Threads \ {t} : \A k \in Nat : InBuf(s, k, n)' => InBuf(s, k, n)
    BY <1>4 DEF InBuf
  <2>5. ~InHand(t, n)' /\ \A s \in Threads \ {t} : InHand(s, n)' => InHand(s, n)
    BY <1>4, <2>1 DEF InHand
  <2>. HIDE DEF b
  <2>6. CASE n = v[t]
    <3>1. InHand(t, n)
      BY <1>2, <2>6 DEF InHand
    <3>2. /\ \A i \in Nat : ~InSlot(i, n)
          /\ \A s \in Threads : \A k \in Nat : ~InBuf(s, k, n)
          /\ \A s \in Threads : InHand(s, n) => s = t
      BY <1>9, <3>1 DEF AtOnePlace
    <3>3. /\ \A i \in Nat : ~InSlot(i, n)'
          /\ \A s \in Threads : \A k \in Nat : InBuf(s, k, n)' => s = t /\ k = Len(buf[t]) + 1
          /\ \A s \in Threads : ~InHand(s, n)'
      BY <1>8, <2>3, <2>4, <2>5, <3>2
    <3>4. AtOnePlace(n)'
      BY <3>3 DEF AtOnePlace
    <3>5. Placed(n)
      BY <3>1 DEF Placed
    <3>. QED BY <3>4, <3>5
  <2>7. CASE n # v[t]
    <3>1. \A s \in Threads : \A k \in Nat : InBuf(s, k, n)' => InBuf(s, k, n)
      BY <2>3, <2>4, <2>7
    <3>2. \A s \in Threads : InHand(s, n)' => InHand(s, n)
      BY <2>5
    <3>. QED BY <1>8, <1>9, <3>1, <3>2, Unmoved
  <2>. QED BY <2>6, <2>7
<1>. QED BY <1>10, <1>11

(* Reserve gives every entry of a buffer a slot behind those in use.       *)
LEMMA ReserveMoves ==
  ASSUME IInv, NEW t \in Threads, Reserve(t)
  PROVE  /\ in \in Nat /\ in' \in Nat /\ in <= in' /\ in' = in + Len(buf[t])
         /\ Len(buf[t]) \in Nat /\ DOMAIN buf[t] = 1 .. Len(buf[t]) /\ buf[t] \in Seq(V)
         /\ \A i \in 0 .. in - 1 : \A n : InSlot(i, n)' <=> InSlot(i, n)
         /\ \A i \in in .. in' - 1 : \A n : InSlot(i, n)' <=> InBuf(t, i - in + 1, n)
         /\ \A i : \A n : InSlot(i, n)' => i \in 0 .. in - 1 \/ i \in in .. in' - 1
         /\ \A s \in Threads : \A k, n : InBuf(s, k, n)' <=> s # t /\ InBuf(s, k, n)
         /\ \A s \in Threads : \A n : InHand(s, n)' <=> InHand(s, n)
<1>1. TypeOK /\ ThreadInv(t) /\ ThreadStep(t)
  BY DEF IInv, ShapeInv, ThreadStep
<1>2. /\ DOMAIN pc = Threads /\ DOMAIN pos = Threads
      /\ buf[t] \in Seq(V) /\ in \in Nat /\ pc[t] = "flush"
      /\ pc'[t] = "copy" /\ pos'[t] = in /\ in' = in + Len(buf[t])
      /\ UNCHANGED <<slots, buf, v>>
  BY <1>1 DEF TypeOK, Reserve, Goto
<1>3. Len(buf[t]) \in Nat /\ DOMAIN buf[t] = 1 .. Len(buf[t])
  BY <1>2
<1>4. \A s \in Threads \ {t} : pc'[s] = pc[s] /\ pos'[s] = pos[s]
  BY <1>1, OneThread
<1>5. \A i : /\ Copying(t, i)' <=> i \in in .. in + Len(buf[t]) - 1
             /\ ~Copying(t, i)
             /\ \A s \in Threads \ {t} : Copying(s, i)' <=> Copying(s, i)
  BY <1>2, <1>4 DEF Copying
<1>6. \A s \in Threads : \A i : Copying(s, i) => i \in Int /\ i < in
  <2>. SUFFICES ASSUME NEW s \in Threads, NEW i, Copying(s, i) PROVE i \in Int /\ i < in
    OBVIOUS
  <2>1. pos[s] \in Nat /\ buf[s] \in Seq(V) /\ pos[s] + Len(buf[s]) <= in
    BY <1>1 DEF IInv, ShapeInv, TypeOK, ThreadInv, Copying
  <2>2. Len(buf[s]) \in Nat
    BY <2>1
  <2>. QED BY <1>2, <2>1, <2>2 DEF Copying
<1>7. \A i \in 0 .. in - 1 : \A n : InSlot(i, n)' <=> InSlot(i, n)
  <2>. SUFFICES ASSUME NEW i \in 0 .. in - 1, NEW n PROVE InSlot(i, n)' <=> InSlot(i, n)
    OBVIOUS
  <2>1. \A s \in Threads : Copying(s, i)' <=> Copying(s, i)
    <3>1. i \in Int /\ i < in
      BY <1>2
    <3>2. ~Copying(t, i)' /\ ~Copying(t, i)
      BY <1>2, <1>3, <1>5, <3>1
    <3>3. \A s \in Threads \ {t} : Copying(s, i)' <=> Copying(s, i)
      BY <1>5
    <3>. QED BY <3>2, <3>3
  <2>2. \A s \in Threads : Copying(s, i) => s # t /\ pos'[s] = pos[s]
    BY <1>4, <1>5
  <2>3. i \in 0 .. in' - 1
    BY <1>2, <1>3
  <2>. QED BY <1>2, <2>1, <2>2, <2>3 DEF InSlot
<1>8. \A i \in in .. in' - 1 : \A n : InSlot(i, n)' <=> InBuf(t, i - in + 1, n)
  <2>. SUFFICES ASSUME NEW i \in in .. in' - 1, NEW n
                PROVE  InSlot(i, n)' <=> InBuf(t, i - in + 1, n)
    OBVIOUS
  <2>1. Copying(t, i)' /\ i \in 0 .. in' - 1 /\ i - in + 1 \in DOMAIN buf[t]
    BY <1>2, <1>3, <1>5
  <2>2. \A s \in Threads \ {t} : ~Copying(s, i)'
    <3>1. i \in Int /\ ~(i < in)
      BY <1>2, <1>3
    <3>2. \A s \in Threads : ~Copying(s, i)
      BY <1>6, <3>1
    <3>3. \A s \in Threads \ {t} : Copying(s, i)' <=> Copying(s, i)
      BY <1>5
    <3>. QED BY <3>2, <3>3
  <2>3. InSlot(i, n)' <=> buf[t][i - in + 1] = n
    BY <1>2, <2>1, <2>2 DEF InSlot
  <2>. QED BY <1>2, <2>1, <2>3 DEF InBuf
<1>9. \A i : \A n : InSlot(i, n)' => i \in 0 .. in - 1 \/ i \in in .. in' - 1
  BY <1>2, <1>3 DEF InSlot
<1>10. \A s \in Threads : \A k, n : InBuf(s, k, n)' <=> s # t /\ InBuf(s, k, n)
  BY <1>2, <1>4 DEF InBuf
<1>11. \A s \in Threads : \A n : InHand(s, n)' <=> InHand(s, n)
  BY <1>2, <1>4 DEF InHand
<1>12. in' \in Nat /\ in <= in'
  BY <1>2, <1>3
<1>. QED BY <1>2, <1>3, <1>7, <1>8, <1>9, <1>10, <1>11, <1>12

(* The vertices there are leave room for the slots reserved.               *)
LEMMA ReserveThread ==
  ASSUME IInv, NEW t \in Threads, Reserve(t)
  PROVE  /\ \A n \in V : AtOnePlace(n)' /\ (Placed(n)' => Placed(n))
         /\ \A i \in 0 .. in' - 1 : \E n \in V : InSlot(i, n)'
         /\ in' <= NumNodes
<1>1. in \in Nat /\ in' \in Nat /\ in <= in' /\ in' = in + Len(buf[t]) /\ buf[t] \in Seq(V)
  BY ReserveMoves
<1>2. Len(buf[t]) \in Nat /\ DOMAIN buf[t] = 1 .. Len(buf[t])
  BY ReserveMoves
<1>3. \A i \in 0 .. in - 1 : \A n : InSlot(i, n)' <=> InSlot(i, n)
  BY ReserveMoves
<1>4. \A i \in in .. in' - 1 : \A n : InSlot(i, n)' <=> InBuf(t, i - in + 1, n)
  BY ReserveMoves
<1>5. \A i : \A n : InSlot(i, n)' => i \in 0 .. in - 1 \/ i \in in .. in' - 1
  BY ReserveMoves
<1>6. \A s \in Threads : \A k, n : InBuf(s, k, n)' => s # t /\ InBuf(s, k, n)
  BY ReserveMoves
<1>7. \A s \in Threads : \A n : InHand(s, n)' <=> InHand(s, n)
  BY ReserveMoves
<1>8. \A i \in 0 .. in' - 1 : \E n \in V : InSlot(i, n)'
  <2>. SUFFICES ASSUME NEW i \in 0 .. in' - 1 PROVE \E n \in V : InSlot(i, n)'
    OBVIOUS
  <2>1. CASE i \in 0 .. in - 1
    BY <1>3, <2>1 DEF IInv, PlaceInv
  <2>2. CASE i \in in .. in' - 1
    <3>1. i - in + 1 \in DOMAIN buf[t]
      BY <1>1, <1>2, <2>2
    <3>2. buf[t][i - in + 1] \in V
      BY <1>1, <3>1
    <3>3. pc[t] = "flush"
      BY DEF Reserve
    <3>. QED BY <1>1, <1>4, <2>2, <3>1, <3>2, <3>3 DEF InBuf
  <2>. QED BY <1>1, <1>2, <2>1, <2>2
<1>9. ASSUME NEW n \in V PROVE AtOnePlace(n)' /\ (Placed(n)' => Placed(n))
  <2>1. AtOnePlace(n)
    BY DEF IInv, PlaceInv
  <2>2. \A i \in Nat : InSlot(i, n)' =>
          InSlot(i, n) \/ (i >= in /\ i - in + 1 \in Nat /\ InBuf(t, i - in + 1, n))
    BY <1>1, <1>2, <1>3, <1>4, <1>5
  <2>3. \A i, j \in Nat : InSlot(i, n)' /\ InSlot(j, n)' => i = j
    <3>. SUFFICES ASSUME NEW i \in Nat, NEW j \in Nat, InSlot(i, n)', InSlot(j, n)' PROVE i = j
      OBVIOUS
    <3>1. CASE InSlot(i, n)
      BY <1>1, <2>1, <2>2, <3>1 DEF AtOnePlace
    <3>2. CASE i - in + 1 \in Nat /\ InBuf(t, i - in + 1, n)
      <4>1. ~InSlot(j, n)
        BY <2>1, <3>2 DEF AtOnePlace
      <4>2. j - in + 1 \in Nat /\ InBuf(t, j - in + 1, n)
        BY <2>2, <4>1
      <4>3. i - in + 1 = j - in + 1
        BY <2>1, <3>2, <4>2 DEF AtOnePlace
      <4>. QED BY <1>1, <4>3
    <3>. QED BY <2>2, <3>1, <3>2
  <2>4. \A s, r \in Threads : \A k, l \in Nat : InBuf(s, k, n)' /\ InBuf(r, l, n)' => s = r /\ k = l
    BY <1>6, <2>1 DEF AtOnePlace
  <2>5. \A s, r \in Threads : InHand(s, n)' /\ InHand(r, n)' => s = r
    BY <1>7, <2>1 DEF AtOnePlace
  <2>6. \A i, k \in Nat : \A s \in Threads : InSlot(i, n)' => ~InHand(s, n)' /\ ~InBuf(s, k, n)'
    BY <1>6, <1>7, <2>1, <2>2 DEF AtOnePlace
  <2>7. \A s, r \in Threads : \A k \in Nat : InHand(s, n)' => ~InBuf(r, k, n)'
    BY <1>6, <1>7, <2>1 DEF AtOnePlace
  <2>8. Placed(n)' => Placed(n)
    BY <1>6, <1>7, <2>2 DEF Placed
  <2>. QED BY <2>3, <2>4, <2>5, <2>6, <2>7, <2>8 DEF AtOnePlace
<1>10. in' <= NumNodes
  <2>. DEFINE R == {p \in Nat \X V : InSlot(p[1], p[2])'}
  <2>1. \A i \in Nat : \A n \in V : <<i, n>> \in R <=> InSlot(i, n)'
    OBVIOUS
  <2>2. in' \in Nat
    BY <1>1, <1>2
  <2>. HIDE DEF R
  <2>3. \A i \in 0 .. in' - 1 : \E n \in V : <<i, n>> \in R
    BY <1>8, <2>1
  <2>4. \A n \in V : \A i, j \in Nat : <<i, n>> \in R /\ <<j, n>> \in R => i = j
    BY <1>9, <2>1 DEF AtOnePlace
  <2>. QED BY <2>2, <2>3, <2>4, SlotsFit
<1>. QED BY <1>8, <1>9, <1>10

(* Copy writes the slots that were reserved, which are then what they were *)
(* about to be.                                                            *)
LEMMA CopyThread ==
  ASSUME IInv, NEW t \in Threads, Copy(t)
  PROVE  /\ \A n \in V : AtOnePlace(n)' /\ (Placed(n)' => Placed(n))
         /\ \A i \in 0 .. in' - 1 : \E n \in V : InSlot(i, n)'
<1>1. TypeOK /\ ThreadInv(t) /\ ThreadStep(t)
  BY DEF IInv, ShapeInv, ThreadStep
<1>2. /\ DOMAIN pc = Threads /\ DOMAIN buf = Threads
      /\ in \in Nat /\ in <= NumNodes /\ in' = in /\ v' = v
      /\ pc[t] = "copy" /\ pc'[t] = (IF v[t] # NoNode THEN "push" ELSE "arrived")
      /\ buf'[t] = <<>>
  BY <1>1 DEF TypeOK, Copy, Goto, IInv, QueueInBounds
<1>3. \A s \in Threads \ {t} : pc'[s] = pc[s] /\ pos'[s] = pos[s] /\ buf'[s] = buf[s]
  BY <1>1, OneThread
<1>4. \A i : ~Copying(t, i)'
  BY <1>2 DEF Copying
<1>5. \A s \in Threads \ {t} : \A i : Copying(s, i)' <=> Copying(s, i)
  BY <1>3 DEF Copying
<1>6. \A i \in 0 .. in - 1 : Copying(t, i) => slots'[i] = buf[t][i - pos[t] + 1]
  BY <1>2, NumNodesAssumption DEF Copy, Copying, V
<1>7. \A i \in 0 .. in - 1 : ~Copying(t, i) => slots'[i] = slots[i]
  BY <1>2, NumNodesAssumption DEF Copy, Copying, V
<1>8. \A s \in Threads : \A i : Copying(s, i) => buf[s][i - pos[s] + 1] \in V
  <2>. SUFFICES ASSUME NEW s \in Threads, NEW i, Copying(s, i)
                PROVE  buf[s][i - pos[s] + 1] \in V
    OBVIOUS
  <2>1. buf[s] \in Seq(V) /\ pos[s] \in Nat
    BY <1>1 DEF TypeOK
  <2>2. Len(buf[s]) \in Nat /\ DOMAIN buf[s] = 1 .. Len(buf[s])
    BY <2>1
  <2>3. i - pos[s] + 1 \in DOMAIN buf[s]
    BY <2>1, <2>2 DEF Copying
  <2>. QED BY <2>1, <2>3
<1>9. \A i \in Nat : \A n : InSlot(i, n)' => InSlot(i, n)
  <2>. SUFFICES ASSUME NEW i \in Nat, NEW n, InSlot(i, n)' PROVE InSlot(i, n)
    OBVIOUS
  <2>1. i \in 0 .. in - 1
    BY <1>2 DEF InSlot
  <2>2. CASE \E s \in Threads : Copying(s, i)' /\ buf'[s][i - pos'[s] + 1] = n
    <3>1. PICK s \in Threads : Copying(s, i)' /\ buf'[s][i - pos'[s] + 1] = n
      BY <2>2
    <3>2. s # t
      BY <1>4, <3>1
    <3>3. Copying(s, i) /\ buf[s][i - pos[s] + 1] = n
      BY <1>3, <1>5, <3>1, <3>2
    <3>. QED BY <2>1, <3>3 DEF InSlot
  <2>3. CASE slots'[i] = n /\ \A s \in Threads : ~Copying(s, i)'
    <3>1. CASE Copying(t, i)
      BY <1>6, <2>1, <2>3, <3>1 DEF InSlot
    <3>2. CASE ~Copying(t, i)
      <4>1. \A s \in Threads : ~Copying(s, i)
        BY <1>5, <2>3, <3>2
      <4>. QED BY <1>7, <2>1, <2>3, <3>2, <4>1 DEF InSlot
    <3>. QED BY <3>1, <3>2
  <2>. QED BY <2>2, <2>3 DEF InSlot
<1>10. \A i \in 0 .. in' - 1 : \E n \in V : InSlot(i, n)'
  <2>. SUFFICES ASSUME NEW i \in 0 .. in - 1 PROVE \E n \in V : InSlot(i, n)'
    BY <1>2
  <2>1. i \in 0 .. in' - 1
    BY <1>2
  <2>2. CASE \E s \in Threads \ {t} : Copying(s, i)
    <3>1. PICK s \in Threads \ {t} : Copying(s, i)
      BY <2>2
    <3>2. Copying(s, i)' /\ buf'[s][i - pos'[s] + 1] \in V
      BY <1>3, <1>5, <1>8, <3>1
    <3>. QED BY <2>1, <3>1, <3>2 DEF InSlot
  <2>3. CASE ~\E s \in Threads \ {t} : Copying(s, i)
    <3>1. \A s \in Threads : ~Copying(s, i)'
      BY <1>4, <1>5, <2>3
    <3>2. slots'[i] \in V
      <4>1. CASE Copying(t, i)
        BY <1>6, <1>8, <4>1
      <4>2. CASE ~Copying(t, i)
        <5>1. \A s \in Threads : ~Copying(s, i)
          BY <2>3, <4>2
        <5>2. PICK n \in V : InSlot(i, n)
          BY DEF IInv, PlaceInv
        <5>3. slots[i] \in V
          BY <5>1, <5>2 DEF InSlot
        <5>. QED BY <1>7, <4>2, <5>3
      <4>. QED BY <4>1, <4>2
    <3>. QED BY <2>1, <3>1, <3>2 DEF InSlot
  <2>. QED BY <2>2, <2>3
<1>11. \A s \in Threads : \A k, n : InBuf(s, k, n)' => InBuf(s, k, n)
  <2>1. \A k, n : ~InBuf(t, k, n)'
    BY <1>2 DEF InBuf
  <2>2. \A s \in Threads \ {t} : \A k, n : InBuf(s, k, n)' => InBuf(s, k, n)
    BY <1>3 DEF InBuf
  <2>. QED BY <2>1, <2>2
<1>12. \A s \in Threads : \A n : InHand(s, n)' => InHand(s, n)
  BY <1>2, <1>3 DEF InHand
<1>13. \A n \in V : AtOnePlace(n)
  BY DEF IInv, PlaceInv
<1>14. \A n \in V : AtOnePlace(n)' /\ (Placed(n)' => Placed(n))
  BY <1>9, <1>11, <1>12, <1>13, Unmoved
<1>. QED BY <1>10, <1>14

(* Between the regions nothing is in the hands of a thread.                *)
LEMMA ProgramPlaces ==
  ASSUME IInv, Program
  PROVE  /\ UNCHANGED <<slots, in, pos, buf>>
         /\ \A t \in Threads : pc'[t] = "copy" <=> pc[t] = "copy"
         /\ \A n \in V : AtOnePlace(n)' /\ (Placed(n)' => Placed(n))
<1>1. UNCHANGED <<slots, in, pos, buf, v>>
  BY DEF Program, GoTopDown, GoBottomUp, Return, EndTopDown, EndQueueToBitmap, EndBottomUp,
         EndBitmapToQueue, SlideWindow, queue
<1>2. pc' = pc \/ \A t \in Threads : pc[t] = "arrived" /\ pc'[t] = "idle"
  BY DEF Program, GoTopDown, GoBottomUp, Return, EndTopDown, EndQueueToBitmap, EndBottomUp,
         EndBitmapToQueue, AllAt, Rejoin
<1>3. \A t \in Threads : pc'[t] = "copy" <=> pc[t] = "copy"
  BY <1>2
<1>4. \A t \in Threads : \A n : InHand(t, n)' => InHand(t, n)
  BY <1>1, <1>2 DEF InHand
<1>5. \A n \in V : AtOnePlace(n)
  BY DEF IInv, PlaceInv
<1>6. \A n \in V : AtOnePlace(n)' /\ (Placed(n)' => Placed(n))
  BY <1>1, <1>3, <1>4, <1>5, SlotsSame, Unmoved
<1>. QED BY <1>1, <1>3, <1>6
(* A vertex that has been visited stays visited.                           *)
LEMMA VisitedKept ==
  ASSUME IInv, Next
  PROVE  \A n \in V : parent[n] >= 0 => parent'[n] >= 0
<1>1. TypeOK /\ parent \in [V -> Int]
  BY DEF IInv, ShapeInv, TypeOK
<1>2. CASE \E t \in Threads : CasParent(t)
  <2>1. PICK t \in Threads : CasParent(t)
    BY <1>2
  <2>2. u[t] \in V
    BY <1>1 DEF TypeOK
  <2>3. u[t] >= 0
    BY <2>2, VFacts
  <2>. QED BY <1>1, <2>1, <2>3 DEF CasParent
<1>3. CASE \E t \in Threads : Visit(t)
  <2>1. PICK t \in Threads : Visit(t)
    BY <1>3
  <2>2. u[t] \in V /\ IsGraph(g)
    BY <1>1 DEF TypeOK
  <2>3. FrontNeighbours(u[t]) # {} => FirstInFront(u[t]) >= 0
    BY <2>2, FirstIsNeighbour, VFacts
  <2>. QED BY <1>1, <2>1, <2>3 DEF Visit
<1>4. CASE Return
  BY <1>1, <1>4 DEF Return
<1>5. CASE parent' = parent
  BY <1>5
<1>6. \/ \E t \in Threads : CasParent(t) \/ Visit(t)
      \/ Return \/ parent' = parent
  BY DEF Next, ThreadStep, Program, Terminated, Claim, LeaveLoop, ReadParent, EndScan, Push,
         Reserve, Copy, ReadWord, SetBit, SetBitAtomic, GoTopDown, GoBottomUp, EndTopDown,
         EndQueueToBitmap, EndBottomUp, EndBitmapToQueue, vars
<1>. QED BY <1>2, <1>3, <1>4, <1>5, <1>6

(* What a thread takes up has been visited.                                *)
LEMMA TakenVisited ==
  ASSUME IInv, NEW t \in Threads, Claim(t) \/ CasParent(t), pc'[t] = "push"
  PROVE  parent'[v'[t]] >= 0
<1>1. TypeOK /\ ThreadInv(t)
  BY DEF IInv, ShapeInv
<1>2. DOMAIN pc = Threads /\ DOMAIN v = Threads /\ parent \in [V -> Int] /\ u[t] \in V
  BY <1>1 DEF TypeOK
<1>3. CASE Claim(t)
  <2>1. PICK i \in todo : stage = "bitmapToQueue" /\ i \in front /\ v' = [v EXCEPT ![t] = i]
    BY <1>2, <1>3 DEF Claim, Goto
  <2>2. parent[i] >= 0 /\ v'[t] = i
    BY <1>2, <2>1 DEF IInv, BitInv, Away
  <2>3. parent' = parent
    BY <1>3 DEF Claim
  <2>. QED BY <2>2, <2>3
<1>4. CASE CasParent(t)
  <2>1. v' = v /\ parent' = [parent EXCEPT ![v[t]] = u[t]]
    BY <1>2, <1>4 DEF CasParent, Goto
  <2>2. v[t] \in V
    BY <1>1, <1>4 DEF CasParent, ThreadInv
  <2>3. parent'[v'[t]] = u[t]
    BY <1>2, <2>1, <2>2
  <2>. QED BY <1>2, <2>3, VFacts
<1>. QED BY <1>3, <1>4

LEMMA PlaceStep == IInv /\ Next => PlaceInv' /\ QueueInBounds'
<1>. SUFFICES ASSUME IInv, Next PROVE PlaceInv' /\ QueueInBounds'
  OBVIOUS
<1>. DEFINE Moved == \A n \in V : AtOnePlace(n)' /\ (Placed(n)' => parent'[n] >= 0)
            Filled == \A i \in 0 .. in' - 1 : \E n \in V : InSlot(i, n)'
<1>1. /\ TypeOK /\ QueueInBounds /\ \A i \in 0 .. in - 1 : \E n \in V : InSlot(i, n)
      /\ \A n \in V : AtOnePlace(n) /\ (Placed(n) => parent[n] >= 0)
  BY DEF IInv, ShapeInv, PlaceInv
<1>2. \A n \in V : parent[n] >= 0 => parent'[n] >= 0
  BY VisitedKept
<1>3. ASSUME \A n \in V : AtOnePlace(n)' /\ (Placed(n)' => Placed(n)) PROVE Moved
  BY <1>1, <1>2, <1>3
<1>4. ASSUME UNCHANGED <<slots, in, pos, buf>>,
             \A t \in Threads : pc'[t] = "copy" <=> pc[t] = "copy"
      PROVE  Filled /\ QueueInBounds'
  <2>1. \A i, n : InSlot(i, n)' <=> InSlot(i, n)
    BY <1>4, SlotsSame
  <2>. QED BY <1>1, <1>4, <2>1 DEF QueueInBounds
<1>5. CASE Program
  <2>1. Moved
    BY <1>3, <1>5, ProgramPlaces
  <2>2. Filled /\ QueueInBounds'
    BY <1>4, <1>5, ProgramPlaces
  <2>. QED BY <2>1, <2>2 DEF PlaceInv
<1>6. CASE Terminated
  <2>1. UNCHANGED <<slots, in, pos, buf, pc, v, parent>>
    BY <1>6 DEF Terminated, vars, queue
  <2>2. \A t \in Threads : \A n : InHand(t, n)' => InHand(t, n)
    BY <2>1 DEF InHand
  <2>3. \A n \in V : AtOnePlace(n)' /\ (Placed(n)' => Placed(n))
    BY <1>1, <2>1, <2>2, SlotsSame, Unmoved
  <2>4. Moved
    BY <1>3, <2>3
  <2>5. Filled /\ QueueInBounds'
    BY <1>4, <2>1
  <2>. QED BY <2>4, <2>5 DEF PlaceInv
<1>7. CASE \E t \in Threads : ThreadStep(t)
  <2>1. PICK t \in Threads : ThreadStep(t)
    BY <1>7
  <2>2. DOMAIN pc = Threads
    BY <1>1 DEF TypeOK
  <2>3. CASE \/ LeaveLoop(t) \/ ReadParent(t) \/ EndScan(t)
             \/ Visit(t) \/ ReadWord(t) \/ SetBit(t) \/ SetBitAtomic(t)
    <3>1. Moved
      BY <1>3, <2>3, QuietThread
    <3>2. UNCHANGED <<slots, in, pos, buf>> /\ pc[t] # "copy" /\ pc'[t] # "copy"
      BY <2>2, <2>3 DEF LeaveLoop, ReadParent, EndScan, Visit, ReadWord, SetBit, SetBitAtomic,
                        NextInChunk, Goto, queue
    <3>3. \A s \in Threads : pc'[s] = "copy" <=> pc[s] = "copy"
      BY <1>1, <2>1, <3>2, OneThread
    <3>. QED BY <1>4, <3>1, <3>2, <3>3 DEF PlaceInv
  <2>4. CASE Claim(t) \/ CasParent(t)
    <3>1. Moved
      BY <1>1, <1>2, <2>4, TakingThread, TakenVisited
    <3>2. UNCHANGED <<slots, in, pos, buf>> /\ pc[t] # "copy" /\ pc'[t] # "copy"
      BY <2>2, <2>4 DEF Claim, CasParent, Goto, queue
    <3>3. \A s \in Threads : pc'[s] = "copy" <=> pc[s] = "copy"
      BY <1>1, <2>1, <3>2, OneThread
    <3>. QED BY <1>4, <3>1, <3>2, <3>3 DEF PlaceInv
  <2>5. CASE Push(t)
    <3>1. Moved
      BY <1>3, <2>5, PushThread
    <3>2. UNCHANGED <<slots, in>>
      BY <2>5 DEF Push, queue
    <3>3. Filled
      BY <1>1, <2>5, <3>2, PushThread
    <3>. QED BY <1>1, <3>1, <3>2, <3>3 DEF PlaceInv, QueueInBounds
  <2>6. CASE Reserve(t)
    <3>1. Moved
      BY <1>3, <2>6, ReserveThread
    <3>. QED BY <2>6, <3>1, ReserveThread DEF PlaceInv, QueueInBounds
  <2>7. CASE Copy(t)
    <3>1. Moved
      BY <1>3, <2>7, CopyThread
    <3>2. in' = in
      BY <2>7 DEF Copy
    <3>. QED BY <1>1, <2>7, <3>1, <3>2, CopyThread DEF PlaceInv, QueueInBounds
  <2>. QED BY <2>1, <2>3, <2>4, <2>5, <2>6, <2>7 DEF ThreadStep
<1>. QED BY <1>5, <1>6, <1>7 DEF Next
-----------------------------------------------------------------------------
(* Bitmaps.  A visited vertex that is nowhere stays so unless it is given  *)
(* a place.                                                                *)
LEMMA AwayKept ==
  ASSUME IInv, Next, NEW n \in V, Away(n), Placed(n)' => Placed(n)
  PROVE  Away(n)'
<1>1. parent[n] >= 0 /\ ~Placed(n)
  BY DEF Away
<1>2. parent'[n] >= 0
  BY <1>1, VisitedKept
<1>. QED BY <1>1, <1>2 DEF Away

LEMMA ProgramBits ==
  ASSUME IInv, Program
  PROVE  BitInv'
<1>1. TypeOK /\ curr \in SUBSET V /\ Next
  BY DEF IInv, ShapeInv, TypeOK, Next
<1>2. CASE stage' = "bu"
  <2>1. curr' = {} /\ \A t \in Threads : pc'[t] = "idle"
    BY <1>2 DEF Program, GoTopDown, GoBottomUp, Return, EndTopDown, EndQueueToBitmap,
                EndBottomUp, EndBitmapToQueue, StartBottomUp, AllAt
  <2>. QED BY <1>2, <2>1 DEF BitInv
<1>3. CASE stage' = "bitmapToQueue"
  <2>1. stage = "bu" /\ front' = curr
    BY <1>3 DEF Program, GoTopDown, GoBottomUp, Return, EndTopDown, EndQueueToBitmap,
                EndBottomUp, EndBitmapToQueue, StartBottomUp
  <2>2. \A n \in curr : Away(n)'
    BY <1>1, <2>1, ProgramPlaces, AwayKept DEF IInv, BitInv
  <2>. QED BY <1>3, <2>1, <2>2 DEF BitInv
<1>. QED BY <1>2, <1>3 DEF BitInv

(* In BUStep no vertex gets a place, and what enters a bitmap or is about  *)
(* to has just been visited or was in the bitmap before.                   *)
LEMMA BottomUpBits ==
  ASSUME IInv, NEW t \in Threads, ThreadStep(t), stage = "bu"
  PROVE  BitInv'
<1>1. TypeOK /\ ThreadInv(t) /\ Next
  BY DEF IInv, ShapeInv, Next
<1>2. /\ DOMAIN pc = Threads /\ DOMAIN u = Threads /\ DOMAIN word = Threads
      /\ u[t] \in V /\ curr \in SUBSET V /\ IsGraph(g)
  BY <1>1 DEF TypeOK
<1>3. word[t] \in SUBSET V
  BY <1>1 DEF TypeOK
<1>4. stage' = "bu"
  BY <1>1, OneThread
<1>5. /\ \A n \in curr : Away(n)
      /\ \A s \in Threads :
           /\ pc[s] \in {"readWord", "writeWord"} => \A n \in V : u[s] = n => Away(n)
           /\ pc[s] = "writeWord" => \A n \in word[s] : Away(n)
  BY DEF IInv, BitInv
<1>6. Claim(t) \/ Visit(t) \/ ReadWord(t) \/ SetBit(t)
  BY <1>1 DEF ThreadStep, ThreadInv, LeaveLoop, ReadParent, EndScan, CasParent, Push, Reserve,
              Copy, SetBitAtomic, Queueing
<1>7. Claim(t) => pc'[t] = "visit" /\ UNCHANGED curr
  BY <1>2 DEF Claim, Goto
<1>8. \A n \in V : Placed(n)' => Placed(n)
  <2>1. CASE Claim(t)
    BY <1>7, <2>1, TakingThread
  <2>2. CASE Visit(t) \/ ReadWord(t) \/ SetBit(t)
    BY <2>2, QuietThread
  <2>. QED BY <1>6, <2>1, <2>2
<1>9. \A n \in V : Away(n) => Away(n)'
  BY <1>1, <1>8, AwayKept
<1>10. \A n \in curr' : Away(n)'
  <2>1. CASE SetBit(t)
    <3>1. pc[t] = "writeWord" /\ curr' \subseteq curr \cup word[t] \cup {u[t]}
      BY <2>1 DEF SetBit
    <3>2. \A n \in curr \cup word[t] \cup {u[t]} : n \in V /\ Away(n)
      BY <1>2, <1>3, <1>5, <3>1
    <3>. QED BY <1>9, <3>1, <3>2
  <2>2. CASE ~SetBit(t)
    <3>1. curr' = curr
      BY <1>6, <1>7, <2>2 DEF Visit, ReadWord
    <3>. QED BY <1>2, <1>5, <1>9, <3>1
  <2>. QED BY <2>1, <2>2
<1>11. ASSUME NEW s \in Threads, s # t
       PROVE  /\ pc'[s] \in {"readWord", "writeWord"} => \A n \in V : u'[s] = n => Away(n)'
              /\ pc'[s] = "writeWord" => \A n \in word'[s] : Away(n)'
  <2>1. pc'[s] = pc[s] /\ u'[s] = u[s] /\ word'[s] = word[s]
    BY <1>1, <1>11, OneThread
  <2>2. word[s] \in SUBSET V
    BY <1>1 DEF TypeOK
  <2>3. pc'[s] \in {"readWord", "writeWord"} => \A n \in V : u'[s] = n => Away(n)'
    BY <1>5, <1>9, <2>1
  <2>4. pc'[s] = "writeWord" => \A n \in word'[s] : Away(n)'
    BY <1>5, <1>9, <2>1, <2>2
  <2>. QED BY <2>3, <2>4
<1>12. pc'[t] \in {"readWord", "writeWord"} => \A n \in V : u'[t] = n => Away(n)'
  <2>1. CASE Claim(t)
    BY <1>7, <2>1
  <2>2. CASE Visit(t)
    <3>. SUFFICES ASSUME pc'[t] \in {"readWord", "writeWord"}, NEW n \in V, u'[t] = n
                  PROVE  Away(n)'
      OBVIOUS
    <3>1. /\ parent[u[t]] < 0 /\ FrontNeighbours(u[t]) # {} /\ u' = u
          /\ parent' = [parent EXCEPT ![u[t]] = FirstInFront(u[t])]
      BY <1>2, <2>2 DEF Visit, NextInChunk, Goto
    <3>2. parent[n] < 0 /\ parent \in [V -> Int]
      BY <1>1, <3>1 DEF TypeOK
    <3>3. ~(parent[n] >= 0)
      BY <3>2
    <3>4. ~Placed(n)'
      BY <1>8, <3>3 DEF IInv, PlaceInv
    <3>5. FirstInFront(u[t]) >= 0
      BY <1>2, <3>1, FirstIsNeighbour, VFacts
    <3>6. parent'[n] >= 0
      BY <3>1, <3>2, <3>5
    <3>. QED BY <3>4, <3>6 DEF Away
  <2>3. CASE ReadWord(t)
    <3>1. pc[t] = "readWord" /\ u' = u
      BY <2>3 DEF ReadWord
    <3>. QED BY <1>5, <1>9, <3>1
  <2>4. CASE SetBit(t)
    BY <1>2, <2>4 DEF SetBit, NextInChunk, Goto
  <2>. QED BY <1>6, <2>1, <2>2, <2>3, <2>4
<1>13. pc'[t] = "writeWord" => \A n \in word'[t] : Away(n)'
  <2>1. CASE ReadWord(t)
    <3>1. word'[t] \subseteq curr
      BY <1>2, <2>1, stage = "bu" DEF ReadWord
    <3>. QED BY <1>2, <1>5, <1>9, <3>1
  <2>2. CASE Claim(t) \/ Visit(t) \/ SetBit(t)
    BY <1>2, <2>2 DEF Claim, Visit, SetBit, NextInChunk, Goto
  <2>. QED BY <1>6, <2>1, <2>2
<1>. QED BY <1>4, <1>10, <1>11, <1>12, <1>13 DEF BitInv

(* BitmapToQueue takes up a vertex only together with its iteration.       *)
LEMMA ToQueueBits ==
  ASSUME IInv, NEW t \in Threads, ThreadStep(t), stage = "bitmapToQueue"
  PROVE  BitInv'
<1>1. TypeOK /\ ThreadInv(t) /\ Next /\ todo \subseteq V /\ DOMAIN v = Threads
  BY DEF IInv, ShapeInv, Next, TypeOK, Iterations
<1>2. stage' = "bitmapToQueue"
  BY <1>1, OneThread
<1>3. \A n \in todo \cap front : Away(n)
  BY DEF IInv, BitInv
<1>4. Claim(t) \/ LeaveLoop(t) \/ Push(t) \/ Reserve(t) \/ Copy(t)
  BY <1>1 DEF ThreadStep, ThreadInv, ReadParent, EndScan, CasParent, Visit, ReadWord, SetBit,
              SetBitAtomic
<1>5. front' = front
  BY <1>4 DEF Claim, LeaveLoop, Push, Reserve, Copy
<1>6. ASSUME NEW n \in todo' \cap front PROVE Away(n)'
  <2>1. n \in todo /\ (Placed(n)' => Placed(n))
    <3>1. CASE Claim(t)
      <4>1. PICK i \in todo : todo' = todo \ {i} /\ (v' = [v EXCEPT ![t] = i] \/ pc' = pc)
        BY <3>1, stage = "bitmapToQueue" DEF Claim
      <4>2. n \in todo /\ n # i
        BY <1>6, <4>1
      <4>3. pc'[t] = "push" /\ v'[t] = n => FALSE
        <5>1. pc[t] = "idle"
          BY <3>1 DEF Claim
        <5>2. v' = [v EXCEPT ![t] = i] => v'[t] = i
          BY <1>1
        <5>. QED BY <4>1, <4>2, <5>1, <5>2
      <4>. QED BY <1>1, <3>1, <4>2, <4>3, TakingThread
    <3>2. CASE LeaveLoop(t) \/ Push(t) \/ Reserve(t) \/ Copy(t)
      <4>1. todo' = todo
        BY <3>2 DEF LeaveLoop, Push, Reserve, Copy
      <4>. QED BY <1>1, <1>6, <3>2, <4>1, QuietThread, PushThread, ReserveThread, CopyThread
    <3>. QED BY <1>4, <3>1, <3>2
  <2>. QED BY <1>1, <1>3, <1>6, <2>1, AwayKept
<1>. QED BY <1>2, <1>5, <1>6 DEF BitInv

LEMMA BitStep == IInv /\ Next => BitInv'
<1>. SUFFICES ASSUME IInv, Next PROVE BitInv'
  OBVIOUS
<1>1. CASE Terminated
  BY <1>1 DEF Terminated, vars, BitInv
<1>2. ASSUME NEW t \in Threads, ThreadStep(t), stage \notin {"bu", "bitmapToQueue"} PROVE BitInv'
  <2>1. stage' = stage
    BY <1>2, OneThread DEF IInv, ShapeInv
  <2>. QED BY <1>2, <2>1 DEF BitInv
<1>. QED BY <1>1, <1>2, ProgramBits, BottomUpBits, ToQueueBits DEF Next
-----------------------------------------------------------------------------
(* The invariant holds in every reachable state: a thread step or a step   *)
(* of the sequential program keeps each of its parts.                      *)
THEOREM Invariance == Spec => []IInv
<1>1. IInv /\ [Next]_vars => IInv'
  <2>. SUFFICES ASSUME IInv, [Next]_vars PROVE IInv'
    OBVIOUS
  <2>1. CASE Next
    BY <2>1, ShapeStep, PlaceStep, BitStep DEF IInv
  <2>2. CASE UNCHANGED vars
    <3>. USE <2>2 DEF vars, args, queue, counters
    <3>1. ShapeInv' <=> ShapeInv
      BY DEF ShapeInv, TypeOK, ThreadInv, Iterations, Window
    <3>2. QueueInBounds' <=> QueueInBounds
      BY DEF QueueInBounds
    <3>3. /\ \A i, n : InSlot(i, n)' <=> InSlot(i, n)
          /\ \A t, k, n : InBuf(t, k, n)' <=> InBuf(t, k, n)
          /\ \A t, n : InHand(t, n)' <=> InHand(t, n)
      BY DEF InSlot, InBuf, InHand, Copying
    <3>4. \A n : (AtOnePlace(n)' <=> AtOnePlace(n)) /\ (Placed(n)' <=> Placed(n))
      BY <3>3 DEF AtOnePlace, Placed
    <3>5. PlaceInv' <=> PlaceInv
      BY <3>3, <3>4 DEF PlaceInv
    <3>6. \A n : Away(n)' <=> Away(n)
      BY <3>4 DEF Away
    <3>7. BitInv' <=> BitInv
      BY <3>6 DEF BitInv
    <3>. QED BY <3>1, <3>2, <3>5, <3>7 DEF IInv
  <2>. QED BY <2>1, <2>2
<1>. QED BY <1>1, InitInv, PTL DEF Spec

(* The shared queue of DOBFS is allocated once, with num_nodes slots, and  *)
(* no push checks them: every vertex is put there at most once in the      *)
(* whole search, by the thread whose CAS reached it or by BitmapToQueue,   *)
(* so that no thread writes behind the allocation, whatever the graph, the *)
(* threads, the directions taken and the sizes of the buffers.             *)
THEOREM QueueNeverOverflows == Spec => []QueueInv
<1>1. IInv => QueueInv
  BY DEF IInv, ShapeInv, QueueInv
<1>. QED BY <1>1, Invariance, PTL
-----------------------------------------------------------------------------
(***************************************************************************)
(* The levels.  What the step underway has reached is fresh: in a slot     *)
(* behind the window, in a buffer or in the hands of a thread.             *)
(***************************************************************************)
Fresh(n) ==
  \/ \E i \in Nat : end <= i /\ InSlot(i, n)
  \/ \E t \in Threads : InHand(t, n) \/ \E k \in Nat : InBuf(t, k, n)

(* No slot was handed out to two threads.                                  *)
CopyApart ==
  \A i : \A s, t \in Threads : Copying(s, i) /\ Copying(t, i) => s = t

LEMMA FreshSame ==
  ASSUME end' = end, NEW n,
         \A i \in Nat : InSlot(i, n)' <=> InSlot(i, n),
         \A t \in Threads : \A k \in Nat : InBuf(t, k, n)' <=> InBuf(t, k, n),
         \A t \in Threads : InHand(t, n)' <=> InHand(t, n)
  PROVE  Fresh(n)' <=> Fresh(n)
BY DEF Fresh

(* The steps that move no vertex.                                          *)
LEMMA QuietFresh ==
  ASSUME IInv, NEW t \in Threads,
         \/ LeaveLoop(t) \/ ReadParent(t) \/ EndScan(t)
         \/ Visit(t) \/ ReadWord(t) \/ SetBit(t) \/ SetBitAtomic(t)
  PROVE  /\ \A n \in V : Fresh(n)' <=> Fresh(n)
         /\ CopyApart => CopyApart'
<1>1. TypeOK /\ ThreadInv(t) /\ ThreadStep(t)
  BY DEF IInv, ShapeInv, ThreadStep
<1>2. DOMAIN pc = Threads /\ DOMAIN v = Threads
  BY <1>1 DEF TypeOK
<1>3. UNCHANGED <<slots, in, pos, buf>> /\ pc[t] \notin {"copy", "push", "flush"}
  BY DEF LeaveLoop, ReadParent, EndScan, Visit, ReadWord, SetBit, SetBitAtomic, queue
<1>4. pc'[t] \in {"cas", "scan", "idle", "visit", "readWord", "writeWord", "flush"}
  BY <1>2 DEF LeaveLoop, ReadParent, EndScan, Visit, ReadWord, SetBit, SetBitAtomic, NextInChunk, Goto
<1>5. pc'[t] = "flush" => v'[t] = NoNode
  BY <1>1, <1>2 DEF LeaveLoop, ReadParent, EndScan, Visit, ReadWord, SetBit, SetBitAtomic,
                    NextInChunk, Goto, ThreadInv
<1>6. \A s \in Threads \ {t} : pc'[s] = pc[s] /\ v'[s] = v[s]
  BY <1>1, OneThread
<1>7. \A s \in Threads : pc'[s] = "copy" <=> pc[s] = "copy"
  BY <1>3, <1>4, <1>6
<1>8. \A n \in V : n # NoNode
  BY VFacts DEF NoNode
<1>9. \A n \in V : \A s \in Threads : InHand(s, n)' <=> InHand(s, n)
  BY <1>3, <1>4, <1>5, <1>6, <1>8 DEF InHand
<1>10. CopyApart => CopyApart'
  BY <1>3, <1>7 DEF CopyApart, Copying
<1>11. end' = end
  BY <1>1, OneThread
<1>. QED BY <1>3, <1>7, <1>9, <1>10, <1>11, SlotsSame, FreshSame

(* A vertex that a thread takes up becomes fresh.                          *)
LEMMA TakingFresh ==
  ASSUME IInv, NEW t \in Threads, Claim(t) \/ CasParent(t)
  PROVE  /\ \A n \in V : Fresh(n)' <=> Fresh(n) \/ (pc'[t] = "push" /\ v'[t] = n)
         /\ CopyApart => CopyApart'
<1>1. TypeOK /\ ThreadInv(t) /\ ThreadStep(t)
  BY DEF IInv, ShapeInv, ThreadStep
<1>2. DOMAIN pc = Threads /\ DOMAIN v = Threads
  BY <1>1 DEF TypeOK
<1>3. UNCHANGED <<slots, in, pos, buf, end>> /\ pc[t] \in {"idle", "cas"}
  BY DEF Claim, CasParent, queue
<1>4. pc'[t] \in {"idle", "scan", "readWord", "visit", "push"}
  BY <1>2, <1>3 DEF Claim, CasParent, Goto
<1>5. \A s \in Threads \ {t} : pc'[s] = pc[s] /\ v'[s] = v[s]
  BY <1>1, OneThread
<1>6. \A s \in Threads : pc'[s] = "copy" <=> pc[s] = "copy"
  BY <1>3, <1>4, <1>5
<1>7. CopyApart => CopyApart'
  BY <1>3, <1>6 DEF CopyApart, Copying
<1>8. \A n : /\ \A i : InSlot(i, n)' <=> InSlot(i, n)
             /\ \A s \in Threads : \A k : InBuf(s, k, n)' <=> InBuf(s, k, n)
  BY <1>3, <1>6, SlotsSame
<1>9. \A n : /\ \A s \in Threads \ {t} : InHand(s, n)' <=> InHand(s, n)
             /\ ~InHand(t, n) /\ (InHand(t, n)' <=> pc'[t] = "push" /\ v'[t] = n)
  BY <1>3, <1>4, <1>5 DEF InHand
<1>. QED BY <1>3, <1>7, <1>8, <1>9 DEF Fresh

LEMMA PushFresh ==
  ASSUME IInv, NEW t \in Threads, Push(t)
  PROVE  /\ \A n \in V : Fresh(n)' <=> Fresh(n)
         /\ CopyApart => CopyApart'
<1>1. TypeOK /\ ThreadInv(t) /\ ThreadStep(t)
  BY DEF IInv, ShapeInv, ThreadStep
<1>2. /\ DOMAIN pc = Threads /\ DOMAIN v = Threads /\ DOMAIN buf = Threads
      /\ pc[t] = "push" /\ v[t] \in V /\ buf[t] \in Seq(V)
  BY <1>1 DEF TypeOK, ThreadInv, Push
<1>3. UNCHANGED <<slots, in, pos, end>>
  BY DEF Push, queue
<1>4. \A s \in Threads \ {t} : pc'[s] = pc[s] /\ v'[s] = v[s] /\ buf'[s] = buf[s]
  BY <1>1, OneThread
<1>5. pc'[t] \in {"flush", "scan", "idle"}
  BY <1>2 DEF Push, AfterPush, Goto
<1>6. CopyApart => CopyApart'
  <2>1. \A s \in Threads : \A i : Copying(s, i)' <=> Copying(s, i)
    BY <1>2, <1>3, <1>4, <1>5 DEF Copying
  <2>. QED BY <2>1 DEF CopyApart
<1>7. \A i, n : InSlot(i, n)' <=> InSlot(i, n)
  BY PushThread
<1>8. CASE Len(buf[t]) = BufferSize
  <2>1. buf' = buf /\ v' = v /\ pc'[t] = "flush"
    BY <1>2, <1>8 DEF Push, Goto
  <2>2. \A n : \A s \in Threads : \A k \in Nat : InBuf(s, k, n)' <=> InBuf(s, k, n)
    BY <1>2, <1>4, <2>1 DEF InBuf
  <2>3. \A n : \A s \in Threads : InHand(s, n)' <=> InHand(s, n)
    BY <1>2, <1>4, <2>1 DEF InHand
  <2>. QED BY <1>3, <1>6, <1>7, <2>2, <2>3, FreshSame
<1>9. CASE Len(buf[t]) # BufferSize
  <2>1. buf'[t] = Append(buf[t], v[t]) /\ v'[t] = NoNode /\ pc'[t] \in {"scan", "idle"}
    BY <1>2, <1>9 DEF Push, AfterPush, Goto
  <2>. DEFINE b == buf'[t]
  <2>2. /\ Len(buf[t]) \in Nat /\ DOMAIN buf[t] = 1 .. Len(buf[t])
        /\ DOMAIN b = 1 .. Len(buf[t]) + 1 /\ b[Len(buf[t]) + 1] = v[t]
        /\ \A k \in 1 .. Len(buf[t]) : b[k] = buf[t][k]
    BY <1>2, <2>1, AppendProperties
  <2>3. \A n : \A k \in Nat : InBuf(t, k, n)' <=> InBuf(t, k, n) \/ (k = Len(buf[t]) + 1 /\ n = v[t])
    BY <1>2, <2>1, <2>2 DEF InBuf
  <2>4. \A n : \A s \in Threads \ {t} : \A k \in Nat : InBuf(s, k, n)' <=> InBuf(s, k, n)
    BY <1>4 DEF InBuf
  <2>5. \A n : /\ ~InHand(t, n)' /\ (InHand(t, n) <=> n = v[t])
               /\ \A s \in Threads \ {t} : InHand(s, n)' <=> InHand(s, n)
    BY <1>2, <1>4, <2>1 DEF InHand
  <2>6. PICK l \in Nat : l = Len(buf[t]) + 1
    BY <2>2
  <2>. HIDE DEF b
  <2>. SUFFICES ASSUME NEW n \in V PROVE Fresh(n)' <=> Fresh(n)
    BY <1>6
  <2>7. (\E i \in Nat : end <= i /\ InSlot(i, n))' <=> \E i \in Nat : end <= i /\ InSlot(i, n)
    BY <1>3, <1>7
  <2>8. CASE n = v[t]
    <3>1. InBuf(t, l, n)' /\ InHand(t, n)
      BY <2>3, <2>5, <2>6, <2>8
    <3>. QED BY <3>1 DEF Fresh
  <2>9. CASE n # v[t]
    <3>1. \A s \in Threads : \A k \in Nat : InBuf(s, k, n)' <=> InBuf(s, k, n)
      BY <2>3, <2>4, <2>9
    <3>2. \A s \in Threads : InHand(s, n)' <=> InHand(s, n)
      BY <2>5, <2>9
    <3>. QED BY <2>7, <3>1, <3>2 DEF Fresh
  <2>. QED BY <2>8, <2>9
<1>. QED BY <1>8, <1>9

LEMMA ReserveFresh ==
  ASSUME IInv, NEW t \in Threads, Reserve(t)
  PROVE  /\ \A n \in V : Fresh(n)' <=> Fresh(n)
         /\ CopyApart => CopyApart'
<1>1. TypeOK /\ ThreadInv(t) /\ ThreadStep(t) /\ end <= in
  BY DEF IInv, ShapeInv, ThreadStep
<1>2. end' = end /\ pc[t] = "flush" /\ pc' = [pc EXCEPT ![t] = "copy"] /\ end \in Nat
  BY <1>1 DEF Reserve, Goto, TypeOK
<1>3. /\ in \in Nat /\ in' \in Nat /\ in <= in' /\ in' = in + Len(buf[t]) /\ buf[t] \in Seq(V)
      /\ Len(buf[t]) \in Nat /\ DOMAIN buf[t] = 1 .. Len(buf[t])
  BY ReserveMoves
<1>4. \A i \in 0 .. in - 1 : \A n : InSlot(i, n)' <=> InSlot(i, n)
  BY ReserveMoves
<1>5. \A i \in in .. in' - 1 : \A n : InSlot(i, n)' <=> InBuf(t, i - in + 1, n)
  BY ReserveMoves
<1>6. \A i : \A n : InSlot(i, n)' => i \in 0 .. in - 1 \/ i \in in .. in' - 1
  BY ReserveMoves
<1>7. \A s \in Threads : \A k, n : InBuf(s, k, n)' <=> s # t /\ InBuf(s, k, n)
  BY ReserveMoves
<1>8. \A s \in Threads : \A n : InHand(s, n)' <=> InHand(s, n)
  BY ReserveMoves
<1>9. ASSUME NEW n \in V, Fresh(n) PROVE Fresh(n)'
  <2>1. CASE \E i \in Nat : end <= i /\ InSlot(i, n)
    <3>1. PICK i \in Nat : end <= i /\ InSlot(i, n)
      BY <2>1
    <3>2. i \in 0 .. in - 1
      BY <3>1 DEF InSlot
    <3>. QED BY <1>2, <1>4, <3>1, <3>2 DEF Fresh
  <2>2. CASE \E k \in Nat : InBuf(t, k, n)
    <3>1. PICK k \in Nat : InBuf(t, k, n)
      BY <2>2
    <3>2. k \in 1 .. Len(buf[t])
      BY <1>3, <3>1 DEF InBuf
    <3>3. PICK i \in Nat : i = in + k - 1 /\ i \in in .. in' - 1 /\ i - in + 1 = k /\ end <= i
      <4>1. in + k - 1 \in Nat
        BY <1>3, <3>2
      <4>. QED BY <1>1, <1>2, <1>3, <3>2, <4>1
    <3>4. InSlot(i, n)'
      BY <1>5, <3>1, <3>3
    <3>. QED BY <1>2, <3>3, <3>4 DEF Fresh
  <2>3. CASE \E s \in Threads \ {t} : \E k \in Nat : InBuf(s, k, n)
    BY <1>7, <2>3 DEF Fresh
  <2>4. CASE \E s \in Threads : InHand(s, n)
    BY <1>8, <2>4 DEF Fresh
  <2>. QED BY <1>9, <2>1, <2>2, <2>3, <2>4 DEF Fresh
<1>10. ASSUME NEW n \in V, Fresh(n)' PROVE Fresh(n)
  <2>1. CASE (\E i \in Nat : end <= i /\ InSlot(i, n))'
    <3>1. PICK i \in Nat : end <= i /\ InSlot(i, n)'
      BY <1>2, <2>1
    <3>2. CASE i \in 0 .. in - 1
      BY <1>4, <3>1, <3>2 DEF Fresh
    <3>3. CASE i \in in .. in' - 1
      <4>1. i - in + 1 \in Nat /\ InBuf(t, i - in + 1, n)
        BY <1>3, <1>5, <3>1, <3>3
      <4>. QED BY <4>1 DEF Fresh
    <3>. QED BY <1>6, <3>1, <3>2, <3>3
  <2>2. CASE (\E s \in Threads : InHand(s, n) \/ \E k \in Nat : InBuf(s, k, n))'
    BY <1>7, <1>8, <2>2 DEF Fresh
  <2>. QED BY <1>10, <2>1, <2>2 DEF Fresh
<1>11. ASSUME CopyApart PROVE CopyApart'
  <2>1. \A i : Copying(t, i)' => i \in Int /\ in <= i
    BY <1>1, <1>3 DEF Reserve, Copying, TypeOK
  <2>2. \A i : \A s \in Threads \ {t} : Copying(s, i)' <=> Copying(s, i)
    BY <1>1, OneThread DEF Copying
  <2>3. \A i : \A s \in Threads : Copying(s, i) => i \in Int /\ i < in
    <3>. SUFFICES ASSUME NEW s \in Threads, NEW i, Copying(s, i) PROVE i \in Int /\ i < in
      OBVIOUS
    <3>1. pos[s] \in Nat /\ buf[s] \in Seq(V) /\ pos[s] + Len(buf[s]) <= in
      BY <1>1 DEF IInv, ShapeInv, TypeOK, ThreadInv, Copying
    <3>2. Len(buf[s]) \in Nat
      BY <3>1
    <3>. QED BY <1>3, <3>1, <3>2 DEF Copying
  <2>4. \A i : \A s \in Threads \ {t} : ~(Copying(s, i)' /\ Copying(t, i)')
    <3>. SUFFICES ASSUME NEW i, NEW s \in Threads \ {t}, Copying(s, i)', Copying(t, i)' PROVE FALSE
      OBVIOUS
    <3>1. i \in Int /\ in <= i /\ i < in
      BY <2>1, <2>2, <2>3
    <3>. QED BY <1>3, <3>1
  <2>5. \A i : \A s, r \in Threads \ {t} : Copying(s, i)' /\ Copying(r, i)' => s = r
    BY <1>11, <2>2 DEF CopyApart
  <2>. QED BY <2>4, <2>5 DEF CopyApart
<1>. QED BY <1>9, <1>10, <1>11

LEMMA CopyFresh ==
  ASSUME IInv, CopyApart, NEW t \in Threads, Copy(t)
  PROVE  (\A n \in V : Fresh(n)' <=> Fresh(n)) /\ CopyApart'
<1>1. TypeOK /\ ThreadInv(t) /\ ThreadStep(t)
  BY DEF IInv, ShapeInv, ThreadStep
<1>2. /\ DOMAIN pc = Threads /\ DOMAIN buf = Threads
      /\ in \in Nat /\ in <= NumNodes /\ in' = in /\ v' = v /\ end' = end
      /\ pc[t] = "copy" /\ pc'[t] = (IF v[t] # NoNode THEN "push" ELSE "arrived")
      /\ buf'[t] = <<>>
  BY <1>1 DEF TypeOK, Copy, Goto, IInv, QueueInBounds
<1>3. \A s \in Threads \ {t} : /\ pc'[s] = pc[s] /\ pos'[s] = pos[s] /\ buf'[s] = buf[s]
                               /\ v'[s] = v[s]
  BY <1>1, OneThread
<1>4. \A i : ~Copying(t, i)' /\ \A s \in Threads \ {t} : Copying(s, i)' <=> Copying(s, i)
  BY <1>2, <1>3 DEF Copying
<1>5. \A i \in 0 .. in - 1 : slots'[i] = IF Copying(t, i) THEN buf[t][i - pos[t] + 1] ELSE slots[i]
  BY <1>2, NumNodesAssumption DEF Copy, Copying, V
<1>6. CopyApart'
  BY <1>4 DEF CopyApart
<1>7. ASSUME NEW i \in Nat, NEW n, InSlot(i, n) PROVE InSlot(i, n)'
  <2>1. i \in 0 .. in - 1 /\ i \in 0 .. in' - 1
    BY <1>2, <1>7 DEF InSlot
  <2>2. CASE Copying(t, i)
    <3>1. \A s \in Threads \ {t} : ~Copying(s, i)
      BY <2>2 DEF CopyApart
    <3>2. \A s \in Threads : ~Copying(s, i)'
      BY <1>4, <3>1
    <3>3. buf[t][i - pos[t] + 1] = n
      BY <1>7, <2>2, <3>1 DEF InSlot
    <3>. QED BY <1>5, <2>1, <2>2, <3>2, <3>3 DEF InSlot
  <2>3. CASE \E s \in Threads \ {t} : Copying(s, i) /\ buf[s][i - pos[s] + 1] = n
    BY <1>3, <1>4, <2>1, <2>3 DEF InSlot
  <2>4. CASE slots[i] = n /\ \A s \in Threads : ~Copying(s, i)
    <3>1. \A s \in Threads : ~Copying(s, i)'
      BY <1>4, <2>4
    <3>. QED BY <1>5, <2>1, <2>4, <3>1 DEF InSlot
  <2>. QED BY <1>7, <2>2, <2>3, <2>4 DEF InSlot
<1>8. ASSUME NEW i \in Nat, NEW n, InSlot(i, n)' PROVE InSlot(i, n)
  <2>1. i \in 0 .. in - 1
    BY <1>2, <1>8 DEF InSlot
  <2>2. CASE \E s \in Threads : Copying(s, i)' /\ buf'[s][i - pos'[s] + 1] = n
    <3>1. PICK s \in Threads \ {t} : Copying(s, i)' /\ buf'[s][i - pos'[s] + 1] = n
      BY <1>4, <2>2
    <3>2. Copying(s, i) /\ buf[s][i - pos[s] + 1] = n
      BY <1>3, <1>4, <3>1
    <3>. QED BY <2>1, <3>2 DEF InSlot
  <2>3. CASE slots'[i] = n /\ \A s \in Threads : ~Copying(s, i)'
    <3>1. CASE Copying(t, i)
      BY <1>5, <2>1, <2>3, <3>1 DEF InSlot
    <3>2. CASE ~Copying(t, i)
      <4>1. \A s \in Threads : ~Copying(s, i)
        BY <1>4, <2>3, <3>2
      <4>. QED BY <1>5, <2>1, <2>3, <3>2, <4>1 DEF InSlot
    <3>. QED BY <3>1, <3>2
  <2>. QED BY <1>8, <2>2, <2>3 DEF InSlot
<1>9. \A s \in Threads : \A k, n : InBuf(s, k, n)' <=> InBuf(s, k, n)
  <2>1. \A k, n : ~InBuf(t, k, n)' /\ ~InBuf(t, k, n)
    BY <1>2 DEF InBuf
  <2>2. \A s \in Threads \ {t} : \A k, n : InBuf(s, k, n)' <=> InBuf(s, k, n)
    BY <1>3 DEF InBuf
  <2>. QED BY <2>1, <2>2
<1>10. \A n \in V : \A s \in Threads : InHand(s, n)' <=> InHand(s, n)
  <2>1. \A n \in V : n # NoNode
    BY VFacts DEF NoNode
  <2>. QED BY <1>2, <1>3, <2>1 DEF InHand
<1>. QED BY <1>2, <1>6, <1>7, <1>8, <1>9, <1>10, FreshSame
-----------------------------------------------------------------------------
(***************************************************************************)
(* The vertices k edges away, and those up to k edges away.                *)
(***************************************************************************)
Hops == Depth(g, source)
Level(k) == {n \in V : Hops[n] = k /\ k # Unreachable}
UpTo(k) == {n \in V : Hops[n] <= k /\ Hops[n] # Unreachable}

LEMMA LevelFacts ==
  ASSUME IsGraph(g), source \in V, NEW k \in Nat
  PROVE  /\ Level(k) \subseteq UpTo(k) /\ UpTo(k) \subseteq V
         /\ UpTo(k + 1) = UpTo(k) \cup Level(k + 1) /\ UpTo(k) \cap Level(k + 1) = {}
         /\ \A p \in UpTo(k) : Elems(g.out[p]) \subseteq UpTo(k + 1)
         /\ \A p \in UpTo(k) \ Level(k) : Elems(g.out[p]) \subseteq UpTo(k)
         /\ \A n \in Level(k + 1) : \E p \in Level(k) : n \in Elems(g.out[p])
         /\ source \in UpTo(k)
<1>. DEFINE d == Hops
<1>1. d = Depth(g, source)
  BY DEF Hops
<1>. HIDE DEF d
<1>2. \A j : Level(j) = LevelOf(d, j) /\ UpTo(j) = UpToOf(d, j)
  BY DEF Level, UpTo, LevelOf, UpToOf, d
<1>. QED BY <1>1, <1>2, LevelsOf

LEMMA FirstLevel ==
  ASSUME IsGraph(g), source \in V
  PROVE  Level(0) = {source} /\ UpTo(0) = {source}
<1>. DEFINE d == Hops
<1>1. d = Depth(g, source)
  BY DEF Hops
<1>. HIDE DEF d
<1>2. \A j : Level(j) = LevelOf(d, j) /\ UpTo(j) = UpToOf(d, j)
  BY DEF Level, UpTo, LevelOf, UpToOf, d
<1>. QED BY <1>1, <1>2, FirstLevelOf

(* Behind an empty level there is nothing.                                 *)
LEMMA LastLevel ==
  ASSUME IsGraph(g), source \in V, NEW k \in Nat, Level(k) = {}
  PROVE  UpTo(k) = Ball(g, source)[NumNodes]
<1>. DEFINE d == Hops
<1>1. d = Depth(g, source)
  BY DEF Hops
<1>. HIDE DEF d
<1>2. \A j : Level(j) = LevelOf(d, j) /\ UpTo(j) = UpToOf(d, j)
  BY DEF Level, UpTo, LevelOf, UpToOf, d
<1>. QED BY <1>1, <1>2, LastLevelOf

(* A level farther than the last is the last.                              *)
LEMMA LevelBound ==
  ASSUME IsGraph(g), source \in V, NEW k \in Nat
  PROVE  \E j \in 0 .. NumNodes : Level(j) = Level(k) /\ UpTo(j) = UpTo(k)
<1>. DEFINE d == Hops
<1>1. d = Depth(g, source)
  BY DEF Hops
<1>. HIDE DEF d
<1>2. \A j : Level(j) = LevelOf(d, j) /\ UpTo(j) = UpToOf(d, j)
  BY DEF Level, UpTo, LevelOf, UpToOf, d
<1>. QED BY <1>1, <1>2, LevelBoundOf
-----------------------------------------------------------------------------
(***************************************************************************)
(* The invariant of each stage, when the last complete level is k.         *)
(***************************************************************************)
(* What the step underway has reached so far.                              *)
Reached(k) == Visited \cap Level(k + 1)
Between(k) == UpTo(k) \subseteq Visited /\ Visited \subseteq UpTo(k + 1)

(* Top-down: a thread expands a vertex of the level, and an edge out of    *)
(* the level leads to a visited vertex or is still to be looked at.        *)
Scanning(t) == pc[t] \in {"scan", "cas"} \/ v[t] # NoNode
HeldInv(t, k) ==
  Scanning(t) =>
    /\ u[t] \in Level(k) /\ Elems(nbrs[t]) \subseteq Elems(g.out[u[t]])
    /\ v[t] # NoNode => v[t] \in Elems(g.out[u[t]])
    /\ pc[t] = "cas" => parent[v[t]] = cv[t] \/ v[t] \in Visited
Looking(t, p, n) ==
  /\ Scanning(t) /\ u[t] = p
  /\ n \in Elems(nbrs[t]) \/ (pc[t] = "cas" /\ v[t] = n)
Owed(p, n) == (\E i \in todo : slots[i] = p) \/ \E t \in Threads : Looking(t, p, n)
Degrees == [n \in V |-> ScoutOf(n)]

TopDownInv(k) ==
  /\ Frontier = Level(k) /\ Between(k)
  /\ \A n \in V : Fresh(n) <=> n \in Reached(k)
  /\ \A t \in Threads : HeldInv(t, k)
  /\ \A p \in Level(k) : \A n \in Elems(g.out[p]) : n \in Visited \/ Owed(p, n)
  /\ scout = Total(Degrees, Reached(k))

(* The level is copied into front.                                         *)
MarkInv(k) ==
  /\ Frontier = Level(k) /\ Visited = UpTo(k)
  /\ \A t \in Threads : pc[t] # "idle" => u[t] \in Level(k)
  /\ \A p \in Level(k) : \/ p \in front \/ \E i \in todo : slots[i] = p
                         \/ \E t \in Threads : pc[t] # "idle" /\ u[t] = p

(* Bottom-up: the words of a chunk are written by one thread, which has    *)
(* the vertices from its own on still to visit.                            *)
ChunkOf(n) == n \div Chunk
Setting(t) == pc[t] \in {"readWord", "writeWord"}
ChunksApart ==
  \A t \in Threads : pc[t] # "idle" =>
    /\ ChunkOf(u[t]) \notin todo
    /\ \A s \in Threads : pc[s] # "idle" /\ ChunkOf(u[s]) = ChunkOf(u[t]) => s = t
(* Each vertex reached is in the next bitmap, or its bit about to be set.  *)
Bits(k) ==
  /\ curr \subseteq Reached(k)
  /\ \A n \in Reached(k) : n \in curr \/ \E t \in Threads : Setting(t) /\ u[t] = n
  /\ \A t \in Threads : Setting(t) => u[t] \in Reached(k)
  /\ \A t \in Threads : pc[t] = "writeWord" => word[t] = WordOf(u[t]) \cap curr
(* A vertex is in a chunk that is left, or ahead of the thread in it.      *)
ToVisit(n) ==
  \/ ChunkOf(n) \in todo
  \/ \E t \in Threads : pc[t] # "idle" /\ ChunkOf(u[t]) = ChunkOf(n) /\ u[t] <= n
BottomUpInv(k) ==
  /\ Level(k) \subseteq front /\ Between(k) /\ ChunksApart /\ Bits(k)
  /\ \A n \in Level(k + 1) : n \in Visited \/ ToVisit(n)
  /\ awake = Cardinality(Reached(k))

(* The level is copied from front into the queue.                          *)
GatherInv(k) ==
  /\ front = Level(k) /\ Visited = UpTo(k)
  /\ \A n \in V : Fresh(n) <=> n \in Level(k) \ todo

LevelInv(k) ==
  /\ front \subseteq UpTo(k)
  /\ \A n \in V : n \in Visited \/ parent[n] = InitParent[n]
  /\ stage \notin Queueing => end = in
  /\ stage = "decide" => Frontier = Level(k) /\ Visited = UpTo(k)
  /\ stage = "td" => TopDownInv(k)
  /\ stage = "queueToBitmap" => MarkInv(k)
  /\ stage = "bu" => BottomUpInv(k)
  /\ stage = "bitmapToQueue" => GatherInv(k)

LevelsInv == CopyApart /\ (stage # "done" => \E k \in Nat : LevelInv(k))
-----------------------------------------------------------------------------
LEMMA GraphType ==
  ASSUME IInv
  PROVE  /\ IsGraph(g) /\ source \in V /\ TypeOK /\ parent \in [V -> Int]
         /\ \A n \in V : OutDegree(g, n) \in Nat
         /\ Degrees \in [V -> Nat] /\ InitParent \in [V -> Int]
         /\ \A n \in V : Degrees[n] = -InitParent[n] /\ InitParent[n] < 0
<1>1. IsGraph(g) /\ source \in V /\ TypeOK /\ parent \in [V -> Int]
  BY DEF IInv, ShapeInv, TypeOK
<1>2. \A n \in V : OutDegree(g, n) \in Nat
  BY <1>1 DEF OutDegree, IsGraph
<1>3. \A n \in V : Degrees[n] = -InitParent[n] /\ InitParent[n] < 0
  BY <1>2 DEF Degrees, ScoutOf, InitParent
<1>4. Degrees \in [V -> Nat] /\ InitParent \in [V -> Int]
  BY <1>2 DEF Degrees, ScoutOf, InitParent
<1>. QED BY <1>1, <1>2, <1>3, <1>4

LEMMA SameGraph ==
  ASSUME UNCHANGED args
  PROVE  /\ \A k : Level(k)' = Level(k) /\ UpTo(k)' = UpTo(k)
         /\ g' = g /\ source' = source /\ Degrees' = Degrees /\ InitParent' = InitParent
BY DEF args, Level, UpTo, Hops, Degrees, ScoutOf, InitParent

(* A thread writes no slot before the end of the window.                   *)
LEMMA WindowKept ==
  ASSUME IInv, NEW t \in Threads, ThreadStep(t)
  PROVE  (\A i \in 0 .. end - 1 : slots'[i] = slots[i]) /\ Frontier' = Frontier /\ Window' = Window
<1>1. TypeOK /\ ThreadInv(t) /\ end \in Nat /\ start \in Nat /\ end <= in /\ in <= NumNodes /\ in \in Nat
  BY DEF IInv, ShapeInv, TypeOK, QueueInBounds
<1>2. UNCHANGED <<start, end>>
  BY <1>1, OneThread
<1>3. \A i \in 0 .. end - 1 : slots'[i] = slots[i]
  <2>1. CASE Copy(t)
    <3>. SUFFICES ASSUME NEW i \in 0 .. end - 1 PROVE slots'[i] = slots[i]
      OBVIOUS
    <3>1. end <= pos[t] /\ pos[t] \in Nat
      BY <1>1, <2>1 DEF Copy, ThreadInv, TypeOK
    <3>2. i \in V /\ i \notin pos[t] .. pos[t] + Len(buf[t]) - 1
      BY <1>1, <3>1, NumNodesAssumption DEF V
    <3>. QED BY <2>1, <3>2 DEF Copy
  <2>2. CASE ~Copy(t)
    <3>1. slots' = slots
      BY <2>2 DEF ThreadStep, Claim, LeaveLoop, ReadParent, EndScan, CasParent, Push, Reserve,
                  Visit, ReadWord, SetBit, SetBitAtomic, queue
    <3>. QED BY <3>1
  <2>. QED BY <2>1, <2>2
<1>4. Window' = Window /\ \A i \in Window : i \in 0 .. end - 1
  BY <1>1, <1>2 DEF Window
<1>5. Frontier' = {slots'[i] : i \in Window} /\ \A i \in Window : slots'[i] = slots[i]
  BY <1>3, <1>4 DEF Frontier
<1>6. {slots'[i] : i \in Window} = {slots[i] : i \in Window}
  BY <1>5
<1>. QED BY <1>3, <1>4, <1>5, <1>6 DEF Frontier

(* The range of OutNeigh is the whole list.                                *)
LEMMA AllNeighbours ==
  ASSUME IsGraph(g), NEW n \in V
  PROVE  Elems(OutNeigh(g, n, 0)) = Elems(g.out[n])
<1>1. g.out[n] \in Seq(V)
  BY DEF IsGraph
<1>2. OutNeigh(g, n, 0) = g.out[n]
  BY <1>1 DEF OutNeigh, Neighborhood
<1>. QED BY <1>2
(* Before a region nothing is fresh.                                       *)
LEMMA NothingFresh ==
  ASSUME IInv, end = in, \A t \in Threads : pc[t] = "idle" /\ buf[t] = <<>>
  PROVE  \A n : ~Fresh(n)
<1>1. end \in Nat
  BY DEF IInv, ShapeInv, TypeOK
<1>2. \A i \in Nat : \A n : ~(end <= i /\ InSlot(i, n))
  BY <1>1 DEF InSlot
<1>3. \A t \in Threads : \A n : ~InHand(t, n) /\ \A k \in Nat : ~InBuf(t, k, n)
  BY DEF InHand, InBuf
<1>. QED BY <1>2, <1>3 DEF Fresh

(* After a region all that is fresh is in the slots behind the window.     *)
LEMMA AllFresh ==
  ASSUME IInv, stage \in Queueing, \A t \in Threads : pc[t] = "arrived"
  PROVE  {slots[i] : i \in end .. in - 1} = {n \in V : Fresh(n)}
<1>1. end \in Nat /\ in \in Nat
  BY DEF IInv, ShapeInv, TypeOK
<1>2. \A t \in Threads : buf[t] = <<>>
  BY DEF IInv, ShapeInv, ThreadInv
<1>3. \A i, n : InSlot(i, n) <=> i \in 0 .. in - 1 /\ slots[i] = n
  BY DEF InSlot, Copying
<1>4. \A n : Fresh(n) <=> \E i \in Nat : end <= i /\ InSlot(i, n)
  BY <1>2 DEF Fresh, InHand, InBuf
<1>5. \A i \in end .. in - 1 : i \in Nat /\ i \in 0 .. in - 1 /\ end <= i
  BY <1>1
<1>6. \A i \in end .. in - 1 : slots[i] \in V /\ Fresh(slots[i])
  <2>. SUFFICES ASSUME NEW i \in end .. in - 1 PROVE slots[i] \in V /\ Fresh(slots[i])
    OBVIOUS
  <2>1. PICK n \in V : InSlot(i, n)
    BY <1>5 DEF IInv, PlaceInv
  <2>. QED BY <1>3, <1>4, <1>5, <2>1
<1>7. ASSUME NEW n \in V, Fresh(n) PROVE \E i \in end .. in - 1 : slots[i] = n
  <2>1. PICK i \in Nat : end <= i /\ i \in 0 .. in - 1 /\ slots[i] = n
    BY <1>3, <1>4, <1>7
  <2>2. i \in end .. in - 1
    BY <1>1, <2>1
  <2>. QED BY <2>1, <2>2
<1>. QED BY <1>6, <1>7

LEMMA InitLevel == Init => LevelsInv
<1>. SUFFICES ASSUME Init PROVE LevelsInv
  OBVIOUS
<1>1. IInv
  BY InitInv
<1>2. IsGraph(g) /\ source \in V /\ InitParent \in [V -> Int] /\ \A n \in V : InitParent[n] < 0
  BY <1>1, GraphType
<1>3. \A t \in Threads : pc[t] = "idle"
  BY DEF Init
<1>4. Level(0) = {source} /\ UpTo(0) = {source}
  BY <1>2, FirstLevel
<1>5. Frontier = {source}
  <2>1. start = 0 /\ end = 1 /\ 0 \in V /\ slots[0] = source
    BY VFacts DEF Init
  <2>2. Window = {0}
    BY <2>1 DEF Window
  <2>. QED BY <2>1, <2>2 DEF Frontier
<1>6. source \in Nat
  BY <1>2, VFacts
<1>7. Visited = {source} /\ \A n \in V : n \in Visited \/ parent[n] = InitParent[n]
  <2>1. parent = [InitParent EXCEPT ![source] = source]
    BY DEF Init
  <2>2. parent[source] = source /\ \A n \in V \ {source} : parent[n] = InitParent[n]
    BY <1>2, <2>1
  <2>3. \A n \in V : parent[n] >= 0 <=> n = source
    BY <1>2, <1>6, <2>2
  <2>. QED BY <1>2, <2>2, <2>3 DEF Visited
<1>8. CopyApart
  BY <1>3 DEF CopyApart, Copying
<1>9. front = {} /\ stage = "decide" /\ end = in
  BY DEF Init
<1>10. LevelInv(0)
  BY <1>4, <1>5, <1>7, <1>9 DEF LevelInv
<1>11. 0 \in Nat
  OBVIOUS
<1>. QED BY <1>8, <1>10, <1>11 DEF LevelsInv
-----------------------------------------------------------------------------
(* Top-down.                                                               *)
LEMMA TopDownSteps ==
  ASSUME IInv, stage = "td", NEW t \in Threads, ThreadStep(t)
  PROVE  /\ \/ Claim(t) \/ LeaveLoop(t) \/ ReadParent(t) \/ EndScan(t)
            \/ CasParent(t) \/ Push(t) \/ Reserve(t) \/ Copy(t)
         /\ front' = front
BY DEF IInv, ShapeInv, ThreadInv, ThreadStep, Visit, ReadWord, SetBit, SetBitAtomic,
       Claim, LeaveLoop, ReadParent, EndScan, CasParent, Push, Reserve, Copy

(* The CAS that succeeds visits a vertex of the next level.                *)
Wins(t) == CasParent(t) /\ parent[v[t]] = cv[t]

LEMMA WinsVertex ==
  ASSUME IInv, NEW k \in Nat, LevelInv(k), stage = "td", NEW t \in Threads, Wins(t)
  PROVE  /\ v[t] \in Level(k + 1) \ Visited /\ v[t] \in V
         /\ parent' = [parent EXCEPT ![v[t]] = u[t]] /\ u[t] \in Level(k) /\ u[t] \in V
         /\ v[t] \in Elems(g.out[u[t]])
         /\ Visited' = Visited \cup {v[t]}
         /\ scout' = scout + Degrees[v[t]]
         /\ pc'[t] = "push" /\ v' = v
<1>1. /\ IsGraph(g) /\ source \in V /\ TypeOK /\ parent \in [V -> Int] /\ InitParent \in [V -> Int]
      /\ \A n \in V : Degrees[n] = -InitParent[n]
  BY GraphType
<1>2. ThreadInv(t) /\ TopDownInv(k) /\ pc[t] = "cas"
  BY DEF IInv, ShapeInv, LevelInv, Wins, CasParent
<1>3. v[t] \in V /\ cv[t] < 0 /\ parent[v[t]] = cv[t]
  BY <1>2 DEF ThreadInv, Wins
<1>4. v[t] \notin Visited
  BY <1>1, <1>3 DEF Visited
<1>5. HeldInv(t, k) /\ Between(k)
  BY <1>2 DEF TopDownInv
<1>6. u[t] \in Level(k) /\ v[t] \in Elems(g.out[u[t]])
  <2>1. Scanning(t) /\ v[t] # NoNode
    BY <1>2, <1>3, VFacts DEF Scanning, NoNode
  <2>. QED BY <1>5, <2>1 DEF HeldInv
<1>7. u[t] \in V /\ v[t] \in Level(k + 1)
  <2>1. u[t] \in UpTo(k) /\ UpTo(k) \subseteq V
    BY <1>1, <1>6, LevelFacts
  <2>2. v[t] \in UpTo(k + 1) /\ v[t] \notin UpTo(k)
    BY <1>1, <1>4, <1>5, <1>6, <2>1, LevelFacts DEF Between
  <2>. QED BY <1>1, <2>1, <2>2, LevelFacts
<1>8. /\ parent' = [parent EXCEPT ![v[t]] = u[t]] /\ scout' = scout + (-cv[t])
      /\ pc'[t] = "push" /\ v' = v
  BY <1>1, <1>3 DEF Wins, CasParent, Goto, TypeOK
<1>9. Visited' = Visited \cup {v[t]}
  <2>1. \A n \in V : parent'[n] = IF n = v[t] THEN u[t] ELSE parent[n]
    BY <1>1, <1>3, <1>8
  <2>2. u[t] \in Nat
    BY <1>7, VFacts
  <2>3. \A n \in V : parent'[n] >= 0 <=> n = v[t] \/ parent[n] >= 0
    BY <2>1, <2>2
  <2>. QED BY <1>3, <2>3 DEF Visited
<1>10. scout' = scout + Degrees[v[t]]
  <2>1. parent[v[t]] = InitParent[v[t]]
    BY <1>3, <1>4 DEF LevelInv
  <2>. QED BY <1>1, <1>3, <1>8, <2>1
<1>. QED BY <1>3, <1>4, <1>6, <1>7, <1>8, <1>9, <1>10

(* Every other step leaves the parents alone.                              *)
LEMMA LosesNothing ==
  ASSUME IInv, stage = "td", NEW t \in Threads, ThreadStep(t), ~Wins(t)
  PROVE  parent' = parent /\ Visited' = Visited /\ scout' = scout
<1>1. parent' = parent /\ scout' = scout
  <2>1. CASE CasParent(t)
    BY <2>1 DEF Wins, CasParent
  <2>2. CASE ~CasParent(t)
    BY <2>2, TopDownSteps DEF Claim, LeaveLoop, ReadParent, EndScan, Push, Reserve, Copy, counters
  <2>. QED BY <2>1, <2>2
<1>. QED BY <1>1 DEF Visited

(* Only what enters the next level becomes visited.                        *)
LEMMA TopDownVisits ==
  ASSUME IInv, NEW k \in Nat, LevelInv(k), stage = "td", NEW t \in Threads, ThreadStep(t)
  PROVE  /\ Visited \subseteq Visited' /\ Between(k)'
         /\ \A n \in V : parent'[n] = parent[n] \/ n \in Visited'
<1>0. IsGraph(g) /\ source \in V /\ TypeOK /\ parent \in [V -> Int]
  BY GraphType
<1>1. Between(k) /\ UpTo(k)' = UpTo(k) /\ UpTo(k + 1)' = UpTo(k + 1)
  <2>1. UNCHANGED args
    BY <1>0, OneThread
  <2>. QED BY <2>1, SameGraph DEF LevelInv, TopDownInv
<1>2. CASE Wins(t)
  <2>1. /\ v[t] \in Level(k + 1) /\ v[t] \in V
        /\ parent' = [parent EXCEPT ![v[t]] = u[t]] /\ Visited' = Visited \cup {v[t]}
    BY <1>2, WinsVertex
  <2>2. v[t] \in UpTo(k + 1)
    BY <1>0, <2>1, LevelFacts
  <2>3. \A n \in V : parent'[n] = parent[n] \/ n \in Visited'
    BY <1>0, <2>1
  <2>. QED BY <1>1, <2>1, <2>2, <2>3 DEF Between
<1>3. CASE ~Wins(t)
  BY <1>1, <1>3, LosesNothing DEF Between
<1>. QED BY <1>2, <1>3

(* A thread holds what it needs to expand a vertex of the level.           *)
LEMMA HeldMoving ==
  ASSUME IInv, NEW k \in Nat, LevelInv(k), stage = "td", NEW t \in Threads, ThreadStep(t)
  PROVE  HeldInv(t, k)'
<1>0. IsGraph(g) /\ source \in V /\ TypeOK /\ ThreadInv(t)
  BY GraphType DEF IInv, ShapeInv
<1>1. /\ DOMAIN pc = Threads /\ DOMAIN u = Threads /\ DOMAIN v = Threads /\ DOMAIN cv = Threads
      /\ DOMAIN nbrs = Threads /\ nbrs[t] \in Seq(V) /\ v[t] \in Node
  BY <1>0 DEF TypeOK
<1>2. Level(k)' = Level(k) /\ g' = g
  BY <1>0, OneThread, SameGraph
<1>3. HeldInv(t, k) /\ Frontier = Level(k) /\ Level(k) \subseteq V
  BY <1>0, LevelFacts DEF LevelInv, TopDownInv
<1>4. \A n \in V : n # NoNode
  BY VFacts DEF NoNode
<1>5. CASE Claim(t)
  <2>1. PICK i \in todo : /\ u' = [u EXCEPT ![t] = slots[i]]
                          /\ nbrs' = [nbrs EXCEPT ![t] = OutNeigh(g, slots[i], 0)]
                          /\ pc' = [pc EXCEPT ![t] = "scan"] /\ v' = v
    BY <1>5 DEF Claim, Goto
  <2>2. slots[i] \in Level(k)
    <3>1. i \in Window
      BY DEF IInv, ShapeInv, Iterations
    <3>. QED BY <1>3, <3>1 DEF Frontier
  <2>3. Elems(OutNeigh(g, slots[i], 0)) = Elems(g.out[slots[i]])
    BY <1>0, <1>3, <2>2, AllNeighbours
  <2>4. v[t] = NoNode
    BY <1>0, <1>5 DEF Claim, ThreadInv
  <2>5. u'[t] = slots[i] /\ nbrs'[t] = OutNeigh(g, slots[i], 0) /\ pc'[t] = "scan" /\ v'[t] = NoNode
    BY <1>1, <2>1, <2>4
  <2>. QED BY <1>2, <2>2, <2>3, <2>5 DEF HeldInv
<1>6. CASE LeaveLoop(t) \/ EndScan(t)
  <2>1. v'[t] = NoNode /\ pc'[t] \in {"flush", "idle"}
    BY <1>0, <1>1, <1>6 DEF LeaveLoop, EndScan, ThreadInv, Goto
  <2>. QED BY <2>1 DEF HeldInv, Scanning
<1>7. CASE ReadParent(t)
  <2>1. pc[t] = "scan" /\ nbrs[t] # <<>> /\ Scanning(t) /\ v[t] = NoNode
    BY <1>0, <1>7 DEF ReadParent, Scanning, ThreadInv
  <2>2. u[t] \in Level(k) /\ Elems(nbrs[t]) \subseteq Elems(g.out[u[t]])
    BY <1>3, <2>1 DEF HeldInv
  <2>3. /\ Head(nbrs[t]) \in V /\ Head(nbrs[t]) \in Elems(nbrs[t])
        /\ Elems(Tail(nbrs[t])) \subseteq Elems(nbrs[t])
    BY <1>1, <2>1, ElemsHeadTail
  <2>4. nbrs'[t] = Tail(nbrs[t]) /\ u' = u /\ parent' = parent
    BY <1>1, <1>7 DEF ReadParent
  <2>5. CASE parent[Head(nbrs[t])] < 0
    <3>1. v'[t] = Head(nbrs[t]) /\ cv'[t] = parent[Head(nbrs[t])]
      BY <1>1, <1>7, <2>5 DEF ReadParent
    <3>. QED BY <1>2, <2>2, <2>3, <2>4, <3>1 DEF HeldInv
  <2>6. CASE ~(parent[Head(nbrs[t])] < 0)
    <3>1. v'[t] = NoNode /\ pc'[t] = "scan"
      BY <1>7, <2>1, <2>6 DEF ReadParent
    <3>. QED BY <1>2, <2>2, <2>3, <2>4, <3>1 DEF HeldInv
  <2>. QED BY <2>5, <2>6
<1>8. CASE CasParent(t)
  <2>1. Scanning(t) /\ v[t] # NoNode
    BY <1>0, <1>4, <1>8 DEF CasParent, Scanning, ThreadInv
  <2>2. pc'[t] \in {"push", "scan"} /\ u' = u /\ nbrs' = nbrs /\ v'[t] \in {v[t], NoNode}
    BY <1>1, <1>8 DEF CasParent, Goto
  <2>. QED BY <1>2, <1>3, <2>1, <2>2 DEF HeldInv
<1>9. CASE Push(t) \/ Reserve(t) \/ Copy(t)
  <2>1. pc'[t] # "cas" /\ u' = u /\ nbrs' = nbrs /\ v'[t] \in {v[t], NoNode}
    BY <1>1, <1>9 DEF Push, Reserve, Copy, AfterPush, Goto
  <2>2. Scanning(t)' => Scanning(t)
    <3>1. CASE Push(t)
      BY <1>0, <1>4, <3>1 DEF Push, Scanning, ThreadInv
    <3>2. CASE Reserve(t) \/ Copy(t)
      BY <1>1, <3>2 DEF Reserve, Copy, Scanning, Goto
    <3>. QED BY <1>9, <3>1, <3>2
  <2>. QED BY <1>2, <1>3, <2>1, <2>2 DEF HeldInv
<1>. QED BY <1>5, <1>6, <1>7, <1>8, <1>9, TopDownSteps

LEMMA HeldOther ==
  ASSUME IInv, NEW k \in Nat, LevelInv(k), stage = "td", NEW t \in Threads, ThreadStep(t),
         NEW s \in Threads \ {t}
  PROVE  HeldInv(s, k)'
<1>0. IsGraph(g) /\ source \in V /\ TypeOK /\ ThreadInv(s)
  BY GraphType DEF IInv, ShapeInv
<1>1. HeldInv(s, k)
  BY DEF LevelInv, TopDownInv
<1>2. Level(k)' = Level(k) /\ g' = g
  BY <1>0, OneThread, SameGraph
<1>3. pc'[s] = pc[s] /\ u'[s] = u[s] /\ v'[s] = v[s] /\ cv'[s] = cv[s] /\ nbrs'[s] = nbrs[s]
  BY <1>0, OneThread
<1>4. pc[s] = "cas" => v[s] \in V
  BY <1>0 DEF ThreadInv
<1>5. pc[s] = "cas" => parent'[v[s]] = parent[v[s]] \/ v[s] \in Visited'
  BY <1>4, TopDownVisits
<1>6. Visited \subseteq Visited'
  BY TopDownVisits
<1>. QED BY <1>1, <1>2, <1>3, <1>5, <1>6 DEF HeldInv, Scanning

(* An edge out of the level to an unvisited vertex is looked at still.     *)
LEMMA OwedStays ==
  ASSUME IInv, NEW k \in Nat, LevelInv(k), stage = "td", NEW t \in Threads, ThreadStep(t),
         NEW p \in Level(k), NEW n \in Elems(g.out[p]), n \notin Visited', Owed(p, n)
  PROVE  Owed(p, n)'
<1>0. IsGraph(g) /\ source \in V /\ TypeOK /\ ThreadInv(t)
  BY GraphType DEF IInv, ShapeInv
<1>1. /\ DOMAIN pc = Threads /\ DOMAIN u = Threads /\ DOMAIN v = Threads /\ DOMAIN cv = Threads
      /\ DOMAIN nbrs = Threads /\ nbrs[t] \in Seq(V) /\ v[t] \in Node
      /\ parent \in [V -> Int]
  BY <1>0 DEF TypeOK
<1>2. p \in V /\ n \in V /\ n \notin Visited /\ n # NoNode
  <2>1. p \in V
    BY <1>0, LevelFacts
  <2>2. n \in V
    BY <1>0, <2>1, OutEdges
  <2>. QED BY <2>1, <2>2, TopDownVisits, VFacts DEF NoNode
<1>3. parent[n] < 0
  BY <1>1, <1>2 DEF Visited
<1>4. \A s \in Threads \ {t} : Looking(s, p, n)' <=> Looking(s, p, n)
  BY <1>0, OneThread DEF Looking, Scanning
<1>5. \A i \in todo : slots'[i] = slots[i]
  <2>1. \A i \in todo : i \in 0 .. end - 1
    BY <1>0 DEF IInv, ShapeInv, Iterations, Window, TypeOK
  <2>. QED BY <2>1, WindowKept
<1>6. ASSUME ~Claim(t) PROVE todo' = todo
  BY <1>6, TopDownSteps DEF LeaveLoop, ReadParent, EndScan, CasParent, Push, Reserve, Copy
<1>7. SUFFICES ASSUME ~Claim(t) => Looking(t, p, n) PROVE Owed(p, n)'
  <2>1. CASE ~Claim(t) /\ \E i \in todo : slots[i] = p
    BY <1>5, <1>6, <2>1 DEF Owed
  <2>2. CASE \E s \in Threads \ {t} : Looking(s, p, n)
    BY <1>4, <2>2 DEF Owed
  <2>. QED BY <1>7, <2>1, <2>2 DEF Owed
<1>8. CASE Claim(t)
  <2>1. PICK i \in todo : /\ todo' = todo \ {i} /\ u' = [u EXCEPT ![t] = slots[i]]
                          /\ nbrs' = [nbrs EXCEPT ![t] = OutNeigh(g, slots[i], 0)]
                          /\ pc' = [pc EXCEPT ![t] = "scan"]
    BY <1>8 DEF Claim, Goto
  <2>2. ~Looking(t, p, n)
    BY <1>0, <1>8 DEF Claim, Looking, Scanning, ThreadInv
  <2>3. CASE slots[i] = p
    <3>1. u'[t] = p /\ n \in Elems(nbrs'[t]) /\ pc'[t] = "scan"
      BY <1>0, <1>1, <1>2, <2>1, <2>3, AllNeighbours
    <3>2. Looking(t, p, n)'
      BY <3>1 DEF Looking, Scanning
    <3>. QED BY <3>2 DEF Owed
  <2>4. CASE slots[i] # p /\ \E j \in todo : slots[j] = p
    <3>1. PICK j \in todo : slots[j] = p
      BY <2>4
    <3>2. j \in todo' /\ slots'[j] = p
      BY <1>5, <2>1, <2>4, <3>1
    <3>. QED BY <3>2 DEF Owed
  <2>5. CASE \E s \in Threads : Looking(s, p, n)
    BY <1>4, <2>2, <2>5 DEF Owed
  <2>. QED BY <2>3, <2>4, <2>5 DEF Owed
<1>9. CASE ~Claim(t) /\ Looking(t, p, n)
  <2>0. u[t] = p /\ Scanning(t) /\ (n \in Elems(nbrs[t]) \/ (pc[t] = "cas" /\ v[t] = n))
    BY <1>9 DEF Looking
  <2>. SUFFICES Looking(t, p, n)'
    BY DEF Owed
  <2>1. CASE LeaveLoop(t)
    BY <1>0, <2>0, <2>1 DEF LeaveLoop, Scanning, ThreadInv
  <2>2. CASE EndScan(t)
    BY <2>0, <2>2, ElemsEmpty DEF EndScan
  <2>3. CASE ReadParent(t)
    <3>1. pc[t] = "scan" /\ nbrs[t] # <<>> /\ u'[t] = p /\ nbrs'[t] = Tail(nbrs[t])
      BY <1>1, <2>0, <2>3 DEF ReadParent
    <3>2. n = Head(nbrs[t]) \/ n \in Elems(Tail(nbrs[t]))
      BY <1>1, <2>0, <3>1, ElemsHeadTail
    <3>3. CASE parent[Head(nbrs[t])] < 0
      <4>1. pc'[t] = "cas" /\ v'[t] = Head(nbrs[t])
        BY <1>1, <2>3, <3>3 DEF ReadParent, Goto
      <4>. QED BY <3>1, <3>2, <4>1 DEF Looking, Scanning
    <3>4. CASE ~(parent[Head(nbrs[t])] < 0)
      <4>1. pc'[t] = "scan"
        BY <2>3, <3>1, <3>4 DEF ReadParent
      <4>. QED BY <1>3, <3>1, <3>2, <3>4, <4>1 DEF Looking, Scanning
    <3>. QED BY <3>3, <3>4
  <2>4. CASE CasParent(t)
    <3>1. pc[t] = "cas" /\ v[t] \in V /\ HeldInv(t, k)
      BY <1>0, <2>4 DEF CasParent, ThreadInv, LevelInv, TopDownInv
    <3>2. n \in Elems(nbrs[t])
      <4>. SUFFICES ASSUME v[t] = n PROVE FALSE
        BY <2>0
      <4>1. parent[n] = cv[t]
        BY <1>2, <2>0, <3>1 DEF HeldInv
      <4>2. Wins(t)
        BY <2>4, <4>1 DEF Wins
      <4>. QED BY <1>2, <4>2, WinsVertex
    <3>3. u' = u /\ nbrs' = nbrs /\ (pc'[t] = "scan" \/ (pc'[t] = "push" /\ v' = v))
      BY <1>1, <2>4 DEF CasParent, Goto
    <3>4. v[t] # NoNode
      BY <3>1, VFacts DEF NoNode
    <3>. QED BY <2>0, <3>2, <3>3, <3>4 DEF Looking, Scanning
  <2>5. CASE Push(t)
    <3>1. pc[t] = "push" /\ u' = u /\ nbrs' = nbrs /\ v[t] # NoNode
      BY <1>0, <2>5, VFacts DEF Push, ThreadInv, NoNode
    <3>2. v' = v \/ pc'[t] = "scan"
      BY <1>1, <2>5 DEF Push, AfterPush, Goto
    <3>. QED BY <2>0, <3>1, <3>2 DEF Looking, Scanning
  <2>6. CASE Reserve(t) \/ Copy(t)
    <3>1. pc[t] \in {"flush", "copy"} /\ u' = u /\ nbrs' = nbrs /\ v' = v
      BY <2>6 DEF Reserve, Copy
    <3>. QED BY <2>0, <3>1 DEF Looking, Scanning
  <2>. QED BY <1>9, <2>1, <2>2, <2>3, <2>4, <2>5, <2>6, TopDownSteps
<1>. QED BY <1>7, <1>8, <1>9

LEMMA TopDownFresh ==
  ASSUME IInv, CopyApart, NEW k \in Nat, LevelInv(k), stage = "td",
         NEW t \in Threads, ThreadStep(t)
  PROVE  (\A n \in V : Fresh(n)' <=> n \in Reached(k)') /\ CopyApart'
<1>0. IsGraph(g) /\ source \in V /\ TypeOK /\ ThreadInv(t) /\ DOMAIN pc = Threads
  BY GraphType DEF IInv, ShapeInv, TypeOK
<1>1. \A n \in V : Fresh(n) <=> n \in Reached(k)
  BY DEF LevelInv, TopDownInv
<1>2. Level(k + 1)' = Level(k + 1)
  BY <1>0, OneThread, SameGraph
<1>3. CASE Wins(t)
  <2>1. /\ v[t] \in Level(k + 1) /\ Visited' = Visited \cup {v[t]}
        /\ pc'[t] = "push" /\ v' = v
    BY <1>3, WinsVertex
  <2>2. Reached(k)' = Reached(k) \cup {v[t]}
    BY <1>2, <2>1 DEF Reached
  <2>3. (\A n \in V : Fresh(n)' <=> Fresh(n) \/ (pc'[t] = "push" /\ v'[t] = n)) /\ CopyApart'
    BY <1>3, TakingFresh DEF Wins
  <2>. QED BY <1>1, <2>1, <2>2, <2>3
<1>4. CASE ~Wins(t)
  <2>1. Reached(k)' = Reached(k)
    BY <1>2, <1>4, LosesNothing DEF Reached
  <2>2. (\A n \in V : Fresh(n)' <=> Fresh(n)) /\ CopyApart'
    <3>1. CASE Claim(t) \/ CasParent(t)
      <4>1. pc'[t] = "scan"
        BY <1>0, <1>4, <3>1 DEF Claim, CasParent, Wins, Goto
      <4>. QED BY <3>1, <4>1, TakingFresh
    <3>2. CASE LeaveLoop(t) \/ ReadParent(t) \/ EndScan(t)
      BY <3>2, QuietFresh
    <3>3. CASE Push(t)
      BY <3>3, PushFresh
    <3>4. CASE Reserve(t)
      BY <3>4, ReserveFresh
    <3>5. CASE Copy(t)
      BY <3>5, CopyFresh
    <3>. QED BY <3>1, <3>2, <3>3, <3>4, <3>5, TopDownSteps
  <2>. QED BY <1>1, <2>1, <2>2
<1>. QED BY <1>3, <1>4

LEMMA TopDownThread ==
  ASSUME IInv, CopyApart, NEW k \in Nat, LevelInv(k), stage = "td",
         NEW t \in Threads, ThreadStep(t)
  PROVE  LevelInv(k)' /\ CopyApart'
<1>0. /\ IsGraph(g) /\ source \in V /\ TypeOK /\ Degrees \in [V -> Nat]
      /\ parent \in [V -> Int]
  BY GraphType
<1>1. /\ \A j : Level(j)' = Level(j) /\ UpTo(j)' = UpTo(j)
      /\ g' = g /\ Degrees' = Degrees /\ InitParent' = InitParent /\ stage' = stage
  BY <1>0, OneThread, SameGraph
<1>2. TopDownInv(k)
  BY DEF LevelInv
<1>3. Frontier' = Level(k)'
  BY <1>1, <1>2, WindowKept DEF TopDownInv
<1>4. Between(k)' /\ Visited \subseteq Visited'
  BY TopDownVisits
<1>5. (\A n \in V : Fresh(n)' <=> n \in Reached(k)') /\ CopyApart'
  BY TopDownFresh
<1>6. \A s \in Threads : HeldInv(s, k)'
  BY HeldMoving, HeldOther
<1>7. \A p \in Level(k) : \A n \in Elems(g.out[p]) : n \in Visited' \/ Owed(p, n)'
  <2>. SUFFICES ASSUME NEW p \in Level(k), NEW n \in Elems(g.out[p]), n \notin Visited'
                PROVE  Owed(p, n)'
    OBVIOUS
  <2>1. Owed(p, n)
    BY <1>2, <1>4 DEF TopDownInv
  <2>. QED BY <2>1, OwedStays
<1>8. scout' = Total(Degrees, Reached(k)')
  <2>1. scout = Total(Degrees, Reached(k))
    BY <1>2 DEF TopDownInv
  <2>2. CASE Wins(t)
    <3>1. /\ v[t] \in Level(k + 1) \ Visited /\ v[t] \in V
          /\ Visited' = Visited \cup {v[t]} /\ scout' = scout + Degrees[v[t]]
      BY <2>2, WinsVertex
    <3>2. Reached(k)' = Reached(k) \cup {v[t]} /\ v[t] \notin Reached(k)
      BY <1>1, <3>1 DEF Reached
    <3>3. Total(Degrees, Reached(k) \cup {v[t]}) = Total(Degrees, Reached(k)) + Degrees[v[t]]
      BY <1>0, <3>1, <3>2, TotalFacts
    <3>. QED BY <2>1, <3>1, <3>2, <3>3
  <2>3. CASE ~Wins(t)
    <3>1. Reached(k)' = Reached(k)
      BY <1>1, <2>3, LosesNothing DEF Reached
    <3>. QED BY <2>1, <2>3, <3>1, LosesNothing
  <2>. QED BY <2>2, <2>3
<1>9. TopDownInv(k)'
  BY <1>1, <1>3, <1>4, <1>5, <1>6, <1>7, <1>8 DEF TopDownInv
<1>10. \A n \in V : n \in Visited' \/ parent'[n] = InitParent[n]
  <2>1. \A n \in V : n \in Visited \/ parent[n] = InitParent[n]
    BY DEF LevelInv
  <2>. QED BY <1>4, <2>1, TopDownVisits
<1>11. front' \subseteq UpTo(k)
  BY TopDownSteps DEF LevelInv
<1>. QED BY <1>1, <1>5, <1>9, <1>10, <1>11 DEF LevelInv, Queueing
-----------------------------------------------------------------------------
(* Between the directions.                                                 *)
LEMMA MarkThread ==
  ASSUME IInv, CopyApart, NEW k \in Nat, LevelInv(k), stage = "queueToBitmap",
         NEW t \in Threads, ThreadStep(t)
  PROVE  LevelInv(k)' /\ CopyApart'
<1>0. IsGraph(g) /\ source \in V /\ TypeOK /\ ThreadInv(t) /\ Level(k) \subseteq UpTo(k)
  BY GraphType, LevelFacts DEF IInv, ShapeInv
<1>1. /\ DOMAIN pc = Threads /\ DOMAIN u = Threads
      /\ Level(k)' = Level(k) /\ UpTo(k)' = UpTo(k) /\ InitParent' = InitParent /\ stage' = stage
  BY <1>0, OneThread, SameGraph DEF TypeOK
<1>2. Claim(t) \/ ReadWord(t) \/ SetBitAtomic(t)
  BY <1>0 DEF ThreadStep, ThreadInv, Queueing, LeaveLoop, ReadParent, EndScan, CasParent, Push,
              Reserve, Copy, Visit, SetBit
<1>3. CopyApart'
  BY <1>2, QuietFresh, TakingFresh
<1>4. UNCHANGED <<parent, slots, in, end>> /\ Visited' = Visited
  BY <1>2 DEF Claim, ReadWord, SetBitAtomic, queue, Visited
<1>5. MarkInv(k) /\ front \subseteq UpTo(k) /\ end = in
  BY DEF LevelInv, Queueing
<1>6. \A s \in Threads \ {t} : pc'[s] = pc[s] /\ u'[s] = u[s]
  BY <1>0, OneThread
<1>7. Frontier' = Frontier
  BY WindowKept
<1>8. CASE Claim(t)
  <2>1. PICK i \in todo : /\ todo' = todo \ {i} /\ u' = [u EXCEPT ![t] = slots[i]]
                          /\ pc' = [pc EXCEPT ![t] = "readWord"] /\ front' = front
    BY <1>8 DEF Claim, Goto
  <2>2. i \in Window
    BY DEF IInv, ShapeInv, Iterations
  <2>3. slots[i] \in Level(k)
    BY <1>5, <2>2 DEF MarkInv, Frontier
  <2>4. pc[t] = "idle" /\ pc'[t] = "readWord" /\ u'[t] = slots[i]
    BY <1>1, <1>8, <2>1 DEF Claim
  <2>5. \A s \in Threads : pc'[s] # "idle" => u'[s] \in Level(k)
    BY <1>5, <1>6, <2>3, <2>4 DEF MarkInv
  <2>6. ASSUME NEW p \in Level(k)
        PROVE  \/ p \in front' \/ \E j \in todo' : slots[j] = p
               \/ \E s \in Threads : pc'[s] # "idle" /\ u'[s] = p
    <3>1. CASE p = slots[i]
      BY <2>4, <3>1
    <3>2. CASE p # slots[i]
      BY <1>5, <1>6, <2>1, <2>4, <3>2 DEF MarkInv
    <3>. QED BY <3>1, <3>2
  <2>7. MarkInv(k)'
    BY <1>1, <1>4, <1>5, <1>7, <2>5, <2>6 DEF MarkInv
  <2>. QED BY <1>1, <1>3, <1>4, <1>5, <2>1, <2>7 DEF LevelInv
<1>9. CASE ReadWord(t)
  <2>1. pc[t] = "readWord" /\ pc'[t] = "writeWord" /\ u' = u /\ front' = front /\ todo' = todo
    BY <1>1, <1>9 DEF ReadWord, Goto
  <2>2. \A s \in Threads : (pc'[s] = "idle" <=> pc[s] = "idle") /\ u'[s] = u[s]
    BY <1>6, <2>1
  <2>3. MarkInv(k)'
    BY <1>1, <1>4, <1>5, <1>7, <2>1, <2>2 DEF MarkInv
  <2>. QED BY <1>1, <1>3, <1>4, <1>5, <2>1, <2>3 DEF LevelInv
<1>10. CASE SetBitAtomic(t)
  <2>1. pc[t] = "writeWord" /\ todo' = todo
    BY <1>10 DEF SetBitAtomic
  <2>2. u[t] \in Level(k)
    BY <1>5, <2>1 DEF MarkInv
  <2>3. \/ pc'[t] = "idle" /\ front' = front \cup {u[t]}
        \/ pc'[t] = "readWord" /\ u' = u /\ front' = front
    BY <1>1, <1>10 DEF SetBitAtomic, Goto
  <2>4. \A s \in Threads : pc'[s] # "idle" => u'[s] \in Level(k)
    BY <1>5, <1>6, <2>2, <2>3 DEF MarkInv
  <2>5. \A p \in Level(k) : \/ p \in front' \/ \E j \in todo : slots[j] = p
                            \/ \E s \in Threads : pc'[s] # "idle" /\ u'[s] = p
    BY <1>5, <1>6, <2>1, <2>3 DEF MarkInv
  <2>6. MarkInv(k)'
    BY <1>1, <1>4, <1>5, <1>7, <2>1, <2>4, <2>5 DEF MarkInv
  <2>7. front' \subseteq UpTo(k)
    BY <1>0, <1>5, <2>2, <2>3
  <2>. QED BY <1>1, <1>3, <1>4, <1>5, <2>6, <2>7 DEF LevelInv
<1>. QED BY <1>2, <1>8, <1>9, <1>10

LEMMA GatherThread ==
  ASSUME IInv, CopyApart, NEW k \in Nat, LevelInv(k), stage = "bitmapToQueue",
         NEW t \in Threads, ThreadStep(t)
  PROVE  LevelInv(k)' /\ CopyApart'
<1>0. IsGraph(g) /\ source \in V /\ TypeOK /\ ThreadInv(t)
  BY GraphType DEF IInv, ShapeInv
<1>1. /\ DOMAIN pc = Threads /\ DOMAIN v = Threads
      /\ Level(k)' = Level(k) /\ UpTo(k)' = UpTo(k) /\ InitParent' = InitParent /\ stage' = stage
  BY <1>0, OneThread, SameGraph DEF TypeOK
<1>2. Claim(t) \/ LeaveLoop(t) \/ Push(t) \/ Reserve(t) \/ Copy(t)
  BY <1>0 DEF ThreadStep, ThreadInv, ReadParent, EndScan, CasParent, Visit, ReadWord, SetBit,
              SetBitAtomic
<1>3. UNCHANGED <<parent, front>> /\ Visited' = Visited
  BY <1>2 DEF Claim, LeaveLoop, Push, Reserve, Copy, Visited
<1>4. GatherInv(k) /\ front \subseteq UpTo(k)
  BY DEF LevelInv
<1>5. CASE Claim(t)
  <2>1. PICK i \in todo : /\ todo' = todo \ {i}
                          /\ \/ i \in front /\ v' = [v EXCEPT ![t] = i]
                                /\ pc' = [pc EXCEPT ![t] = "push"]
                             \/ i \notin front /\ pc' = pc
    BY <1>5 DEF Claim, Goto
  <2>2. i \in V /\ pc[t] = "idle"
    BY <1>5 DEF IInv, ShapeInv, Iterations, Claim
  <2>3. (\A n \in V : Fresh(n)' <=> Fresh(n) \/ (pc'[t] = "push" /\ v'[t] = n)) /\ CopyApart'
    BY <1>5, TakingFresh
  <2>4. \A n \in V : Fresh(n)' <=> n \in Level(k) \ todo'
    <3>1. CASE i \in front
      <4>1. pc'[t] = "push" /\ v'[t] = i
        BY <1>1, <2>1, <3>1
      <4>. QED BY <1>4, <2>1, <2>3, <3>1, <4>1 DEF GatherInv
    <3>2. CASE i \notin front
      <4>1. pc'[t] = "idle"
        BY <2>1, <2>2, <3>2
      <4>. QED BY <1>4, <2>1, <2>3, <3>2, <4>1 DEF GatherInv
    <3>. QED BY <3>1, <3>2
  <2>5. GatherInv(k)'
    BY <1>1, <1>3, <1>4, <2>4 DEF GatherInv
  <2>. QED BY <1>1, <1>3, <1>4, <2>3, <2>5 DEF LevelInv, Queueing
<1>6. CASE ~Claim(t)
  <2>1. todo' = todo
    BY <1>2, <1>6 DEF LeaveLoop, Push, Reserve, Copy
  <2>2. (\A n \in V : Fresh(n)' <=> Fresh(n)) /\ CopyApart'
    BY <1>2, <1>6, QuietFresh, PushFresh, ReserveFresh, CopyFresh
  <2>3. GatherInv(k)'
    BY <1>1, <1>3, <1>4, <2>1, <2>2 DEF GatherInv
  <2>. QED BY <1>1, <1>3, <1>4, <2>2, <2>3 DEF LevelInv, Queueing
<1>. QED BY <1>5, <1>6
-----------------------------------------------------------------------------
(* Bottom-up.                                                              *)
(* No word belongs to two chunks.                                          *)
LEMMA WordInChunk ==
  ASSUME NEW n \in V, NEW m \in WordOf(n)
  PROVE  ChunkOf(m) = ChunkOf(n)
<1>1. /\ n \in Nat /\ m \in Nat /\ m \div WordBits = n \div WordBits
      /\ Chunk \in Nat \ {0} /\ WordBits \in Nat \ {0}
  BY VFacts, TuningAssumption DEF WordOf
<1>2. PICK q \in Nat : Chunk = WordBits * q
  <2>1. Chunk \div WordBits \in Nat /\ Chunk = WordBits * (Chunk \div WordBits)
    BY <1>1, AlignmentAssumption
  <2>. QED BY <2>1
<1>3. ASSUME NEW b \in Nat, NEW a \in Nat
      PROVE  b <= a \div Chunk <=> q * b <= a \div WordBits
  <2>1. q * b \in Nat /\ Chunk * b = WordBits * (q * b)
    BY <1>1, <1>2
  <2>2. b <= a \div Chunk <=> Chunk * b <= a
    BY <1>1, DivBound
  <2>3. q * b <= a \div WordBits <=> WordBits * (q * b) <= a
    BY <1>1, <2>1, DivBound
  <2>. QED BY <2>1, <2>2, <2>3
<1>4. n \div Chunk \in Nat /\ m \div Chunk \in Nat
  BY <1>1, DivType
<1>5. n \div Chunk <= m \div Chunk
  <2>1. n \div Chunk <= n \div Chunk
    BY <1>4
  <2>. QED BY <1>1, <1>3, <1>4, <2>1
<1>6. m \div Chunk <= n \div Chunk
  <2>1. m \div Chunk <= m \div Chunk
    BY <1>4
  <2>. QED BY <1>1, <1>3, <1>4, <2>1
<1>. QED BY <1>4, <1>5, <1>6 DEF ChunkOf

(* A chunk starts at a vertex.                                             *)
LEMMA ChunkStart ==
  ASSUME NEW i \in {ChunkOf(n) : n \in V}
  PROVE  /\ i \in Nat /\ i * Chunk \in V /\ ChunkOf(i * Chunk) = i
         /\ \A n \in V : ChunkOf(n) = i => i * Chunk <= n
<1>1. Chunk \in Nat \ {0}
  BY TuningAssumption
<1>2. \A n \in V : n \in Nat /\ ChunkOf(n) \in Nat /\ Chunk * ChunkOf(n) <= n
  BY <1>1, VFacts, DivType DEF ChunkOf
<1>3. i \in Nat
  BY <1>2
<1>4. PICK b \in Nat : b = i * Chunk /\ b = Chunk * i
  BY <1>1, <1>3
<1>5. \A n \in V : ChunkOf(n) = i => b <= n
  BY <1>2, <1>4
<1>6. b \in V
  <2>1. PICK n \in V : ChunkOf(n) = i
    OBVIOUS
  <2>. QED BY <1>5, <2>1, VFacts, NumNodesAssumption DEF V
<1>7. ChunkOf(b) = i
  <2>1. b \div Chunk \in Nat /\ i <= b \div Chunk
    BY <1>1, <1>3, <1>4, DivBound, DivType
  <2>2. Chunk * (b \div Chunk) <= Chunk * i
    BY <1>1, <1>4, DivType
  <2>3. PICK c \in Nat : c = b \div Chunk
    BY <2>1
  <2>4. ~(i + 1 <= c)
    <3>. SUFFICES ASSUME i + 1 <= c PROVE FALSE
      OBVIOUS
    <3>1. Chunk * (i + 1) <= Chunk * c
      BY <1>1, <1>3, <2>3
    <3>. QED BY <1>1, <1>3, <2>2, <2>3, <3>1
  <2>. QED BY <1>3, <2>1, <2>3, <2>4 DEF ChunkOf
<1>. QED BY <1>3, <1>4, <1>5, <1>6, <1>7

(* The loop over a chunk ends with it.                                     *)
LEMMA ChunkNext ==
  ASSUME NEW n \in V
  PROVE  /\ n + 1 \in V /\ (n + 1) % Chunk # 0 => ChunkOf(n + 1) = ChunkOf(n)
         /\ ~(n + 1 \in V /\ (n + 1) % Chunk # 0) =>
              \A m \in V : ChunkOf(m) = ChunkOf(n) /\ n <= m => m = n
<1>1. Chunk \in Nat \ {0} /\ n \in Nat
  BY TuningAssumption, VFacts
<1>. DEFINE q == (n + 1) \div Chunk
<1>2. q \in Nat /\ Chunk * q <= n + 1 /\ n \div Chunk \in Nat
  BY <1>1, DivType
<1>3. (n + 1) % Chunk = 0 <=> Chunk * q = n + 1
  BY <1>1
<1>4. q <= n \div Chunk <=> Chunk * q <= n
  BY <1>1, <1>2, DivBound
<1>5. n \div Chunk <= q
  BY <1>1, DivMonotone
<1>6. ASSUME (n + 1) % Chunk # 0 PROVE ChunkOf(n + 1) = ChunkOf(n)
  <2>1. Chunk * q <= n
    BY <1>1, <1>2, <1>3, <1>6
  <2>. QED BY <1>2, <1>4, <1>5, <2>1 DEF ChunkOf
<1>7. ASSUME ~(n + 1 \in V /\ (n + 1) % Chunk # 0),
             NEW m \in V, ChunkOf(m) = ChunkOf(n), n <= m, m # n
      PROVE  FALSE
  <2>1. m \in Nat /\ n + 1 <= m /\ n + 1 \in V
    BY <1>1, <1>7, VFacts, NumNodesAssumption DEF V
  <2>2. Chunk * q = n + 1
    BY <1>3, <1>7, <2>1
  <2>3. q <= m \div Chunk
    BY <1>1, <2>1, DivMonotone
  <2>4. ~(q <= n \div Chunk)
    BY <1>1, <1>4, <2>2
  <2>. QED BY <1>7, <2>3, <2>4 DEF ChunkOf
<1>. QED BY <1>6, <1>7

LEMMA ChunkMoves ==
  ASSUME IInv, NEW t \in Threads, NextInChunk(t)
  PROVE  /\ pc'[t] \in {"visit", "idle"}
         /\ pc'[t] # "idle" => ChunkOf(u'[t]) = ChunkOf(u[t])
         /\ \A n \in V : ChunkOf(n) = ChunkOf(u[t]) /\ u[t] <= n /\ n # u[t] =>
              pc'[t] = "visit" /\ ChunkOf(u'[t]) = ChunkOf(n) /\ u'[t] <= n
<1>1. DOMAIN pc = Threads /\ DOMAIN u = Threads /\ u[t] \in V /\ u[t] \in Nat
  BY VFacts DEF IInv, ShapeInv, TypeOK
<1>2. CASE u[t] + 1 \in V /\ (u[t] + 1) % Chunk # 0
  <2>1. pc'[t] = "visit" /\ u'[t] = u[t] + 1
    BY <1>1, <1>2 DEF NextInChunk, Goto
  <2>2. ChunkOf(u[t] + 1) = ChunkOf(u[t])
    BY <1>1, <1>2, ChunkNext
  <2>3. \A n \in V : u[t] <= n /\ n # u[t] => u[t] + 1 <= n
    BY <1>1, VFacts
  <2>. QED BY <2>1, <2>2, <2>3
<1>3. CASE ~(u[t] + 1 \in V /\ (u[t] + 1) % Chunk # 0)
  <2>1. pc'[t] = "idle"
    BY <1>1, <1>3 DEF NextInChunk, Goto
  <2>. QED BY <1>1, <1>3, <2>1, ChunkNext
<1>. QED BY <1>2, <1>3

LEMMA BottomUpSteps ==
  ASSUME IInv, stage = "bu", NEW t \in Threads, ThreadStep(t)
  PROVE  /\ Claim(t) \/ Visit(t) \/ ReadWord(t) \/ SetBit(t)
         /\ UNCHANGED <<front, in>>
<1>1. ThreadInv(t)
  BY DEF IInv, ShapeInv
<1>2. Claim(t) \/ Visit(t) \/ ReadWord(t) \/ SetBit(t)
  BY <1>1 DEF ThreadInv, Queueing, ThreadStep, LeaveLoop, ReadParent, EndScan,
              CasParent, Push, Reserve, Copy, SetBitAtomic
<1>. QED BY <1>2 DEF Claim, Visit, ReadWord, SetBit, queue

(* A chunk belongs to the thread that took it up.                          *)
LEMMA ChunksKept ==
  ASSUME IInv, ChunksApart, stage = "bu", NEW t \in Threads, ThreadStep(t)
  PROVE  ChunksApart'
<1>0. TypeOK /\ DOMAIN pc = Threads /\ DOMAIN u = Threads
  BY DEF IInv, ShapeInv, TypeOK
<1>1. \A s \in Threads \ {t} : pc'[s] = pc[s] /\ u'[s] = u[s]
  BY <1>0, OneThread
<1>2. \A s \in Threads \ {t} : ChunkOf(u[s])' = ChunkOf(u[s])
  BY <1>1 DEF ChunkOf
<1>3. CASE Claim(t)
  <2>1. PICK i \in todo : /\ todo' = todo \ {i} /\ u' = [u EXCEPT ![t] = i * Chunk]
                          /\ pc' = [pc EXCEPT ![t] = "visit"]
    BY <1>3 DEF Claim, Goto
  <2>2. ChunkOf(i * Chunk) = i
    <3>1. i \in {ChunkOf(n) : n \in V}
      BY DEF IInv, ShapeInv, Iterations, ChunkOf
    <3>. QED BY <3>1, ChunkStart
  <2>3. pc'[t] = "visit" /\ ChunkOf(u[t])' = i
    BY <1>0, <2>1, <2>2 DEF ChunkOf
  <2>4. \A s \in Threads \ {t} : pc[s] # "idle" => ChunkOf(u[s]) \notin todo
    BY DEF ChunksApart
  <2>. QED BY <1>1, <1>2, <2>1, <2>3, <2>4 DEF ChunksApart
<1>4. CASE ~Claim(t)
  <2>1. todo' = todo /\ pc[t] # "idle"
    BY <1>4, BottomUpSteps DEF Visit, ReadWord, SetBit
  <2>2. pc'[t] # "idle" => ChunkOf(u[t])' = ChunkOf(u[t])
    <3>1. CASE u' = u
      BY <3>1 DEF ChunkOf
    <3>2. CASE NextInChunk(t)
      BY <3>2, ChunkMoves DEF ChunkOf
    <3>. QED BY <1>4, <3>1, <3>2, BottomUpSteps DEF Visit, ReadWord, SetBit
  <2>. QED BY <1>1, <1>2, <2>1, <2>2 DEF ChunksApart
<1>. QED BY <1>3, <1>4

(* The vertex a thread finds a parent for is of the next level.            *)
Finds(t) == Visit(t) /\ parent[u[t]] < 0 /\ FrontNeighbours(u[t]) # {}

LEMMA FindsVertex ==
  ASSUME IInv, NEW k \in Nat, LevelInv(k), stage = "bu", NEW t \in Threads, Finds(t)
  PROVE  /\ u[t] \in Level(k + 1) \ Visited /\ u[t] \in V
         /\ FirstInFront(u[t]) \in Level(k) /\ FirstInFront(u[t]) \in V
         /\ FirstInFront(u[t]) \in Elems(g.in[u[t]])
         /\ parent' = [parent EXCEPT ![u[t]] = FirstInFront(u[t])]
         /\ Visited' = Visited \cup {u[t]}
         /\ awake' = awake + 1 /\ u' = u /\ pc'[t] = "readWord"
<1>0. /\ IsGraph(g) /\ source \in V /\ TypeOK /\ parent \in [V -> Int] /\ DOMAIN pc = Threads
      /\ u[t] \in V /\ front \subseteq UpTo(k) /\ Between(k)
  BY GraphType DEF TypeOK, LevelInv, BottomUpInv
<1>. DEFINE n == u[t]
            p == FirstInFront(n)
<1>1. /\ p \in V /\ p \in front /\ p \in Elems(g.in[n])
      /\ n \notin Visited
  BY <1>0, FirstIsNeighbour DEF Finds, Visited
<1>2. p \in UpTo(k) /\ n \in Elems(g.out[p]) /\ n \notin UpTo(k)
  BY <1>0, <1>1 DEF IsGraph, Between
<1>3. p \in Level(k) /\ n \in Level(k + 1)
  BY <1>0, <1>2, LevelFacts
<1>4. /\ parent' = [parent EXCEPT ![n] = p] /\ awake' = awake + 1 /\ u' = u
      /\ pc'[t] = "readWord"
  BY <1>0 DEF Finds, Visit, Goto
<1>5. Visited' = Visited \cup {n}
  <2>1. \A m \in V : parent'[m] = IF m = n THEN p ELSE parent[m]
    BY <1>0, <1>4
  <2>2. p \in Nat
    BY <1>1, VFacts
  <2>. HIDE DEF p
  <2>3. \A m \in V : parent'[m] >= 0 <=> m = n \/ parent[m] >= 0
    BY <2>1, <2>2
  <2>. QED BY <1>0, <2>3 DEF Visited
<1>. QED BY <1>0, <1>1, <1>3, <1>4, <1>5

LEMMA FindsNothing ==
  ASSUME IInv, stage = "bu", NEW t \in Threads, ThreadStep(t), ~Finds(t)
  PROVE  /\ parent' = parent /\ Visited' = Visited /\ awake' = awake
         /\ Claim(t) \/ Visit(t) \/ SetBit(t) => pc'[t] \in {"visit", "idle"}
<1>1. DOMAIN pc = Threads
  BY DEF IInv, ShapeInv, TypeOK
<1>2. parent' = parent /\ awake' = awake
  BY BottomUpSteps DEF Claim, Visit, ReadWord, SetBit, Finds, counters
<1>3. Claim(t) => pc'[t] = "visit"
  BY <1>1 DEF Claim, Goto
<1>4. Visit(t) \/ SetBit(t) => NextInChunk(t)
  BY DEF Visit, SetBit, Finds
<1>. QED BY <1>2, <1>3, <1>4, ChunkMoves DEF Visited

LEMMA BitsKept ==
  ASSUME IInv, NEW k \in Nat, LevelInv(k), stage = "bu", NEW t \in Threads, ThreadStep(t)
  PROVE  Bits(k)'
<1>0. /\ IsGraph(g) /\ source \in V /\ TypeOK
      /\ DOMAIN pc = Threads /\ DOMAIN u = Threads /\ DOMAIN word = Threads
      /\ \A s \in Threads : u[s] \in V
  BY GraphType DEF TypeOK
<1>1. Bits(k) /\ ChunksApart
  BY DEF LevelInv, BottomUpInv, Bits
<1>2. \A s \in Threads \ {t} : pc'[s] = pc[s] /\ u'[s] = u[s] /\ word'[s] = word[s]
  BY <1>0, OneThread
<1>3. Level(k + 1)' = Level(k + 1)
  BY <1>0, OneThread, SameGraph
<1>4. \A n : WordOf(n)' = WordOf(n)
  BY DEF WordOf
<1>5. CASE Finds(t)
  <2>1. /\ u[t] \in Level(k + 1) /\ Visited' = Visited \cup {u[t]}
        /\ u' = u /\ pc'[t] = "readWord"
    BY <1>5, FindsVertex
  <2>2. curr' = curr /\ word' = word
    BY <1>5 DEF Finds, Visit
  <2>3. Reached(k)' = Reached(k) \cup {u[t]}
    BY <1>3, <2>1 DEF Reached
  <2>4. /\ Setting(t)'
        /\ \A s \in Threads \ {t} : Setting(s)' <=> Setting(s)
    BY <1>2, <2>1 DEF Setting
  <2>5. \A n \in Reached(k)' : n \in curr' \/ \E s \in Threads : Setting(s)' /\ u'[s] = n
    BY <1>1, <2>1, <2>2, <2>3, <2>4 DEF Bits
  <2>6. \A s \in Threads : Setting(s)' => u'[s] \in Reached(k)'
    BY <1>1, <2>1, <2>3, <2>4 DEF Bits
  <2>7. \A s \in Threads : pc'[s] = "writeWord" => word'[s] = WordOf(u'[s]) \cap curr'
    BY <1>1, <1>2, <2>1, <2>2 DEF Bits
  <2>8. curr' \subseteq Reached(k)'
    BY <1>1, <2>2, <2>3 DEF Bits
  <2>. QED BY <1>4, <2>5, <2>6, <2>7, <2>8 DEF Bits
<1>6. CASE Claim(t) \/ (Visit(t) /\ ~Finds(t))
  <2>1. Reached(k)' = Reached(k) /\ curr' = curr
    <3>1. ~Finds(t)
      BY <1>6 DEF Finds, Claim, Visit
    <3>. QED BY <1>3, <1>6, <3>1, FindsNothing DEF Reached, Claim, Visit
  <2>2. pc[t] \in {"idle", "visit"} /\ pc'[t] \in {"idle", "visit"}
    <3>1. ~Finds(t)
      BY <1>6 DEF Finds, Claim, Visit
    <3>. QED BY <1>6, <3>1, FindsNothing DEF Claim, Visit
  <2>3. ~Setting(t) /\ ~Setting(t)'
    BY <2>2 DEF Setting
  <2>4. \A s \in Threads \ {t} : Setting(s)' <=> Setting(s)
    BY <1>2 DEF Setting
  <2>5. \A n \in Reached(k)' : n \in curr' \/ \E s \in Threads : Setting(s)' /\ u'[s] = n
    BY <1>1, <1>2, <2>1, <2>3, <2>4 DEF Bits
  <2>6. \A s \in Threads : Setting(s)' => u'[s] \in Reached(k)'
    BY <1>1, <1>2, <2>1, <2>3, <2>4 DEF Bits
  <2>7. \A s \in Threads : pc'[s] = "writeWord" => word'[s] = WordOf(u'[s]) \cap curr'
    BY <1>1, <1>2, <2>1, <2>2 DEF Bits
  <2>. QED BY <1>1, <1>4, <2>1, <2>5, <2>6, <2>7 DEF Bits
<1>7. CASE ReadWord(t)
  <2>1. /\ pc[t] = "readWord" /\ pc'[t] = "writeWord" /\ u' = u /\ curr' = curr
        /\ word'[t] = WordOf(u[t]) \cap curr
    BY <1>0, <1>7 DEF ReadWord, Goto
  <2>2. Reached(k)' = Reached(k)
    <3>1. ~Finds(t)
      BY <2>1 DEF Finds, Visit
    <3>. QED BY <1>3, <3>1, FindsNothing DEF Reached
  <2>3. \A s \in Threads : Setting(s)' <=> Setting(s)
    BY <1>2, <2>1 DEF Setting
  <2>4. \A s \in Threads : pc'[s] = "writeWord" => word'[s] = WordOf(u'[s]) \cap curr'
    BY <1>1, <1>2, <2>1 DEF Bits
  <2>. QED BY <1>1, <1>4, <2>1, <2>2, <2>3, <2>4 DEF Bits
<1>8. CASE SetBit(t)
  <2>1. /\ pc[t] = "writeWord" /\ Setting(t)
        /\ curr' = (curr \ WordOf(u[t])) \cup word[t] \cup {u[t]}
    BY <1>8 DEF SetBit, Setting
  <2>2. word[t] = WordOf(u[t]) \cap curr /\ u[t] \in Reached(k)
    BY <1>1, <2>1 DEF Bits
  <2>3. curr' = curr \cup {u[t]}
    BY <2>1, <2>2
  <2>4. Reached(k)' = Reached(k) /\ ~Setting(t)'
    <3>1. ~Finds(t)
      BY <2>1 DEF Finds, Visit
    <3>. QED BY <1>3, <1>8, <3>1, FindsNothing DEF Reached, Setting
  <2>5. \A s \in Threads \ {t} : Setting(s)' <=> Setting(s)
    BY <1>2 DEF Setting
  <2>6. \A n \in Reached(k)' : n \in curr' \/ \E s \in Threads : Setting(s)' /\ u'[s] = n
    BY <1>1, <1>2, <2>3, <2>4, <2>5 DEF Bits
  <2>7. \A s \in Threads : Setting(s)' => u'[s] \in Reached(k)'
    BY <1>1, <1>2, <2>4, <2>5 DEF Bits
  <2>8. ASSUME NEW s \in Threads, pc'[s] = "writeWord"
        PROVE  word'[s] = WordOf(u'[s]) \cap curr'
    <3>1. s # t
      BY <2>4, <2>8 DEF Setting
    <3>2. word[s] = WordOf(u[s]) \cap curr
      BY <1>1, <1>2, <2>8, <3>1 DEF Bits
    <3>3. u[t] \notin WordOf(u[s])
      <4>. SUFFICES ASSUME u[t] \in WordOf(u[s]) PROVE FALSE
        OBVIOUS
      <4>1. ChunkOf(u[t]) = ChunkOf(u[s])
        BY <1>0, WordInChunk
      <4>2. pc[s] # "idle" /\ pc[t] # "idle"
        BY <1>2, <2>1, <2>8, <3>1
      <4>. QED BY <1>1, <3>1, <4>1, <4>2 DEF ChunksApart
    <3>. QED BY <1>2, <2>3, <3>1, <3>2, <3>3
  <2>9. curr' \subseteq Reached(k)'
    BY <1>1, <2>2, <2>3, <2>4 DEF Bits
  <2>. QED BY <1>4, <2>6, <2>7, <2>8, <2>9 DEF Bits
<1>. QED BY <1>5, <1>6, <1>7, <1>8, BottomUpSteps

(* A thread gets to the vertices that are left.                            *)
LEMMA ToVisitStays ==
  ASSUME IInv, NEW k \in Nat, LevelInv(k), stage = "bu", NEW t \in Threads, ThreadStep(t),
         NEW n \in Level(k + 1), n \notin Visited', ToVisit(n)
  PROVE  ToVisit(n)'
<1>0. /\ IsGraph(g) /\ source \in V /\ TypeOK /\ parent \in [V -> Int]
      /\ DOMAIN pc = Threads /\ DOMAIN u = Threads /\ n \in V
  BY GraphType DEF TypeOK, Level
<1>1. \A s \in Threads \ {t} : pc'[s] = pc[s] /\ u'[s] = u[s]
  BY <1>0, OneThread
<1>2. BottomUpInv(k)
  BY DEF LevelInv
<1>3. ~Claim(t) => todo' = todo
  BY BottomUpSteps DEF Visit, ReadWord, SetBit
<1>4. CASE \E s \in Threads \ {t} : pc[s] # "idle" /\ ChunkOf(u[s]) = ChunkOf(n) /\ u[s] <= n
  BY <1>1, <1>4 DEF ToVisit, ChunkOf
<1>5. CASE ChunkOf(n) \in todo
  <2>1. CASE Claim(t)
    <3>1. PICK i \in todo : /\ todo' = todo \ {i} /\ u' = [u EXCEPT ![t] = i * Chunk]
                            /\ pc' = [pc EXCEPT ![t] = "visit"]
      BY <1>5, <2>1 DEF Claim, Goto
    <3>2. CASE ChunkOf(n) # i
      BY <1>5, <3>1, <3>2 DEF ToVisit, ChunkOf
    <3>3. CASE ChunkOf(n) = i
      <4>1. ChunkOf(i * Chunk) = i /\ i * Chunk <= n
        BY <1>0, <3>3, ChunkStart
      <4>2. pc'[t] = "visit" /\ u'[t] = i * Chunk
        BY <1>0, <3>1
      <4>. QED BY <3>3, <4>1, <4>2 DEF ToVisit, ChunkOf
    <3>. QED BY <3>2, <3>3
  <2>2. CASE ~Claim(t)
    BY <1>3, <1>5, <2>2 DEF ToVisit, ChunkOf
  <2>. QED BY <2>1, <2>2
<1>6. CASE pc[t] # "idle" /\ ChunkOf(u[t]) = ChunkOf(n) /\ u[t] <= n
  <2>1. CASE u' = u /\ pc'[t] # "idle"
    BY <1>6, <2>1 DEF ToVisit, ChunkOf
  <2>2. CASE NextInChunk(t) /\ n # u[t]
    <3>1. pc'[t] = "visit" /\ ChunkOf(u'[t]) = ChunkOf(n) /\ u'[t] <= n
      BY <1>0, <1>6, <2>2, ChunkMoves
    <3>. QED BY <3>1 DEF ToVisit, ChunkOf
  <2>3. CASE SetBit(t)
    <3>1. u[t] \in Visited
      BY <1>2, <2>3 DEF SetBit, Setting, BottomUpInv, Bits, Reached
    <3>2. ~Finds(t)
      BY <2>3 DEF SetBit, Finds, Visit
    <3>3. n # u[t]
      BY <3>1, <3>2, FindsNothing
    <3>. QED BY <2>2, <2>3, <3>3 DEF SetBit
  <2>4. CASE Visit(t) /\ ~Finds(t)
    <3>1. n # u[t]
      <4>. SUFFICES ASSUME n = u[t] PROVE FALSE
        OBVIOUS
      <4>1. parent[n] < 0
        BY <1>0, <2>4, FindsNothing DEF Visited
      <4>2. PICK p \in Level(k) : n \in Elems(g.out[p])
        BY <1>0, LevelFacts
      <4>3. p \in V /\ p \in front
        BY <1>0, <1>2, <4>2, LevelFacts DEF BottomUpInv
      <4>4. p \in Elems(g.in[n])
        BY <1>0, <4>2, <4>3 DEF IsGraph
      <4>5. FrontNeighbours(n) # {}
        BY <4>3, <4>4 DEF FrontNeighbours, Elems
      <4>. QED BY <2>4, <4>1, <4>5 DEF Finds
    <3>. QED BY <2>2, <2>4, <3>1 DEF Visit, Finds
  <2>5. CASE Finds(t)
    <3>1. u' = u /\ pc'[t] = "readWord"
      BY <2>5, FindsVertex
    <3>. QED BY <2>1, <3>1
  <2>6. CASE ReadWord(t)
    <3>1. u' = u /\ pc'[t] = "writeWord"
      BY <1>0, <2>6 DEF ReadWord, Goto
    <3>. QED BY <2>1, <3>1
  <2>. QED BY <1>6, <2>3, <2>4, <2>5, <2>6, BottomUpSteps DEF Claim
<1>. QED BY <1>4, <1>5, <1>6 DEF ToVisit

LEMMA BottomUpThread ==
  ASSUME IInv, CopyApart, NEW k \in Nat, LevelInv(k), stage = "bu",
         NEW t \in Threads, ThreadStep(t)
  PROVE  LevelInv(k)' /\ CopyApart'
<1>0. IsGraph(g) /\ source \in V /\ TypeOK /\ parent \in [V -> Int]
  BY GraphType
<1>1. /\ \A j : Level(j)' = Level(j) /\ UpTo(j)' = UpTo(j)
      /\ InitParent' = InitParent /\ stage' = stage /\ end' = end
  BY <1>0, OneThread, SameGraph DEF args
<1>2. BottomUpInv(k) /\ front \subseteq UpTo(k) /\ end = in
  BY DEF LevelInv, Queueing
<1>3. UNCHANGED <<front, in>>
  BY BottomUpSteps
<1>4. CopyApart'
  BY QuietFresh, TakingFresh, BottomUpSteps
<1>5. ChunksApart' /\ Bits(k)'
  BY <1>2, ChunksKept, BitsKept DEF BottomUpInv
<1>6. \/ Visited' = Visited /\ parent' = parent /\ awake' = awake
      \/ /\ Finds(t) /\ Visited' = Visited \cup {u[t]} /\ u[t] \in Level(k + 1) \ Visited
         /\ u[t] \in V /\ parent' = [parent EXCEPT ![u[t]] = FirstInFront(u[t])]
         /\ awake' = awake + 1
  BY FindsVertex, FindsNothing
<1>7. Between(k)' /\ Visited \subseteq Visited'
  <2>1. Level(k + 1) \subseteq UpTo(k + 1)
    BY <1>0, LevelFacts
  <2>. QED BY <1>1, <1>2, <1>6, <2>1 DEF Between, BottomUpInv
<1>8. \A n \in Level(k + 1) : n \in Visited' \/ ToVisit(n)'
  <2>1. \A n \in Level(k + 1) : n \in Visited \/ ToVisit(n)
    BY <1>2 DEF BottomUpInv
  <2>. QED BY <1>7, <2>1, ToVisitStays
<1>9. awake' = Cardinality(Reached(k)')
  <2>1. awake = Cardinality(Reached(k))
    BY <1>2 DEF BottomUpInv
  <2>2. CASE Visited' = Visited /\ awake' = awake
    BY <1>1, <2>1, <2>2 DEF Reached
  <2>3. CASE Visited' = Visited \cup {u[t]} /\ u[t] \in Level(k + 1) \ Visited /\ awake' = awake + 1
    <3>1. Reached(k)' = Reached(k) \cup {u[t]} /\ u[t] \notin Reached(k)
      BY <1>1, <2>3 DEF Reached
    <3>2. IsFiniteSet(Reached(k))
      BY VerticesCounted, FS_Subset DEF Reached, Visited
    <3>. QED BY <2>1, <2>3, <3>1, <3>2, FS_AddElement
  <2>. QED BY <1>6, <2>2, <2>3
<1>10. BottomUpInv(k)'
  BY <1>1, <1>2, <1>3, <1>5, <1>7, <1>8, <1>9 DEF BottomUpInv
<1>11. \A n \in V : n \in Visited' \/ parent'[n] = InitParent[n]
  <2>1. \A n \in V : n \in Visited \/ parent[n] = InitParent[n]
    BY DEF LevelInv
  <2>2. \A n \in V : parent'[n] = parent[n] \/ n \in Visited'
    BY <1>0, <1>6
  <2>. QED BY <1>7, <2>1, <2>2
<1>. QED BY <1>1, <1>2, <1>3, <1>4, <1>10, <1>11 DEF LevelInv
-----------------------------------------------------------------------------
(* The sequential program takes the search from level to level.            *)
LEMMA Calm ==
  ASSUME IInv
  PROVE  /\ \A t \in Threads : pc[t] \in {"idle", "arrived"} => ~InHand(t, 0) /\ v[t] = NoNode
         /\ stage \notin Queueing => \A t \in Threads : buf[t] = <<>>
         /\ stage \in {"decide", "done"} => \A t \in Threads : pc[t] = "idle"
         /\ start \in Nat /\ end \in Nat /\ in \in Nat
BY DEF IInv, ShapeInv, TypeOK, ThreadInv, InHand

LEMMA DecideStep ==
  ASSUME IInv, NEW k \in Nat, LevelInv(k), GoTopDown \/ GoBottomUp
  PROVE  LevelInv(k)'
<1>0. /\ IsGraph(g) /\ source \in V /\ Degrees \in [V -> Nat]
      /\ UpTo(k + 1) = UpTo(k) \cup Level(k + 1) /\ UpTo(k) \cap Level(k + 1) = {}
  BY GraphType, LevelFacts
<1>1. UNCHANGED <<args, parent, slots, in, start, end, front, pc, u, nbrs, v, cv, buf, pos>>
  BY DEF GoTopDown, GoBottomUp, queue
<1>2. /\ \A j : Level(j)' = Level(j) /\ UpTo(j)' = UpTo(j)
      /\ Degrees' = Degrees /\ InitParent' = InitParent
  BY <1>1, SameGraph
<1>3. /\ stage = "decide" /\ Frontier = Level(k) /\ Visited = UpTo(k) /\ end = in
      /\ todo' = Window /\ stage' \in {"td", "queueToBitmap"}
  BY DEF LevelInv, GoTopDown, GoBottomUp, Queueing
<1>4. \A t \in Threads : pc[t] = "idle" /\ v[t] = NoNode /\ buf[t] = <<>>
  BY <1>3, Calm DEF Queueing
<1>5. Frontier' = Frontier /\ Visited' = Visited
  BY <1>1 DEF Frontier, Window, Visited
<1>6. \A p \in Level(k) : \E i \in todo' : slots'[i] = p
  BY <1>1, <1>3 DEF Frontier
<1>7. /\ front' \subseteq UpTo(k)' /\ end' = in'
      /\ \A n \in V : n \in Visited' \/ parent'[n] = InitParent'[n]
  BY <1>1, <1>2, <1>3, <1>5 DEF LevelInv
<1>8. CASE GoTopDown
  <2>1. stage' = "td" /\ scout' = 0
    BY <1>8 DEF GoTopDown
  <2>2. Reached(k)' = {}
    BY <1>0, <1>2, <1>3, <1>5 DEF Reached
  <2>3. Between(k)'
    BY <1>0, <1>2, <1>3, <1>5 DEF Between
  <2>4. \A n \in V : ~Fresh(n)'
    <3>1. \A n : ~Fresh(n)
      BY <1>3, <1>4, NothingFresh
    <3>. QED BY <1>1, <3>1 DEF Fresh, InSlot, InBuf, InHand, Copying
  <2>5. \A t \in Threads : HeldInv(t, k)'
    BY <1>1, <1>4 DEF HeldInv, Scanning
  <2>6. \A p \in Level(k) : \A n : Owed(p, n)'
    BY <1>6 DEF Owed
  <2>7. Total(Degrees, {}) = 0
    BY <1>0, TotalFacts
  <2>8. TopDownInv(k)'
    BY <1>2, <1>3, <1>5, <2>1, <2>2, <2>3, <2>4, <2>5, <2>6, <2>7 DEF TopDownInv
  <2>. QED BY <1>7, <2>1, <2>8 DEF LevelInv
<1>9. CASE GoBottomUp
  <2>1. stage' = "queueToBitmap"
    BY <1>9 DEF GoBottomUp
  <2>2. MarkInv(k)'
    BY <1>1, <1>2, <1>3, <1>4, <1>5, <1>6 DEF MarkInv
  <2>. QED BY <1>7, <2>1, <2>2 DEF LevelInv
<1>. QED BY <1>8, <1>9

(* All edges out of the level have been looked at.                         *)
LEMMA TopDownEnds ==
  ASSUME IInv, NEW k \in Nat, LevelInv(k), stage = "td", AllAt("arrived")
  PROVE  Visited = UpTo(k + 1) /\ Reached(k) = Level(k + 1)
<1>0. IsGraph(g) /\ source \in V
  BY GraphType
<1>1. TopDownInv(k) /\ Between(k)
  BY DEF LevelInv, TopDownInv
<1>2. \A p, n : ~Owed(p, n)
  BY Calm DEF AllAt, Owed, Looking, Scanning
<1>3. Level(k + 1) \subseteq Visited
  <2>. SUFFICES ASSUME NEW n \in Level(k + 1) PROVE n \in Visited
    OBVIOUS
  <2>1. PICK p \in Level(k) : n \in Elems(g.out[p])
    BY <1>0, LevelFacts
  <2>. QED BY <1>1, <1>2, <2>1 DEF TopDownInv
<1>. QED BY <1>0, <1>1, <1>3, LevelFacts DEF Between, Reached

LEMMA EndTopDownStep ==
  ASSUME IInv, NEW k \in Nat, LevelInv(k), EndTopDown
  PROVE  LevelInv(k + 1)'
<1>0. IsGraph(g) /\ source \in V /\ UpTo(k) \subseteq UpTo(k + 1) /\ k + 1 \in Nat
  BY GraphType, LevelFacts
<1>1. /\ UNCHANGED <<args, parent, slots, in, front>> /\ start' = end /\ end' = in
      /\ stage = "td" /\ stage' = "decide" /\ AllAt("arrived")
  BY DEF EndTopDown, SlideWindow
<1>2. /\ \A j : Level(j)' = Level(j) /\ UpTo(j)' = UpTo(j)
      /\ InitParent' = InitParent
  BY <1>1, SameGraph
<1>3. Visited = UpTo(k + 1) /\ Reached(k) = Level(k + 1)
  BY <1>1, TopDownEnds
<1>4. Frontier' = {n \in V : Fresh(n)}
  <2>1. Frontier' = {slots[i] : i \in end .. in - 1}
    BY <1>1 DEF Frontier, Window
  <2>. QED BY <1>1, <2>1, AllFresh DEF AllAt, Queueing
<1>5. \A n \in V : Fresh(n) <=> n \in Level(k + 1)
  BY <1>1, <1>3 DEF LevelInv, TopDownInv
<1>6. Level(k + 1) \subseteq V
  BY DEF Level
<1>7. Frontier' = Level(k + 1) /\ Visited' = UpTo(k + 1)
  BY <1>1, <1>3, <1>4, <1>5, <1>6 DEF Visited
<1>8. /\ front' \subseteq UpTo(k + 1) /\ end' = in'
      /\ \A n \in V : n \in Visited' \/ parent'[n] = InitParent[n]
  BY <1>0, <1>1, <1>3, <1>7 DEF LevelInv
<1>. QED BY <1>1, <1>2, <1>7, <1>8 DEF LevelInv

LEMMA StartBottomUpStep ==
  ASSUME IInv, NEW k \in Nat, NEW c, StartBottomUp(c),
         Visited = UpTo(k), UNCHANGED <<args, parent, pc, u>>, Level(k) \subseteq front',
         \A t \in Threads : pc[t] = "idle"
  PROVE  BottomUpInv(k)'
<1>0. /\ IsGraph(g) /\ source \in V
      /\ UpTo(k + 1) = UpTo(k) \cup Level(k + 1) /\ UpTo(k) \cap Level(k + 1) = {}
  BY GraphType, LevelFacts
<1>1. \A j : Level(j)' = Level(j) /\ UpTo(j)' = UpTo(j)
  BY SameGraph
<1>2. awake' = 0 /\ curr' = {} /\ todo' = {ChunkOf(n) : n \in V}
  BY DEF StartBottomUp, ChunkOf
<1>3. Visited' = UpTo(k) /\ Reached(k)' = {}
  BY <1>0, <1>1 DEF Reached, Visited
<1>4. Between(k)'
  BY <1>0, <1>1, <1>3 DEF Between
<1>5. ChunksApart' /\ Bits(k)'
  BY <1>2, <1>3 DEF ChunksApart, Bits, Setting
<1>6. \A n \in Level(k + 1) : ToVisit(n)'
  BY <1>2 DEF ToVisit, ChunkOf, Level
<1>7. Cardinality({}) = 0
  BY FS_EmptySet
<1>. QED BY <1>1, <1>2, <1>3, <1>4, <1>5, <1>6, <1>7 DEF BottomUpInv

LEMMA MarkEnds ==
  ASSUME IInv, NEW k \in Nat, LevelInv(k), EndQueueToBitmap
  PROVE  LevelInv(k)'
<1>0. \A t \in Threads : pc[t] = "idle"
  BY DEF EndQueueToBitmap, AllAt
<1>1. /\ UNCHANGED <<args, parent, in, front, pc, u>> /\ end' = in /\ todo = {}
      /\ stage = "queueToBitmap" /\ StartBottomUp(end - start) /\ stage' = "bu"
  BY DEF EndQueueToBitmap, SlideWindow, AllAt, StartBottomUp
<1>2. MarkInv(k) /\ front \subseteq UpTo(k)
  BY <1>1 DEF LevelInv
<1>3. Level(k) \subseteq front'
  BY <1>0, <1>1, <1>2 DEF MarkInv
<1>4. BottomUpInv(k)'
  BY <1>0, <1>1, <1>2, <1>3, StartBottomUpStep DEF MarkInv
<1>5. UpTo(k)' = UpTo(k) /\ InitParent' = InitParent /\ Visited' = Visited
  BY <1>1, SameGraph DEF Visited
<1>. QED BY <1>1, <1>2, <1>4, <1>5 DEF LevelInv

(* Every chunk has been visited and every bit set.                         *)
LEMMA BottomUpEnds ==
  ASSUME IInv, NEW k \in Nat, LevelInv(k), stage = "bu", AllAt("idle")
  PROVE  /\ Visited = UpTo(k + 1) /\ Reached(k) = Level(k + 1) /\ curr = Level(k + 1)
         /\ awake = Cardinality(curr)
<1>0. IsGraph(g) /\ source \in V
  BY GraphType
<1>1. BottomUpInv(k)
  BY DEF LevelInv
<1>2. Level(k + 1) \subseteq Visited
  BY <1>1 DEF BottomUpInv, ToVisit, AllAt
<1>3. Visited = UpTo(k + 1) /\ Reached(k) = Level(k + 1)
  BY <1>0, <1>1, <1>2, LevelFacts DEF BottomUpInv, Between, Reached
<1>4. curr = Reached(k)
  BY <1>1 DEF BottomUpInv, Bits, Setting, AllAt
<1>. QED BY <1>1, <1>3, <1>4 DEF BottomUpInv

LEMMA EndBottomUpStep ==
  ASSUME IInv, NEW k \in Nat, LevelInv(k), EndBottomUp
  PROVE  LevelInv(k + 1)'
<1>0. /\ IsGraph(g) /\ source \in V /\ k + 1 \in Nat
      /\ Level(k + 1) \subseteq UpTo(k + 1) /\ Level(k + 1) \subseteq V
  BY GraphType, LevelFacts DEF Level
<1>1. /\ UNCHANGED <<args, parent, slots, in, start, end, pc, u, v, buf, pos>>
      /\ stage = "bu" /\ AllAt("idle") /\ front' = curr
  BY DEF EndBottomUp, queue
<1>2. /\ \A j : Level(j)' = Level(j) /\ UpTo(j)' = UpTo(j)
      /\ InitParent' = InitParent /\ Visited' = Visited
  BY <1>1, SameGraph DEF Visited
<1>3. Visited = UpTo(k + 1) /\ curr = Level(k + 1)
  BY <1>1, BottomUpEnds
<1>4. end' = in' /\ \A n \in V : n \in Visited' \/ parent'[n] = InitParent[n]
  BY <1>1, <1>2 DEF LevelInv, Queueing
<1>5. CASE StartBottomUp(awake)
  <2>1. BottomUpInv(k + 1)' /\ stage' = "bu"
    BY <1>0, <1>1, <1>3, <1>5, StartBottomUpStep DEF AllAt, StartBottomUp
  <2>. QED BY <1>0, <1>1, <1>2, <1>3, <1>4, <2>1 DEF LevelInv
<1>6. CASE stage' = "bitmapToQueue" /\ todo' = V
  <2>1. \A n : ~Fresh(n)
    BY <1>1, <1>4, Calm, NothingFresh DEF AllAt, Queueing
  <2>2. \A n \in V : ~Fresh(n)'
    BY <1>1, <2>1 DEF Fresh, InSlot, InBuf, InHand, Copying
  <2>3. GatherInv(k + 1)'
    BY <1>0, <1>1, <1>2, <1>3, <1>6, <2>2 DEF GatherInv
  <2>. QED BY <1>0, <1>1, <1>2, <1>3, <1>4, <1>6, <2>3 DEF LevelInv
<1>. QED BY <1>5, <1>6 DEF EndBottomUp

LEMMA EndGatherStep ==
  ASSUME IInv, NEW k \in Nat, LevelInv(k), EndBitmapToQueue
  PROVE  LevelInv(k)'
<1>0. Level(k) \subseteq V
  BY DEF Level
<1>1. /\ UNCHANGED <<args, parent, slots, in, front>> /\ start' = end /\ end' = in
      /\ stage = "bitmapToQueue" /\ stage' = "decide" /\ AllAt("arrived")
  BY DEF EndBitmapToQueue, SlideWindow
<1>2. /\ Level(k)' = Level(k) /\ UpTo(k)' = UpTo(k)
      /\ InitParent' = InitParent /\ Visited' = Visited
  BY <1>1, SameGraph DEF Visited
<1>3. Frontier' = {n \in V : Fresh(n)}
  <2>1. Frontier' = {slots[i] : i \in end .. in - 1}
    BY <1>1 DEF Frontier, Window
  <2>. QED BY <1>1, <2>1, AllFresh DEF AllAt, Queueing
<1>4. \A n \in V : Fresh(n) <=> n \in Level(k)
  BY <1>1 DEF LevelInv, GatherInv, AllAt
<1>5. Frontier' = Level(k)
  BY <1>0, <1>3, <1>4
<1>. QED BY <1>1, <1>2, <1>5 DEF LevelInv, GatherInv
-----------------------------------------------------------------------------
LEMMA LevelStep ==
  ASSUME IInv, LevelsInv, [Next]_vars
  PROVE  LevelsInv'
<1>1. CASE UNCHANGED vars
  <2>1. UNCHANGED <<args, stage, pc, pos, buf, front, parent, end, in, start, slots, todo, scout,
                    u, v, cv, nbrs, word, curr, awake>>
    BY <1>1 DEF vars, queue, counters
  <2>2. CopyApart'
    BY <2>1 DEF LevelsInv, CopyApart, Copying
  <2>3. ASSUME NEW k \in Nat, LevelInv(k) PROVE LevelInv(k)'
    <3>1. /\ Level(k)' = Level(k) /\ UpTo(k)' = UpTo(k) /\ Level(k + 1)' = Level(k + 1)
          /\ UpTo(k + 1)' = UpTo(k + 1) /\ Degrees' = Degrees /\ InitParent' = InitParent /\ g' = g
      BY <2>1, SameGraph
    <3>2. Visited' = Visited /\ Frontier' = Frontier
      BY <2>1 DEF Visited, Frontier, Window
    <3>3. Reached(k)' = Reached(k) /\ (Between(k)' <=> Between(k))
      BY <3>1, <3>2 DEF Reached, Between
    <3>4. \A n \in V : Fresh(n)' <=> Fresh(n)
      BY <2>1 DEF Fresh, InSlot, InBuf, InHand, Copying
    <3>5. TopDownInv(k) => TopDownInv(k)'
      <4>1. \A t \in Threads : HeldInv(t, k)' <=> HeldInv(t, k)
        BY <2>1, <3>1, <3>2 DEF HeldInv, Scanning
      <4>2. \A p, n : Owed(p, n)' <=> Owed(p, n)
        BY <2>1 DEF Owed, Looking, Scanning
      <4>. QED BY <2>1, <3>1, <3>2, <3>3, <3>4, <4>1, <4>2 DEF TopDownInv
    <3>6. MarkInv(k) => MarkInv(k)'
      BY <2>1, <3>1, <3>2 DEF MarkInv
    <3>7. BottomUpInv(k) => BottomUpInv(k)'
      <4>1. (ChunksApart' <=> ChunksApart) /\ (Bits(k)' <=> Bits(k))
        BY <2>1, <3>3 DEF ChunksApart, Bits, ChunkOf, Setting, WordOf
      <4>2. \A n : ToVisit(n)' <=> ToVisit(n)
        BY <2>1 DEF ToVisit, ChunkOf
      <4>. QED BY <2>1, <3>1, <3>2, <3>3, <4>1, <4>2 DEF BottomUpInv
    <3>8. GatherInv(k) => GatherInv(k)'
      BY <2>1, <3>1, <3>2, <3>4 DEF GatherInv
    <3>. QED BY <2>1, <2>3, <3>1, <3>2, <3>5, <3>6, <3>7, <3>8 DEF LevelInv
  <2>. QED BY <2>1, <2>2, <2>3 DEF LevelsInv
<1>2. CASE stage = "done" /\ Next
  <2>1. TypeOK /\ \A t \in Threads : ThreadInv(t)
    BY DEF IInv, ShapeInv
  <2>2. \A t \in Threads : ~ThreadStep(t)
    BY <1>2, <2>1 DEF ThreadStep, ThreadInv, Regions, Claim, LeaveLoop, ReadParent, EndScan,
                      CasParent, Push, Reserve, Copy, Visit, ReadWord, SetBit, SetBitAtomic
  <2>3. ~Program
    BY <1>2 DEF Program, GoTopDown, GoBottomUp, Return, EndTopDown, EndQueueToBitmap,
                EndBottomUp, EndBitmapToQueue
  <2>. QED BY <1>1, <1>2, <2>2, <2>3 DEF Next, Terminated
<1>3. CASE stage # "done" /\ Next
  <2>1. PICK k \in Nat : LevelInv(k)
    BY <1>3 DEF LevelsInv
  <2>2. CopyApart
    BY DEF LevelsInv
  <2>3. CASE \E t \in Threads : ThreadStep(t)
    <3>1. PICK t \in Threads : ThreadStep(t)
      BY <2>3
    <3>2. stage \in Regions
      <4>1. ThreadInv(t) /\ TypeOK
        BY DEF IInv, ShapeInv
      <4>. QED BY <1>3, <3>1, <4>1 DEF ThreadStep, ThreadInv, TypeOK, Claim, LeaveLoop, ReadParent,
               EndScan, CasParent, Push, Reserve, Copy, Visit, ReadWord, SetBit, SetBitAtomic
    <3>3. LevelInv(k)' /\ CopyApart'
      BY <2>1, <2>2, <3>1, <3>2, TopDownThread, MarkThread, GatherThread, BottomUpThread
      DEF Regions
    <3>. QED BY <2>1, <3>3 DEF LevelsInv
  <2>4. CASE Program
    <3>1. CopyApart'
      BY <2>2, <2>4, ProgramPlaces DEF CopyApart, Copying
    <3>2. stage' = "done" \/ \E j \in Nat : LevelInv(j)'
      <4>1. k \in Nat /\ k + 1 \in Nat
        OBVIOUS
      <4>2. CASE GoTopDown \/ GoBottomUp
        BY <2>1, <4>2, DecideStep
      <4>3. CASE Return
        BY <4>3 DEF Return
      <4>4. CASE EndTopDown
        BY <2>1, <4>1, <4>4, EndTopDownStep
      <4>5. CASE EndQueueToBitmap
        BY <2>1, <4>5, MarkEnds
      <4>6. CASE EndBottomUp
        BY <2>1, <4>1, <4>6, EndBottomUpStep
      <4>7. CASE EndBitmapToQueue
        BY <2>1, <4>7, EndGatherStep
      <4>. QED BY <2>4, <4>2, <4>3, <4>4, <4>5, <4>6, <4>7 DEF Program
    <3>. QED BY <3>1, <3>2 DEF LevelsInv
  <2>. QED BY <1>1, <1>3, <2>3, <2>4 DEF Next, Terminated
<1>. QED BY <1>1, <1>2, <1>3

(* In every reachable state that is not the last the search is at some     *)
(* level, of which no vertex is lost or doubled on the way from the queue  *)
(* over the buffers and bitmaps back to the queue.                         *)
THEOREM LevelInvariance == Spec => [](IInv /\ LevelsInv)
<1>1. Init => IInv /\ LevelsInv
  BY InitInv, InitLevel
<1>2. Spec => []IInv
  BY Invariance
<1>3. IInv /\ IInv' /\ LevelsInv /\ [Next]_vars => LevelsInv'
  BY LevelStep
<1>. QED BY <1>1, <1>2, <1>3, PTL DEF Spec
-----------------------------------------------------------------------------
(***************************************************************************)
(* What the levels say of the queue, the bitmap and the counts.            *)
(***************************************************************************)
(* Where no copy is underway, no two slots hold the same vertex.           *)
LEMMA SlotsDistinct ==
  ASSUME IInv, \A t \in Threads : pc[t] # "copy"
  PROVE  \A i, j \in 0 .. in - 1 : slots[i] \in V /\ (slots[i] = slots[j] => i = j)
<1>1. in \in Nat
  BY Calm
<1>2. \A i \in 0 .. in - 1 : \A n : InSlot(i, n) <=> slots[i] = n
  BY DEF InSlot, Copying
<1>3. \A i \in 0 .. in - 1 : slots[i] \in V
  BY <1>2 DEF IInv, PlaceInv
<1>4. ASSUME NEW i \in 0 .. in - 1, NEW j \in 0 .. in - 1, slots[i] = slots[j]
      PROVE  i = j
  <2>1. i \in Nat /\ j \in Nat /\ InSlot(i, slots[i]) /\ InSlot(j, slots[i])
    BY <1>1, <1>2, <1>4
  <2>. QED BY <1>3, <2>1 DEF IInv, PlaceInv, AtOnePlace
<1>. QED BY <1>3, <1>4

LEMMA WindowCount ==
  ASSUME IInv, \A t \in Threads : pc[t] # "copy"
  PROVE  Cardinality(Frontier) = end - start
<1>1. start \in Nat /\ end \in Nat /\ in \in Nat /\ start <= end /\ end <= in
  BY Calm DEF IInv, ShapeInv
<1>2. \A i \in Window : i \in 0 .. in - 1
  BY <1>1 DEF Window
<1>. DEFINE f == [i \in Window |-> slots[i]]
<1>3. f \in Bijection(Window, Frontier)
  <2>1. f \in [Window -> Frontier]
    BY DEF Frontier
  <2>2. \A i, j \in Window : f[i] = f[j] => i = j
    BY <1>2, SlotsDistinct
  <2>3. \A n \in Frontier : \E i \in Window : f[i] = n
    BY DEF Frontier
  <2>. HIDE DEF f
  <2>4. f \in Injection(Window, Frontier)
    BY <2>1, <2>2, Zenon DEF Injection, IsInjective
  <2>5. f \in Surjection(Window, Frontier)
    BY <2>1, <2>3, Zenon DEF Surjection
  <2>. QED BY <2>4, <2>5 DEF Bijection
<1>4. IsFiniteSet(Window) /\ Cardinality(Window) = end - start
  <2>1. /\ IsFiniteSet(start .. end - 1)
        /\ Cardinality(start .. end - 1) = IF start > end - 1 THEN 0 ELSE (end - 1) - start + 1
    BY <1>1, FS_Interval
  <2>2. (IF start > end - 1 THEN 0 ELSE (end - 1) - start + 1) = end - start
    BY <1>1
  <2>. QED BY <2>1, <2>2 DEF Window
<1>5. ExistsBijection(Window, Frontier)
  BY <1>3 DEF ExistsBijection
<1>. QED BY <1>4, <1>5, FS_Bijection

LEMMA WindowHolds ==
  ASSUME IInv, LevelsInv
  PROVE  WindowIsLevel
<1>. SUFFICES ASSUME stage = "decide" PROVE WindowIsLevel
  BY DEF WindowIsLevel
<1>1. PICK k \in Nat : LevelInv(k)
  BY DEF LevelsInv
<1>2. Frontier = Level(k) /\ Visited = UpTo(k)
  BY <1>1 DEF LevelInv
<1>3. PICK j \in 0 .. NumNodes : Level(j) = Level(k) /\ UpTo(j) = UpTo(k)
  BY GraphType, LevelBound
<1>4. Cardinality(Frontier) = end - start
  BY Calm, WindowCount
<1>5. Frontier = {n \in V : Hops[n] = j /\ j # Unreachable}
  BY <1>2, <1>3 DEF Level
<1>6. Visited = {n \in V : Hops[n] <= j /\ Hops[n] # Unreachable}
  BY <1>2, <1>3 DEF UpTo
<1>. QED BY <1>3, <1>4, <1>5, <1>6 DEF WindowIsLevel, Hops

LEMMA BitsHold ==
  ASSUME IInv, LevelsInv
  PROVE  NoBitLost
<1>. SUFFICES ASSUME stage = "bu", AllAt("idle") PROVE NoBitLost
  BY DEF NoBitLost
<1>1. PICK k \in Nat : LevelInv(k)
  BY DEF LevelsInv
<1>2. Visited = UpTo(k + 1) /\ curr = Level(k + 1) /\ awake = Cardinality(curr)
  BY <1>1, BottomUpEnds
<1>3. PICK j \in 0 .. NumNodes : Level(j) = Level(k + 1) /\ UpTo(j) = UpTo(k + 1)
  <2>1. k + 1 \in Nat
    OBVIOUS
  <2>. QED BY <2>1, GraphType, LevelBound
<1>4. curr = {n \in V : Hops[n] = j /\ j # Unreachable}
  BY <1>2, <1>3 DEF Level
<1>5. Visited = {n \in V : Hops[n] <= j /\ Hops[n] # Unreachable}
  BY <1>2, <1>3 DEF UpTo
<1>. QED BY <1>2, <1>3, <1>4, <1>5 DEF NoBitLost, Hops

(* The sum along the slots is that over the vertices in them.              *)
Upto(i) == {slots[j] : j \in end .. i - 1}

LEMMA NextSlot ==
  ASSUME IInv, \A t \in Threads : pc[t] # "copy", NEW i \in end .. in - 1
  PROVE  /\ Upto(i + 1) = Upto(i) \cup {slots[i]} /\ slots[i] \in V \ Upto(i)
         /\ Total(Degrees, Upto(i + 1)) = Total(Degrees, Upto(i)) + ScoutOf(slots[i])
<1>1. end \in Nat /\ in \in Nat /\ i \in Int
  BY Calm
<1>2. i \in 0 .. in - 1 /\ \A j \in end .. i - 1 : j \in 0 .. in - 1 /\ j # i
  BY <1>1
<1>3. end .. (i + 1) - 1 = (end .. i - 1) \cup {i}
  BY <1>1
<1>4. Upto(i + 1) = Upto(i) \cup {slots[i]}
  BY <1>3 DEF Upto
<1>5. slots[i] \in V \ Upto(i)
  BY <1>2, SlotsDistinct DEF Upto
<1>6. Degrees[slots[i]] = ScoutOf(slots[i])
  BY <1>5 DEF Degrees
<1>7. Degrees \in [V -> Nat]
  BY GraphType
<1>. QED BY <1>4, <1>5, <1>6, <1>7, TotalFacts

LEMMA ScoutHolds ==
  ASSUME IInv, LevelsInv
  PROVE  ScoutCountsFrontier
<1>. SUFFICES ASSUME stage = "td", AllAt("arrived") PROVE ScoutCountsFrontier
  BY DEF ScoutCountsFrontier
<1>1. PICK k \in Nat : LevelInv(k)
  BY DEF LevelsInv
<1>2. end \in Nat /\ in \in Nat /\ end <= in /\ \A t \in Threads : pc[t] # "copy"
  BY Calm DEF IInv, ShapeInv, AllAt
<1>3. scout = Total(Degrees, Upto(in))
  <2>1. scout = Total(Degrees, Reached(k)) /\ \A n \in V : Fresh(n) <=> n \in Reached(k)
    BY <1>1 DEF LevelInv, TopDownInv
  <2>2. Upto(in) = {n \in V : Fresh(n)}
    BY AllFresh DEF Upto, Queueing, AllAt
  <2>3. Reached(k) \subseteq V
    BY DEF Reached, Visited
  <2>. QED BY <2>1, <2>2, <2>3
<1>. DEFINE Sums(f) == [i \in end .. in |-> IF i = end THEN 0 ELSE f[i - 1] + ScoutOf(slots[i - 1])]
            f == [i \in end .. in |-> Total(Degrees, Upto(i))]
<1>4. Total(Degrees, Upto(end)) = 0
  <2>1. Upto(end) = {}
    BY <1>2 DEF Upto
  <2>. QED BY <2>1, GraphType, TotalFacts
<1>5. f = Sums(f)
  <2>1. ASSUME NEW i \in end .. in
        PROVE  f[i] = IF i = end THEN 0 ELSE f[i - 1] + ScoutOf(slots[i - 1])
    <3>1. CASE i = end
      BY <1>2, <1>4, <3>1
    <3>2. CASE i # end
      <4>1. i - 1 \in end .. in - 1 /\ i - 1 \in end .. in /\ (i - 1) + 1 = i
        BY <1>2, <3>2
      <4>2. Total(Degrees, Upto(i)) = Total(Degrees, Upto(i - 1)) + ScoutOf(slots[i - 1])
        BY <1>2, <4>1, NextSlot
      <4>. QED BY <3>2, <4>1, <4>2
    <3>. QED BY <3>1, <3>2
  <2>. QED BY <2>1
<1>. DEFINE sum == CHOOSE w : w = Sums(w)
<1>. HIDE DEF f
<1>6. sum = Sums(sum)
  BY <1>5, Zenon
<1>. HIDE DEF sum
<1>. DEFINE S == {l \in Nat : end + l <= in => sum[end + l] = f[end + l]}
<1>7. S = Nat
  <2>1. 0 \in S
    <3>1. end \in end .. in /\ end + 0 = end
      BY <1>2
    <3>2. sum[end] = 0 /\ f[end] = 0
      BY <1>5, <1>6, <3>1
    <3>. QED BY <3>1, <3>2
  <2>2. ASSUME NEW l \in S PROVE l + 1 \in S
    <3>. SUFFICES ASSUME end + (l + 1) <= in PROVE sum[end + (l + 1)] = f[end + (l + 1)]
      OBVIOUS
    <3>1. PICK i \in Nat : i = end + l /\ i + 1 = end + (l + 1) /\ i + 1 \in end .. in
      BY <1>2
    <3>2. sum[i] = f[i]
      BY <1>2, <3>1
    <3>3. (i + 1) - 1 = i /\ i + 1 # end
      BY <1>2, <3>1
    <3>4. sum[i + 1] = sum[i] + ScoutOf(slots[i]) /\ f[i + 1] = f[i] + ScoutOf(slots[i])
      BY <1>5, <1>6, <3>1, <3>3
    <3>. QED BY <3>1, <3>2, <3>4
  <2>3. S \subseteq Nat /\ \A l \in S : l + 1 \in S
    BY <2>2
  <2>. HIDE DEF S
  <2>. QED BY <2>1, <2>3, Induction
<1>8. sum[in] = Total(Degrees, Upto(in))
  <2>1. \A l \in Nat : end + l <= in => sum[end + l] = f[end + l]
    BY <1>7
  <2>2. in - end \in Nat /\ end + (in - end) = in /\ in \in end .. in
    BY <1>2
  <2>3. sum[in] = f[in]
    BY <1>2, <2>1, <2>2
  <2>. QED BY <2>2, <2>3 DEF f
<1>9. scout = sum[in]
  BY <1>3, <1>8
<1>. QED BY <1>9, Zenon DEF ScoutCountsFrontier, sum

(* Whenever a direction is chosen the window of the queue, and after every *)
(* bottom-up step the bitmap, holds exactly the level just completed, and  *)
(* scout_count and awake_count are the counts of that level that the       *)
(* choice is meant to be made by: no vertex is lost between the CAS races, *)
(* buffers and bitmap words of any number of threads.                      *)
THEOREM LevelsAreExact == Spec => []LevelsExact
<1>1. IInv /\ LevelsInv => LevelsExact
  BY WindowHolds, BitsHold, ScoutHolds DEF LevelsExact
<1>. QED BY <1>1, LevelInvariance, PTL
-----------------------------------------------------------------------------
(***************************************************************************)
(* The tree.  A vertex joins it when its parent is set.                    *)
(***************************************************************************)
TreeOf == [n \in V |-> IF parent[n] >= 0 THEN parent[n] ELSE NoNode]

(* The abstract specification's names, which no substitution changes.      *)
LEMMA TreeReference ==
  /\ Tree!V = V /\ Tree!NoParent = NoNode
  /\ \A gr : Tree!IsGraph(gr) <=> IsGraph(gr)
  /\ \A gr, s : Tree!Ball(gr, s) = Ball(gr, s)
  /\ \A gr, s : Tree!Depth(gr, s) = Depth(gr, s)
  /\ \A s : Tree!Elems(s) = Elems(s)
<1>1. Tree!V = V /\ Tree!NoParent = NoNode
  BY DEF Tree!V, V, Tree!NoParent, NoNode
<1>2. \A s : Tree!Elems(s) = Elems(s)
  BY DEF Tree!Elems, Elems
<1>3. \A gr : Tree!IsGraph(gr) <=> IsGraph(gr)
  BY <1>1, <1>2 DEF Tree!IsGraph, IsGraph
<1>4. \A gr, s : Tree!Ball(gr, s) = Ball(gr, s)
  BY Zenon DEF Tree!Ball, Ball, Tree!Elems, Elems
<1>5. \A gr, s : Tree!Depth(gr, s) = Depth(gr, s)
  BY Zenon DEF Tree!Depth, Depth, Tree!Ball, Ball, Tree!Elems, Elems, Tree!V, V,
               Tree!Unreachable, Unreachable
<1>. QED BY <1>1, <1>2, <1>3, <1>4, <1>5

LEMMA TreeVertices ==
  ASSUME parent \in [V -> Int]
  PROVE  \A n \in V : Tree!InTree(n) <=> n \in Visited
<1>1. \A n \in V : TreeOf[n] # NoNode <=> parent[n] >= 0
  BY DEF TreeOf, NoNode
<1>. QED BY <1>1, TreeReference DEF Tree!InTree, TreeOf, Visited

LEMMA InitTree == Init => Tree!Init
<1>. SUFFICES ASSUME Init PROVE Tree!Init
  OBVIOUS
<1>1. IsGraph(g) /\ source \in V /\ stage = "decide" /\ source \in Nat
  BY InitInv, GraphType, VFacts DEF Init
<1>2. InitParent \in [V -> Int] /\ \A n \in V : InitParent[n] < 0
  BY InitInv, GraphType
<1>3. TreeOf = [n \in V |-> IF n = source THEN source ELSE NoNode]
  <2>1. parent = [InitParent EXCEPT ![source] = source]
    BY DEF Init
  <2>2. \A n \in V : parent[n] = IF n = source THEN source ELSE InitParent[n]
    BY <1>1, <1>2, <2>1
  <2>3. \A n \in V : TreeOf[n] = IF n = source THEN source ELSE NoNode
    BY <1>1, <1>2, <2>2 DEF TreeOf
  <2>. QED BY <2>3 DEF TreeOf
<1>. QED BY <1>1, <1>3, TreeReference DEF Tree!Init, TreeOf

(* A vertex of the next level joins below one of the level.                *)
LEMMA Joins ==
  ASSUME IInv, NEW k \in Nat, UpTo(k) \subseteq Visited, stage # "done", stage' = stage,
         UNCHANGED args,
         NEW n \in Level(k + 1) \ Visited, NEW p \in Level(k), p \in Elems(g.in[n]),
         parent' = [parent EXCEPT ![n] = p]
  PROVE  Tree!Next
<1>0. IsGraph(g) /\ source \in V /\ parent \in [V -> Int]
  BY GraphType
<1>1. n \in V /\ p \in V /\ p \in Nat /\ p \in Visited
  BY <1>0, LevelFacts, VFacts DEF Level
<1>2. TreeOf' = [TreeOf EXCEPT ![n] = p]
  <2>1. \A m \in V : parent'[m] = IF m = n THEN p ELSE parent[m]
    BY <1>0, <1>1
  <2>2. \A m \in V : TreeOf'[m] = IF m = n THEN p ELSE TreeOf[m]
    BY <1>1, <2>1 DEF TreeOf
  <2>. QED BY <1>1, <2>2 DEF TreeOf
<1>3. ~Tree!InTree(n) /\ Tree!InTree(p)
  BY <1>0, <1>1, TreeVertices
<1>4. /\ Hops \in [V -> 0 .. NumNodes] /\ NumNodes \in Nat
      /\ Hops[n] = k + 1 /\ Hops[p] = k /\ k # NumNodes
  BY <1>0, DepthFacts, NumNodesAssumption DEF Level, Hops, Unreachable
<1>5. Hops[n] = Hops[p] + 1
  BY <1>4
<1>6. \A m \in V : Hops[m] <= Hops[p] => Tree!InTree(m)
  <2>. SUFFICES ASSUME NEW m \in V, Hops[m] <= Hops[p] PROVE Tree!InTree(m)
    OBVIOUS
  <2>1. Hops[m] <= k /\ Hops[m] # NumNodes
    BY <1>1, <1>4
  <2>2. m \in UpTo(k)
    BY <2>1 DEF UpTo, Unreachable
  <2>. QED BY <1>0, <2>2, TreeVertices
<1>7. Tree!Join(n, p)
  BY <1>2, <1>3, <1>5, <1>6, TreeReference DEF Tree!Join, Hops, TreeOf, args
<1>. QED BY <1>1, <1>7, TreeReference DEF Tree!Next

(* The search returns when the tree has all that can be reached.           *)
LEMMA Finishes ==
  ASSUME IInv, LevelsInv, Return
  PROVE  Tree!Next
<1>0. IsGraph(g) /\ source \in V /\ parent \in [V -> Int]
  BY GraphType
<1>1. stage = "decide" /\ stage' = "done" /\ start = end /\ UNCHANGED args
  BY DEF Return
<1>2. PICK k \in Nat : Frontier = Level(k) /\ Visited = UpTo(k)
  BY <1>1 DEF LevelsInv, LevelInv
<1>3. Frontier = {}
  <2>1. Window = {}
    BY <1>1, Calm DEF Window
  <2>. QED BY <2>1 DEF Frontier
<1>4. Visited = Ball(g, source)[NumNodes]
  BY <1>0, <1>2, <1>3, LastLevel
<1>5. {n \in V : Tree!InTree(n)} = Visited
  BY <1>0, TreeVertices DEF Visited
<1>6. TreeOf' = TreeOf
  <2>1. \A n \in V : parent'[n] = IF parent[n] < -1 THEN -1 ELSE parent[n]
    BY DEF Return
  <2>2. \A n \in V : TreeOf'[n] = TreeOf[n]
    BY <1>0, <2>1 DEF TreeOf, NoNode
  <2>. QED BY <2>2 DEF TreeOf
<1>7. Tree!Finish
  BY <1>1, <1>4, <1>5, <1>6, TreeReference DEF Tree!Finish, TreeOf, args
<1>. QED BY <1>7 DEF Tree!Next

(* All other steps leave the tree as it is.                                *)
LEMMA TreeStays ==
  ASSUME UNCHANGED <<args, parent>>, stage' = "done" <=> stage = "done"
  PROVE  UNCHANGED <<g, source, TreeOf, stage = "done">>
BY DEF args, TreeOf

LEMMA TreeStep ==
  ASSUME IInv, LevelsInv, [Next]_vars
  PROVE  [Tree!Next]_<<g, source, TreeOf, stage = "done">>
<1>0. IsGraph(g) /\ source \in V /\ TypeOK
  BY GraphType
<1>1. CASE UNCHANGED vars
  BY <1>1, TreeStays DEF vars
<1>2. ASSUME NEW t \in Threads, ThreadStep(t)
      PROVE  [Tree!Next]_<<g, source, TreeOf, stage = "done">>
  <2>1. ThreadInv(t) /\ UNCHANGED args /\ stage' = stage
    BY <1>0, <1>2, OneThread DEF IInv, ShapeInv
  <2>2. CASE CasParent(t)
    <3>1. stage = "td" /\ pc[t] = "cas"
      BY <2>1, <2>2 DEF CasParent, ThreadInv
    <3>2. PICK k \in Nat : LevelInv(k)
      BY <3>1 DEF LevelsInv
    <3>3. CASE Wins(t)
      <4>1. /\ v[t] \in Level(k + 1) \ Visited /\ v[t] \in V
            /\ parent' = [parent EXCEPT ![v[t]] = u[t]] /\ u[t] \in Level(k) /\ u[t] \in V
            /\ v[t] \in Elems(g.out[u[t]])
        BY <3>1, <3>2, <3>3, WinsVertex
      <4>2. u[t] \in Elems(g.in[v[t]]) /\ UpTo(k) \subseteq Visited
        BY <1>0, <3>1, <3>2, <4>1 DEF IsGraph, LevelInv, TopDownInv, Between
      <4>. QED BY <2>1, <3>1, <4>1, <4>2, Joins
    <3>4. CASE ~Wins(t)
      BY <1>2, <2>1, <3>1, <3>4, LosesNothing, TreeStays
    <3>. QED BY <3>3, <3>4
  <2>3. CASE Visit(t)
    <3>1. stage = "bu"
      BY <2>1, <2>3 DEF Visit, ThreadInv
    <3>2. PICK k \in Nat : LevelInv(k)
      BY <3>1 DEF LevelsInv
    <3>3. CASE Finds(t)
      <4>1. UpTo(k) \subseteq Visited
        BY <3>1, <3>2 DEF LevelInv, BottomUpInv, Between
      <4>. QED BY <2>1, <3>1, <3>2, <3>3, <4>1, FindsVertex, Joins
    <3>4. CASE ~Finds(t)
      BY <1>2, <2>1, <3>1, <3>4, FindsNothing, TreeStays
    <3>. QED BY <3>3, <3>4
  <2>4. CASE ~CasParent(t) /\ ~Visit(t)
    <3>1. parent' = parent
      BY <1>2, <2>4 DEF ThreadStep, Claim, LeaveLoop, ReadParent, EndScan, Push, Reserve, Copy,
                        ReadWord, SetBit, SetBitAtomic
    <3>. QED BY <2>1, <3>1, TreeStays
  <2>. QED BY <2>2, <2>3, <2>4
<1>3. CASE Return
  BY <1>3, Finishes
<1>4. CASE Program /\ ~Return
  <2>1. UNCHANGED <<args, parent>> /\ stage # "done" /\ stage' # "done"
    BY <1>4 DEF Program, GoTopDown, GoBottomUp, EndTopDown, EndQueueToBitmap, EndBottomUp,
                EndBitmapToQueue, StartBottomUp
  <2>. QED BY <2>1, TreeStays
<1>. QED BY <1>1, <1>2, <1>3, <1>4 DEF Next, Terminated

(* DOBFS implements BFSTree: whatever the races, the directions and the    *)
(* stale bits of the bitmap, the parents form a tree of shortest paths     *)
(* that only grows, level by level, and when DOBFS returns every vertex    *)
(* that can be reached from the source is in it.                           *)
THEOREM ImplementsBFSTree == Spec => GrowsShortestPathTree
<1>1. Init => Tree!Init
  BY InitTree
<1>2. IInv /\ LevelsInv /\ [Next]_vars => [Tree!Next]_<<g, source, TreeOf, stage = "done">>
  BY TreeStep
<1>3. Spec => [](IInv /\ LevelsInv)
  BY LevelInvariance
<1>. QED BY <1>1, <1>2, <1>3, PTL DEF Spec, GrowsShortestPathTree, Tree!Spec, TreeOf
==============================================================================
