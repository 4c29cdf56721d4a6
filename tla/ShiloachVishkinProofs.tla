------------------------ MODULE ShiloachVishkinProofs -----------------------
(***************************************************************************)
(* For every graph, every number of vertices and of threads, hooks that    *)
(* overwrite one another never join two components, a vertex once hooked   *)
(* stays hooked, and a round without a hook leaves every edge inside one   *)
(* label.                                                                  *)
(***************************************************************************)
EXTENDS ShiloachVishkin, CSRGraphProofs, SequenceTheorems

(***************************************************************************)
(* The inductive invariant.  What a thread holds lies in the component it  *)
(* works on, whatever was written since it was read; a vertex whose path   *)
(* is being shortened is not a root.                                       *)
(***************************************************************************)
ThreadInv(t) ==
  /\ pc[t] \in InHook => phase = "hook"
  /\ pc[t] \in InJump => phase = "jump"
  /\ pc[t] \notin InHook => nbrs[t] = <<>>
  /\ \A i \in DOMAIN nbrs[t] : Connected(g, u[t], nbrs[t][i])
  /\ pc[t] = "readV" => Connected(g, u[t], v[t]) /\ Connected(g, u[t], cu[t])
  /\ pc[t] \in {"testRoot", "setChange", "hook"} =>
       Connected(g, cu[t], cv[t]) /\ cu[t] # cv[t]
  /\ pc[t] \in {"read", "write"} => comp[u[t]] # u[t]
  /\ pc[t] = "write" => Connected(g, u[t], x[t]) /\ x[t] < u[t]

Flat(n) == comp[comp[n]] = comp[n]
AllFlat == \A n \in V : Flat(n)

Agree(e) == comp[e[1]] = comp[e[2]]
AllAgree == \A e \in Edges(g) : Agree(e)

(* Thread t has yet to compare the labels of edge e, or is about to report *)
(* that they differ.                                                       *)
Pending(t, e) ==
  /\ pc[t] \in InHook /\ u[t] = e[1]
  /\ \/ e[2] \in Elems(nbrs[t])
     \/ pc[t] \in {"readV", "testRoot", "setChange"} /\ v[t] = e[2]

(* While change is false in a round, no label has been written in it, and  *)
(* what a thread has read is still there.                                  *)
Fresh(t) ==
  /\ pc[t] # "hook"
  /\ pc[t] = "readV" => cu[t] = comp[u[t]]
  /\ pc[t] \in {"testRoot", "setChange"} => cu[t] = comp[u[t]] /\ cv[t] = comp[v[t]]

QuietHook ==
  phase = "hook" /\ ~change =>
    /\ AllFlat
    /\ \A t \in Threads : Fresh(t)
    /\ \A e \in Edges(g) : Agree(e) \/ e[1] \in todo \/ \E t \in Threads : Pending(t, e)

Flattens ==
  phase = "jump" =>
    \A n \in V : Flat(n) \/ n \in todo \/ \E t \in Threads : pc[t] \in InJump /\ u[t] = n

QuietJump ==
  phase = "jump" /\ ~change =>
    /\ AllFlat /\ AllAgree
    /\ \A t \in Threads : pc[t] \notin {"read", "write"}

QuietDone == phase = "done" => AllAgree

IInv ==
  /\ TypeOK /\ LabelsSound
  /\ \A t \in Threads : ThreadInv(t)
  /\ QuietHook /\ Flattens /\ QuietJump /\ QuietDone
-----------------------------------------------------------------------------
(* Max and min of the labels of an edge's ends.                            *)
LEMMA HighLow ==
  ASSUME TypeOK, NEW t \in Threads
  PROVE  /\ HighComp(t) \in V /\ LowComp(t) \in V
         /\ cu[t] # cv[t] => LowComp(t) < HighComp(t)
         /\ \/ HighComp(t) = cu[t] /\ LowComp(t) = cv[t]
            \/ HighComp(t) = cv[t] /\ LowComp(t) = cu[t]
<1>1. cu[t] \in V /\ cv[t] \in V
  BY DEF TypeOK
<1>. QED BY <1>1, NumNodesAssumption DEF HighComp, LowComp, V

(* The neighbours an iteration is handed are those of its vertex.          *)
LEMMA Neighbours ==
  ASSUME TypeOK, NEW n \in V
  PROVE  /\ OutNeigh(g, n, 0) \in Seq(V)
         /\ OutNeigh(g, n, 0) = g.out[n]
         /\ \A i \in DOMAIN OutNeigh(g, n, 0) : Connected(g, n, OutNeigh(g, n, 0)[i])
<1>1. IsGraph(g) /\ g.out[n] \in Seq(V)
  BY GraphsAssumption DEF TypeOK, IsGraph
<1>2. OutNeigh(g, n, 0) = SubSeq(g.out[n], 1, Len(g.out[n]))
  BY DEF OutNeigh, Neighborhood
<1>3. OutNeigh(g, n, 0) = g.out[n]
  BY <1>1, <1>2
<1>4. ASSUME NEW i \in DOMAIN g.out[n] PROVE Connected(g, n, g.out[n][i])
  <2>1. g.out[n][i] \in V /\ g.out[n][i] \in Elems(g.out[n])
    BY <1>1 DEF Elems
  <2>. QED BY <1>1, <2>1, EdgeConnected
<1>. QED BY <1>1, <1>3, <1>4

LEMMA InitInv == Init => IInv
<1>. SUFFICES ASSUME Init PROVE IInv
  OBVIOUS
<1>0. 0 \in V
  BY NumNodesAssumption DEF V
<1>1. TypeOK
  BY <1>0 DEF Init, TypeOK
<1>2. LabelsSound
  BY ConnectedRefl DEF Init, LabelsSound, V
<1>3. \A t \in Threads : ThreadInv(t)
  BY DEF Init, ThreadInv, InHook, InJump
<1>4. QuietHook
  <2>1. AllFlat
    BY DEF Init, AllFlat, Flat
  <2>2. \A t \in Threads : Fresh(t)
    BY DEF Init, Fresh
  <2>3. \A e \in Edges(g) : e[1] \in todo
    BY DEF Init, Edges
  <2>. QED BY <2>1, <2>2, <2>3 DEF QuietHook
<1>5. Flattens /\ QuietJump /\ QuietDone
  BY DEF Init, Flattens, QuietJump, QuietDone
<1>. QED BY <1>1, <1>2, <1>3, <1>4, <1>5 DEF IInv
-----------------------------------------------------------------------------
(* Every variable keeps its type.                                          *)
Labels == {"idle"} \cup InHook \cup InJump

LEMMA GotoType ==
  ASSUME TypeOK, NEW t \in Threads, NEW l \in Labels, Goto(t, l)
  PROVE  pc' \in [Threads -> Labels]
BY DEF TypeOK, Goto, Labels

LEMMA LeaveType ==
  ASSUME TypeOK, NEW t \in Threads, Leave(t)
  PROVE  pc' \in [Threads -> Labels] /\ u' \in [Threads -> V]
<1>1. pc' \in [Threads -> Labels]
  BY GotoType DEF Leave, Labels
<1>2. 0 \in V
  BY NumNodesAssumption DEF V
<1>. QED BY <1>1, <1>2 DEF TypeOK, Leave

LEMMA NextNeighbourType ==
  ASSUME TypeOK, NEW t \in Threads, NextNeighbour(t)
  PROVE  /\ pc' \in [Threads -> Labels] /\ v' \in [Threads -> V]
         /\ cu' \in [Threads -> V] /\ cv' \in [Threads -> V]
<1>1. pc' \in [Threads -> Labels]
  BY GotoType DEF NextNeighbour, Labels, InHook
<1>2. 0 \in V
  BY NumNodesAssumption DEF V
<1>. QED BY <1>1, <1>2 DEF TypeOK, NextNeighbour

LEMMA HookTypeStep ==
  ASSUME TypeOK, NEW t \in Threads, HookStep(t)
  PROVE  TypeOK'
<1>. USE DEF shared
<1>0. u[t] \in V /\ v[t] \in V /\ nbrs[t] \in Seq(V) /\ comp \in [V -> V]
  BY DEF TypeOK
<1>1. CASE ReadU(t)
  <2>1. pc' \in [Threads -> Labels]
    BY <1>1, GotoType DEF ReadU, Labels, InHook
  <2>2. Head(nbrs[t]) \in V /\ Tail(nbrs[t]) \in Seq(V)
    BY <1>0, <1>1 DEF ReadU
  <2>3. v' \in [Threads -> V] /\ nbrs' \in [Threads -> Seq(V)] /\ cu' \in [Threads -> V]
    BY <1>0, <1>1, <2>2 DEF ReadU, TypeOK
  <2>. QED BY <1>1, <2>1, <2>3 DEF ReadU, TypeOK, Labels
<1>2. CASE ReadV(t)
  <2>1. CASE comp[v[t]] = cu[t]
    BY <1>2, <2>1, NextNeighbourType DEF ReadV, TypeOK, Labels
  <2>2. CASE comp[v[t]] # cu[t]
    <3>1. pc' \in [Threads -> Labels]
      BY <1>2, <2>2, GotoType DEF ReadV, Labels, InHook
    <3>2. cv' \in [Threads -> V]
      BY <1>0, <1>2, <2>2 DEF ReadV, TypeOK
    <3>. QED BY <1>2, <2>2, <3>1, <3>2 DEF ReadV, TypeOK, Labels
  <2>. QED BY <2>1, <2>2
<1>3. CASE TestRoot(t)
  <2>1. CASE comp[HighComp(t)] = HighComp(t)
    <3>1. pc' \in [Threads -> Labels]
      BY <1>3, <2>1, GotoType DEF TestRoot, Labels, InHook
    <3>. QED BY <1>3, <2>1, <3>1 DEF TestRoot, TypeOK, Labels
  <2>2. CASE comp[HighComp(t)] # HighComp(t)
    BY <1>3, <2>2, NextNeighbourType DEF TestRoot, TypeOK, Labels
  <2>. QED BY <2>1, <2>2
<1>4. CASE SetChange(t)
  <2>1. pc' \in [Threads -> Labels]
    BY <1>4, GotoType DEF SetChange, Labels, InHook
  <2>. QED BY <1>4, <2>1 DEF SetChange, TypeOK, Labels
<1>5. CASE Hook(t)
  <2>1. comp' \in [V -> V]
    BY <1>0, <1>5, HighLow DEF Hook
  <2>2. /\ pc' \in [Threads -> Labels] /\ v' \in [Threads -> V]
        /\ cu' \in [Threads -> V] /\ cv' \in [Threads -> V]
    BY <1>5, NextNeighbourType DEF Hook
  <2>. QED BY <1>5, <2>1, <2>2 DEF Hook, TypeOK, Labels
<1>. QED BY <1>1, <1>2, <1>3, <1>4, <1>5 DEF HookStep

LEMMA TypeStep ==
  ASSUME TypeOK, [Next]_vars
  PROVE  TypeOK'
<1>. USE DEF shared
<1>1. ASSUME NEW t \in Threads, Claim(t) PROVE TypeOK'
  <2>1. PICK n \in todo :
          /\ todo' = todo \ {n}
          /\ u' = [u EXCEPT ![t] = n]
          /\ nbrs' = [nbrs EXCEPT ![t] = IF phase = "hook" THEN OutNeigh(g, n, 0) ELSE <<>>]
    BY <1>1 DEF Claim
  <2>2. n \in V /\ OutNeigh(g, n, 0) \in Seq(V)
    BY <2>1, Neighbours DEF TypeOK
  <2>3. pc' \in [Threads -> Labels]
    BY <1>1, GotoType DEF Claim, Labels, InHook, InJump
  <2>4. todo' \in SUBSET V /\ u' \in [Threads -> V] /\ nbrs' \in [Threads -> Seq(V)]
    BY <2>1, <2>2 DEF TypeOK
  <2>. QED BY <1>1, <2>3, <2>4 DEF Claim, TypeOK, Labels
<1>2. ASSUME NEW t \in Threads, EndIteration(t) PROVE TypeOK'
  BY <1>2, LeaveType DEF EndIteration, TypeOK, Labels
<1>3. ASSUME NEW t \in Threads, JumpStep(t) PROVE TypeOK'
  <2>0. 0 \in V /\ comp[comp[u[t]]] \in V /\ u[t] \in V /\ x[t] \in V
    BY NumNodesAssumption DEF TypeOK, V
  <2>1. CASE JumpTest(t)
    <3>1. pc' \in [Threads -> Labels] /\ u' \in [Threads -> V]
      BY <2>1, GotoType, LeaveType DEF JumpTest, Labels, InJump, TypeOK
    <3>. QED BY <2>1, <3>1 DEF JumpTest, TypeOK, Labels
  <2>2. CASE JumpRead(t)
    <3>1. pc' \in [Threads -> Labels]
      BY <2>2, GotoType DEF JumpRead, Labels, InJump
    <3>2. x' \in [Threads -> V]
      BY <2>0, <2>2 DEF JumpRead, TypeOK
    <3>. QED BY <2>2, <3>1, <3>2 DEF JumpRead, TypeOK, Labels
  <2>3. CASE JumpWrite(t)
    <3>1. pc' \in [Threads -> Labels]
      BY <2>3, GotoType DEF JumpWrite, Labels, InJump
    <3>2. x' \in [Threads -> V] /\ comp' \in [V -> V]
      BY <2>0, <2>3 DEF JumpWrite, TypeOK
    <3>. QED BY <2>3, <3>1, <3>2 DEF JumpWrite, TypeOK, Labels
  <2>. QED BY <1>3, <2>1, <2>2, <2>3 DEF JumpStep
<1>4. CASE EndLoop
  BY <1>4 DEF EndLoop, TypeOK
<1>5. CASE UNCHANGED vars
  BY <1>5 DEF vars, TypeOK
<1>. QED BY <1>1, <1>2, <1>3, <1>4, <1>5, HookTypeStep DEF Next, ThreadStep, Terminated
-----------------------------------------------------------------------------
(* A step of thread t leaves the graph, the loop the program is in and the *)
(* other threads' locals alone.                                            *)
LEMMA OneThread ==
  ASSUME TypeOK, NEW t \in Threads, ThreadStep(t)
  PROVE  /\ g' = g /\ phase' = phase
         /\ \A s \in Threads \ {t} :
              /\ pc'[s] = pc[s] /\ u'[s] = u[s] /\ nbrs'[s] = nbrs[s] /\ v'[s] = v[s]
              /\ cu'[s] = cu[s] /\ cv'[s] = cv[s] /\ x'[s] = x[s]
<1>. USE DEF TypeOK, Goto, Leave, NextNeighbour, shared
<1>1. CASE Claim(t)
  BY <1>1 DEF Claim
<1>2. CASE EndIteration(t)
  BY <1>2 DEF EndIteration
<1>3. CASE ReadU(t)
  BY <1>3 DEF ReadU
<1>4. CASE ReadV(t)
  BY <1>4 DEF ReadV
<1>5. CASE TestRoot(t)
  BY <1>5 DEF TestRoot
<1>6. CASE SetChange(t)
  BY <1>6 DEF SetChange
<1>7. CASE Hook(t)
  BY <1>7 DEF Hook
<1>8. CASE JumpStep(t)
  BY <1>8 DEF JumpStep, JumpTest, JumpRead, JumpWrite
<1>. QED BY <1>1, <1>2, <1>3, <1>4, <1>5, <1>6, <1>7, <1>8 DEF ThreadStep, HookStep

(* The two actions that write comp give a vertex a lower label of its own  *)
(* component, each from what its thread has read some steps ago.           *)
Lowers ==
  \E h, l \in V : comp' = [comp EXCEPT ![h] = l] /\ l < h /\ Connected(g, h, l)

LEMMA HookLowers ==
  ASSUME TypeOK, NEW t \in Threads, ThreadInv(t), Hook(t)
  PROVE  Lowers
<1>1. Connected(g, cu[t], cv[t]) /\ Connected(g, cv[t], cu[t]) /\ cu[t] # cv[t]
  BY ConnectedSym DEF ThreadInv, Hook
<1>2. /\ HighComp(t) \in V /\ LowComp(t) \in V /\ LowComp(t) < HighComp(t)
      /\ Connected(g, HighComp(t), LowComp(t))
  BY <1>1, HighLow
<1>3. comp' = [comp EXCEPT ![HighComp(t)] = LowComp(t)]
  BY DEF Hook
<1>. HIDE DEF HighComp, LowComp
<1>. QED BY <1>2, <1>3 DEF Lowers

LEMMA JumpWriteLowers ==
  ASSUME TypeOK, NEW t \in Threads, ThreadInv(t), JumpWrite(t)
  PROVE  Lowers
<1>1. u[t] \in V /\ x[t] \in V /\ x[t] < u[t] /\ Connected(g, u[t], x[t])
  BY DEF TypeOK, ThreadInv, JumpWrite
<1>2. comp' = [comp EXCEPT ![u[t]] = x[t]]
  BY DEF JumpWrite
<1>. QED BY <1>1, <1>2 DEF Lowers

LEMMA Writes ==
  ASSUME IInv, [Next]_vars
  PROVE  g' = g /\ (comp' = comp \/ Lowers)
<1>1. TypeOK /\ \A t \in Threads : ThreadInv(t)
  BY DEF IInv
<1>2. ASSUME NEW t \in Threads, ThreadStep(t) PROVE g' = g /\ (comp' = comp \/ Lowers)
  <2>1. g' = g
    BY <1>1, <1>2, OneThread
  <2>2. CASE Hook(t) \/ JumpWrite(t)
    BY <1>1, <2>1, <2>2, HookLowers, JumpWriteLowers
  <2>3. CASE ReadU(t) \/ ReadV(t) \/ TestRoot(t) \/ SetChange(t)
    BY <2>1, <2>3 DEF ReadU, ReadV, TestRoot, SetChange, shared
  <2>4. CASE Claim(t) \/ EndIteration(t) \/ JumpTest(t) \/ JumpRead(t)
    BY <2>1, <2>4 DEF Claim, EndIteration, JumpTest, JumpRead, shared
  <2>. QED BY <1>2, <2>2, <2>3, <2>4 DEF ThreadStep, HookStep, JumpStep
<1>3. CASE EndLoop \/ UNCHANGED vars
  BY <1>3 DEF EndLoop, vars
<1>. QED BY <1>2, <1>3 DEF Next, Terminated

LEMMA LabelsStep ==
  ASSUME IInv, [Next]_vars
  PROVE  LabelsSound' /\ Roots' \subseteq Roots
<1>1. comp \in [V -> V] /\ LabelsSound /\ g' = g
  BY Writes DEF IInv, TypeOK
<1>2. CASE comp' = comp
  BY <1>1, <1>2 DEF LabelsSound, Roots
<1>3. CASE Lowers
  <2>1. PICK h \in V, l \in V :
          comp' = [comp EXCEPT ![h] = l] /\ l < h /\ Connected(g, h, l)
    BY <1>3 DEF Lowers
  <2>2. h \in Int /\ l \in Int
    BY NumNodesAssumption DEF V
  <2>3. LabelsSound'
    BY <1>1, <2>1, <2>2 DEF LabelsSound
  <2>4. Roots' \subseteq Roots
    BY <1>1, <2>1, <2>2 DEF Roots
  <2>. QED BY <2>3, <2>4
<1>. QED BY <1>2, <1>3, Writes
-----------------------------------------------------------------------------
(* What the other threads hold survives a step: ThreadInv looks at comp    *)
(* only to say that a vertex is no root, and it never becomes one again.   *)
LEMMA Undisturbed ==
  ASSUME TypeOK, Roots' \subseteq Roots, NEW s \in Threads, ThreadInv(s),
         g' = g, phase' = phase, pc'[s] = pc[s], u'[s] = u[s], nbrs'[s] = nbrs[s],
         v'[s] = v[s], cu'[s] = cu[s], cv'[s] = cv[s], x'[s] = x[s]
  PROVE  ThreadInv(s)'
<1>1. u[s] \in V
  BY DEF TypeOK
<1>2. comp[u[s]] # u[s] => comp'[u[s]] # u[s]
  BY <1>1 DEF Roots
<1>. QED BY <1>2 DEF ThreadInv

LEMMA ClaimThread ==
  ASSUME TypeOK, NEW t \in Threads, ThreadInv(t), Claim(t)
  PROVE  ThreadInv(t)'
<1>1. PICK n \in todo :
        /\ u' = [u EXCEPT ![t] = n]
        /\ nbrs' = [nbrs EXCEPT ![t] = IF phase = "hook" THEN OutNeigh(g, n, 0) ELSE <<>>]
        /\ Goto(t, IF phase = "hook" THEN "edge" ELSE "test")
  BY DEF Claim
<1>2. n \in V /\ u'[t] = n /\ nbrs'[t] = (IF phase = "hook" THEN OutNeigh(g, n, 0) ELSE <<>>)
  BY <1>1 DEF TypeOK
<1>3. \A i \in DOMAIN nbrs'[t] : Connected(g, n, nbrs'[t][i])
  BY <1>2, Neighbours
<1>4. g' = g /\ phase' = phase /\ phase \in {"hook", "jump"}
  BY DEF Claim
<1>5. pc'[t] = IF phase = "hook" THEN "edge" ELSE "test"
  BY <1>1 DEF Goto, TypeOK
<1>. QED BY <1>2, <1>3, <1>4, <1>5 DEF ThreadInv, InHook, InJump

LEMMA EndIterationThread ==
  ASSUME TypeOK, NEW t \in Threads, ThreadInv(t), EndIteration(t)
  PROVE  ThreadInv(t)'
<1>1. pc'[t] = "idle" /\ nbrs'[t] = <<>>
  BY DEF TypeOK, EndIteration, Leave, Goto
<1>. QED BY <1>1 DEF ThreadInv, InHook, InJump

LEMMA HookThread ==
  ASSUME TypeOK, LabelsSound, NEW t \in Threads, ThreadInv(t), HookStep(t)
  PROVE  ThreadInv(t)'
<1>0. g' = g /\ phase' = phase
  BY OneThread DEF ThreadStep
<1>1. u[t] \in V /\ v[t] \in V /\ nbrs[t] \in Seq(V)
  BY DEF TypeOK
<1>2. \A n \in V : comp[n] \in V /\ Connected(g, n, comp[n])
  BY DEF TypeOK, LabelsSound
<1>3. /\ phase = "hook" /\ pc[t] \in InHook
      /\ \A i \in DOMAIN nbrs[t] : Connected(g, u[t], nbrs[t][i])
  BY DEF ThreadInv, HookStep, ReadU, ReadV, TestRoot, SetChange, Hook, InHook
<1>4. CASE ReadU(t)
  <2>1. /\ Head(nbrs[t]) = nbrs[t][1] /\ 1 \in DOMAIN nbrs[t]
        /\ \A i \in DOMAIN Tail(nbrs[t]) :
             i + 1 \in DOMAIN nbrs[t] /\ Tail(nbrs[t])[i] = nbrs[t][i + 1]
    BY <1>1, <1>4 DEF ReadU
  <2>2. /\ pc'[t] = "readV" /\ u'[t] = u[t] /\ v'[t] = Head(nbrs[t])
        /\ nbrs'[t] = Tail(nbrs[t]) /\ cu'[t] = comp[u[t]]
    BY <1>4 DEF ReadU, Goto, TypeOK
  <2>3. Connected(g, u[t], v'[t]) /\ Connected(g, u[t], cu'[t])
    BY <1>1, <1>2, <1>3, <2>1, <2>2
  <2>4. \A i \in DOMAIN nbrs'[t] : Connected(g, u[t], nbrs'[t][i])
    BY <1>3, <2>1, <2>2
  <2>. QED BY <1>0, <1>3, <2>2, <2>3, <2>4 DEF ThreadInv, InHook, InJump
<1>5. ASSUME NextNeighbour(t), u' = u, nbrs' = nbrs PROVE ThreadInv(t)'
  <2>1. pc'[t] = "edge"
    BY <1>5 DEF NextNeighbour, Goto, TypeOK
  <2>. QED BY <1>0, <1>3, <1>5, <2>1 DEF ThreadInv, InHook, InJump
<1>6. CASE ReadV(t)
  <2>1. CASE comp[v[t]] = cu[t]
    BY <1>5, <1>6, <2>1 DEF ReadV
  <2>2. CASE comp[v[t]] # cu[t]
    <3>1. /\ pc'[t] = "testRoot" /\ u'[t] = u[t] /\ nbrs'[t] = nbrs[t]
          /\ cu'[t] = cu[t] /\ cv'[t] = comp[v[t]]
      BY <1>6, <2>2 DEF ReadV, Goto, TypeOK
    <3>2. Connected(g, cu[t], u[t]) /\ Connected(g, u[t], v[t])
      BY <1>6, ConnectedSym DEF ReadV, ThreadInv
    <3>3. Connected(g, cu[t], comp[v[t]])
      BY <1>1, <1>2, <3>2, ConnectedTrans
    <3>. QED BY <1>0, <1>3, <2>2, <3>1, <3>3 DEF ThreadInv, InHook, InJump
  <2>. QED BY <2>1, <2>2
<1>7. CASE TestRoot(t)
  <2>1. CASE comp[HighComp(t)] = HighComp(t)
    <3>1. /\ pc'[t] = "setChange" /\ u'[t] = u[t] /\ nbrs'[t] = nbrs[t]
          /\ cu'[t] = cu[t] /\ cv'[t] = cv[t]
      BY <1>7, <2>1 DEF TestRoot, Goto, TypeOK
    <3>2. Connected(g, cu[t], cv[t]) /\ cu[t] # cv[t]
      BY <1>7 DEF TestRoot, ThreadInv
    <3>. QED BY <1>0, <1>3, <3>1, <3>2 DEF ThreadInv, InHook, InJump
  <2>2. CASE comp[HighComp(t)] # HighComp(t)
    BY <1>5, <1>7, <2>2 DEF TestRoot
  <2>. QED BY <2>1, <2>2
<1>8. CASE SetChange(t)
  <2>1. /\ pc'[t] = "hook" /\ u'[t] = u[t] /\ nbrs'[t] = nbrs[t]
        /\ cu'[t] = cu[t] /\ cv'[t] = cv[t]
    BY <1>8 DEF SetChange, Goto, TypeOK
  <2>2. Connected(g, cu[t], cv[t]) /\ cu[t] # cv[t]
    BY <1>8 DEF SetChange, ThreadInv
  <2>. QED BY <1>0, <1>3, <2>1, <2>2 DEF ThreadInv, InHook, InJump
<1>9. CASE Hook(t)
  BY <1>5, <1>9 DEF Hook
<1>. QED BY <1>4, <1>6, <1>7, <1>8, <1>9 DEF HookStep

LEMMA JumpThread ==
  ASSUME TypeOK, LabelsSound, Roots' \subseteq Roots,
         NEW t \in Threads, ThreadInv(t), JumpStep(t)
  PROVE  ThreadInv(t)'
<1>0. g' = g /\ phase' = phase /\ nbrs' = nbrs
  BY DEF JumpStep, JumpTest, JumpRead, JumpWrite, shared
<1>1. \A n \in V : comp[n] \in V /\ comp[n] <= n /\ Connected(g, n, comp[n])
  BY DEF TypeOK, LabelsSound
<1>2. phase = "jump" /\ nbrs[t] = <<>>
  BY DEF ThreadInv, JumpStep, JumpTest, JumpRead, JumpWrite, InHook, InJump
<1>3. u[t] \in V /\ V \subseteq Int
  BY NumNodesAssumption DEF TypeOK, V
<1>4. CASE JumpTest(t)
  <2>1. CASE comp[u[t]] = comp[comp[u[t]]]
    <3>1. pc'[t] = "idle"
      BY <1>4, <2>1 DEF JumpTest, Leave, Goto, TypeOK
    <3>. QED BY <1>0, <1>2, <3>1 DEF ThreadInv, InHook, InJump
  <2>2. CASE comp[u[t]] # comp[comp[u[t]]]
    <3>1. pc'[t] = "read" /\ u' = u /\ comp' = comp
      BY <1>4, <2>2 DEF JumpTest, Goto, TypeOK, shared
    <3>2. comp[u[t]] # u[t]
      BY <2>2
    <3>. QED BY <1>0, <1>2, <3>1, <3>2 DEF ThreadInv, InHook
  <2>. QED BY <2>1, <2>2
<1>5. CASE JumpRead(t)
  <2>1. pc'[t] = "write" /\ u' = u /\ comp' = comp /\ x'[t] = comp[comp[u[t]]]
    BY <1>5 DEF JumpRead, Goto, TypeOK, shared
  <2>2. comp[u[t]] # u[t]
    BY <1>5 DEF JumpRead, ThreadInv
  <2>3. Connected(g, u[t], x'[t])
    BY <1>1, <1>3, <2>1, ConnectedTrans
  <2>4. x'[t] < u[t]
    <3>1. comp[u[t]] \in V /\ comp[comp[u[t]]] \in V /\ comp[u[t]] <= u[t]
          /\ comp[comp[u[t]]] <= comp[u[t]]
      BY <1>1, <1>3
    <3>2. comp[u[t]] \in Int /\ comp[comp[u[t]]] \in Int /\ u[t] \in Int
      BY <1>3, <3>1
    <3>. QED BY <2>1, <2>2, <3>1, <3>2
  <2>. QED BY <1>0, <1>2, <2>1, <2>2, <2>3, <2>4 DEF ThreadInv, InHook
<1>6. CASE JumpWrite(t)
  <2>1. pc'[t] = "test" /\ u' = u
    BY <1>6 DEF JumpWrite, Goto, TypeOK
  <2>. QED BY <1>0, <1>2, <2>1 DEF ThreadInv, InHook
<1>. QED BY <1>4, <1>5, <1>6 DEF JumpStep

LEMMA ThreadsStep ==
  ASSUME IInv, [Next]_vars
  PROVE  \A s \in Threads : ThreadInv(s)'
<1>1. TypeOK /\ LabelsSound /\ Roots' \subseteq Roots
  BY LabelsStep DEF IInv
<1>. SUFFICES ASSUME NEW s \in Threads PROVE ThreadInv(s)'
  OBVIOUS
<1>2. ThreadInv(s)
  BY DEF IInv
<1>3. ASSUME NEW t \in Threads, ThreadStep(t) PROVE ThreadInv(s)'
  <2>1. CASE s = t
    BY <1>1, <1>2, <1>3, <2>1, ClaimThread, EndIterationThread, HookThread, JumpThread
    DEF ThreadStep
  <2>2. CASE s # t
    <3>1. /\ g' = g /\ phase' = phase /\ pc'[s] = pc[s] /\ u'[s] = u[s] /\ nbrs'[s] = nbrs[s]
          /\ v'[s] = v[s] /\ cu'[s] = cu[s] /\ cv'[s] = cv[s] /\ x'[s] = x[s]
      BY <1>1, <1>3, <2>2, OneThread
    <3>. QED BY <1>1, <1>2, <3>1, Undisturbed
  <2>. QED BY <2>1, <2>2
<1>4. CASE EndLoop
  <2>1. pc'[s] = "idle" /\ pc[s] = "idle" /\ nbrs' = nbrs
    BY <1>4 DEF EndLoop
  <2>2. nbrs'[s] = <<>>
    BY <1>2, <2>1 DEF ThreadInv, InHook
  <2>. QED BY <2>1, <2>2 DEF ThreadInv, InHook, InJump
<1>5. CASE UNCHANGED vars
  BY <1>1, <1>2, <1>5, Undisturbed DEF vars
<1>. QED BY <1>3, <1>4, <1>5 DEF Next, Terminated
-----------------------------------------------------------------------------
(* Which steps a phase allows, and what they leave alone.                  *)
LEMMA PhaseSteps ==
  ASSUME IInv, NEW t \in Threads, ThreadStep(t)
  PROVE  /\ phase = "hook" => Claim(t) \/ EndIteration(t) \/ HookStep(t)
         /\ phase = "jump" => Claim(t) \/ JumpStep(t)
         /\ phase # "done"
<1>1. ThreadInv(t)
  BY DEF IInv
<1>2. EndIteration(t) \/ HookStep(t) => phase = "hook"
  BY <1>1 DEF ThreadInv, EndIteration, HookStep, ReadU, ReadV, TestRoot, SetChange, Hook, InHook
<1>3. JumpStep(t) => phase = "jump"
  BY <1>1 DEF ThreadInv, JumpStep, JumpTest, JumpRead, JumpWrite, InJump
<1>4. Claim(t) => phase \in {"hook", "jump"}
  BY DEF Claim
<1>. QED BY <1>2, <1>3, <1>4 DEF ThreadStep

(* A step of a thread in a round that stays quiet writes no label, and the *)
(* root that TestRoot looks for is there.                                  *)
LEMMA QuietSteps ==
  ASSUME IInv, NEW t \in Threads, ThreadStep(t), phase = "hook", ~change'
  PROVE  /\ ~change /\ comp' = comp
         /\ \/ Claim(t) \/ EndIteration(t) \/ ReadU(t) \/ ReadV(t)
            \/ TestRoot(t) /\ comp[HighComp(t)] = HighComp(t)
<1>1. Claim(t) \/ EndIteration(t) \/ HookStep(t)
  BY PhaseSteps
<1>2. ~SetChange(t)
  BY DEF SetChange
<1>3. ~change
  BY <1>1, <1>2 DEF Claim, EndIteration, HookStep, ReadU, ReadV, TestRoot, Hook, shared
<1>4. Fresh(t) /\ AllFlat /\ TypeOK
  BY <1>3 DEF IInv, QuietHook
<1>5. ~Hook(t)
  BY <1>4 DEF Fresh, Hook
<1>6. ASSUME TestRoot(t) PROVE comp[HighComp(t)] = HighComp(t)
  <2>1. cu[t] = comp[u[t]] /\ cv[t] = comp[v[t]] /\ u[t] \in V /\ v[t] \in V
    BY <1>4, <1>6 DEF Fresh, TestRoot, TypeOK
  <2>2. HighComp(t) \in {comp[u[t]], comp[v[t]]}
    BY <2>1 DEF HighComp
  <2>. QED BY <1>4, <2>1, <2>2 DEF AllFlat, Flat
<1>7. comp' = comp
  BY <1>1, <1>2, <1>5 DEF Claim, EndIteration, HookStep, ReadU, ReadV, TestRoot, shared
<1>. QED BY <1>1, <1>2, <1>3, <1>5, <1>6, <1>7 DEF HookStep

LEMMA FreshStep ==
  ASSUME IInv, NEW t \in Threads, ThreadStep(t), phase = "hook", ~change', NEW s \in Threads
  PROVE  Fresh(s)'
<1>1. comp' = comp /\ TypeOK /\ Fresh(s) /\ u[s] \in V /\ v[s] \in V
  BY QuietSteps DEF IInv, QuietHook, TypeOK
<1>2. CASE s # t
  <2>1. pc'[s] = pc[s] /\ u'[s] = u[s] /\ v'[s] = v[s] /\ cu'[s] = cu[s] /\ cv'[s] = cv[s]
    BY <1>1, <1>2, OneThread
  <2>. QED BY <1>1, <2>1 DEF Fresh
<1>3. CASE s = t
  <2>. USE <1>1, <1>3
  <2>1. CASE Claim(t) \/ EndIteration(t)
    <3>1. pc'[t] \in {"edge", "test", "idle"}
      BY <2>1 DEF Claim, EndIteration, Leave, Goto, TypeOK
    <3>. QED BY <3>1 DEF Fresh
  <2>2. CASE ReadU(t)
    <3>1. pc'[t] = "readV" /\ cu'[t] = comp[u[t]] /\ u' = u
      BY <2>2 DEF ReadU, Goto, TypeOK
    <3>. QED BY <3>1 DEF Fresh
  <2>3. CASE ReadV(t)
    <3>1. \/ pc'[t] = "edge"
          \/ pc'[t] = "testRoot" /\ cv'[t] = comp[v[t]] /\ cu' = cu /\ u' = u /\ v' = v
      BY <2>3 DEF ReadV, NextNeighbour, Goto, TypeOK
    <3>. QED BY <2>3, <3>1 DEF Fresh, ReadV
  <2>4. CASE TestRoot(t) /\ comp[HighComp(t)] = HighComp(t)
    <3>1. pc'[t] = "setChange" /\ cu' = cu /\ cv' = cv /\ u' = u /\ v' = v
      BY <2>4 DEF TestRoot, Goto, TypeOK
    <3>. QED BY <2>4, <3>1 DEF Fresh, TestRoot
  <2>. QED BY <2>1, <2>2, <2>3, <2>4, QuietSteps
<1>. QED BY <1>2, <1>3

(* The edge an iteration looks at is passed over only when its labels      *)
(* agree; otherwise the step after next says that something changed.       *)
LEMMA PendingStep ==
  ASSUME IInv, NEW t \in Threads, ThreadStep(t), phase = "hook", ~change',
         NEW e \in Edges(g), Pending(t, e)
  PROVE  Agree(e) \/ Pending(t, e)'
<1>1. TypeOK /\ Fresh(t) /\ e[1] \in V /\ e[2] \in V
  BY QuietSteps DEF IInv, QuietHook, Edges
<1>2. nbrs[t] \in Seq(V) /\ u[t] \in V /\ v[t] \in V
  BY <1>1 DEF TypeOK
<1>3. CASE Claim(t)
  BY <1>3 DEF Claim, Pending, InHook
<1>4. CASE EndIteration(t)
  BY <1>4 DEF EndIteration, Pending, Elems
<1>5. CASE ReadU(t)
  <2>1. /\ pc'[t] = "readV" /\ v'[t] = Head(nbrs[t]) /\ nbrs'[t] = Tail(nbrs[t]) /\ u'[t] = u[t]
        /\ pc[t] = "edge" /\ nbrs[t] # <<>>
    BY <1>1, <1>5 DEF ReadU, Goto, TypeOK
  <2>2. PICK i \in DOMAIN nbrs[t] : e[2] = nbrs[t][i]
    BY <2>1 DEF Pending, Elems
  <2>3. CASE i = 1
    BY <1>2, <2>1, <2>2, <2>3 DEF Pending, InHook
  <2>4. CASE i # 1
    <3>1. i - 1 \in DOMAIN Tail(nbrs[t]) /\ Tail(nbrs[t])[i - 1] = nbrs[t][i]
      BY <1>2, <2>1, <2>4
    <3>2. e[2] \in Elems(nbrs'[t])
      BY <2>1, <2>2, <3>1 DEF Elems
    <3>. QED BY <2>1, <3>2 DEF Pending, InHook
  <2>. QED BY <2>3, <2>4
<1>6. CASE ReadV(t)
  <2>1. CASE comp[v[t]] = cu[t]
    <3>1. pc[t] = "readV" /\ pc'[t] = "edge" /\ u' = u /\ nbrs' = nbrs
      BY <1>1, <1>6, <2>1 DEF ReadV, NextNeighbour, Goto, TypeOK
    <3>2. CASE v[t] = e[2]
      BY <1>1, <2>1, <3>1, <3>2 DEF Pending, Agree, Fresh
    <3>3. CASE v[t] # e[2]
      BY <3>1, <3>3 DEF Pending, InHook
    <3>. QED BY <3>2, <3>3
  <2>2. CASE comp[v[t]] # cu[t]
    <3>1. pc[t] = "readV" /\ pc'[t] = "testRoot" /\ u' = u /\ nbrs' = nbrs /\ v' = v
      BY <1>1, <1>6, <2>2 DEF ReadV, Goto, TypeOK
    <3>. QED BY <3>1 DEF Pending, InHook
  <2>. QED BY <2>1, <2>2
<1>7. CASE TestRoot(t) /\ comp[HighComp(t)] = HighComp(t)
  <2>1. pc[t] = "testRoot" /\ pc'[t] = "setChange" /\ u' = u /\ nbrs' = nbrs /\ v' = v
    BY <1>1, <1>7 DEF TestRoot, Goto, TypeOK
  <2>. QED BY <2>1 DEF Pending, InHook
<1>. QED BY <1>3, <1>4, <1>5, <1>6, <1>7, QuietSteps

LEMMA QuietHookThread ==
  ASSUME IInv, NEW t \in Threads, ThreadStep(t), phase = "hook", ~change'
  PROVE  QuietHook'
<1>1. ~change /\ comp' = comp /\ TypeOK /\ g' = g
  BY QuietSteps, OneThread DEF IInv
<1>2. AllFlat /\ \A e \in Edges(g) : Agree(e) \/ e[1] \in todo \/ \E s \in Threads : Pending(s, e)
  BY <1>1 DEF IInv, QuietHook
<1>3. AllFlat'
  BY <1>1, <1>2 DEF AllFlat, Flat
<1>4. \A s \in Threads : Fresh(s)'
  BY FreshStep
<1>5. ASSUME NEW e \in Edges(g)
      PROVE  Agree(e)' \/ e[1] \in todo' \/ \E s \in Threads : Pending(s, e)'
  <2>1. ASSUME Agree(e) PROVE Agree(e)'
    BY <1>1, <2>1 DEF Agree
  <2>2. ASSUME NEW s \in Threads \ {t}, Pending(s, e) PROVE Pending(s, e)'
    BY <1>1, <2>2, OneThread DEF Pending
  <2>3. ASSUME Pending(t, e) PROVE Agree(e)' \/ Pending(t, e)'
    BY <2>1, <2>3, PendingStep
  <2>4. ASSUME e[1] \in todo PROVE e[1] \in todo' \/ Pending(t, e)'
    <3>1. CASE Claim(t)
      <4>1. PICK n \in todo :
              /\ todo' = todo \ {n} /\ u' = [u EXCEPT ![t] = n]
              /\ nbrs' = [nbrs EXCEPT ![t] = IF phase = "hook" THEN OutNeigh(g, n, 0) ELSE <<>>]
              /\ Goto(t, IF phase = "hook" THEN "edge" ELSE "test")
        BY <3>1 DEF Claim
      <4>2. n \in V /\ u'[t] = n /\ nbrs'[t] = OutNeigh(g, n, 0) /\ pc'[t] = "edge"
        BY <1>1, <4>1 DEF TypeOK, Goto
      <4>3. nbrs'[t] = g.out[n]
        BY <1>1, <4>2, Neighbours
      <4>4. e[2] \in Elems(g.out[e[1]])
        BY DEF Edges
      <4>. QED BY <2>4, <4>1, <4>2, <4>3, <4>4 DEF Pending, InHook
    <3>2. CASE ~Claim(t)
      BY <2>4, <3>2, QuietSteps DEF EndIteration, ReadU, ReadV, TestRoot, shared
    <3>. QED BY <3>1, <3>2
  <2>. QED BY <1>2, <2>1, <2>2, <2>3, <2>4
<1>. QED BY <1>1, <1>3, <1>4, <1>5 DEF QuietHook

(* After a loop of pointer jumping, every label is a root.                 *)
LEMMA FlatAfterJump ==
  ASSUME IInv, EndLoop, phase = "jump"
  PROVE  AllFlat
<1>1. todo = {} /\ \A t \in Threads : pc[t] = "idle"
  BY DEF EndLoop
<1>. QED BY <1>1 DEF IInv, Flattens, AllFlat, InJump

LEMMA QuietHookStep ==
  ASSUME IInv, [Next]_vars
  PROVE  QuietHook'
<1>. SUFFICES ASSUME phase' = "hook", ~change' PROVE QuietHook'
  BY DEF QuietHook
<1>1. ASSUME NEW t \in Threads, ThreadStep(t) PROVE QuietHook'
  BY <1>1, OneThread, QuietHookThread DEF IInv
<1>2. CASE EndLoop
  <2>1. phase = "jump" /\ comp' = comp /\ g' = g /\ todo' = V /\ pc' = pc
        /\ \A t \in Threads : pc[t] = "idle"
    BY <1>2 DEF EndLoop
  <2>2. AllFlat'
    BY <1>2, <2>1, FlatAfterJump DEF AllFlat, Flat
  <2>3. \A t \in Threads : Fresh(t)'
    BY <2>1 DEF Fresh
  <2>4. \A e \in Edges(g) : e[1] \in V
    BY DEF Edges
  <2>. QED BY <2>1, <2>2, <2>3, <2>4 DEF QuietHook
<1>3. CASE UNCHANGED vars
  <2>1. QuietHook
    BY DEF IInv
  <2>. QED BY <1>3, <2>1 DEF vars, QuietHook, AllFlat, Flat, Fresh, Agree, Pending
<1>. QED BY <1>1, <1>2, <1>3 DEF Next, Terminated
-----------------------------------------------------------------------------
(* Pointer jumping makes every tree flat.                                  *)
LEMMA FlattensThread ==
  ASSUME IInv, NEW t \in Threads, ThreadStep(t), phase = "jump",
         NEW n \in V, Flat(n) \/ n \in todo \/ \E s \in Threads : pc[s] \in InJump /\ u[s] = n
  PROVE  Flat(n)' \/ n \in todo' \/ \E s \in Threads : pc'[s] \in InJump /\ u'[s] = n
<1>1. TypeOK /\ comp \in [V -> V] /\ u[t] \in V
  BY DEF IInv, TypeOK
<1>2. \A s \in Threads \ {t} : pc'[s] = pc[s] /\ u'[s] = u[s]
  BY <1>1, OneThread
<1>3. CASE Claim(t)
  <2>1. PICK m \in todo :
          /\ todo' = todo \ {m} /\ u' = [u EXCEPT ![t] = m]
          /\ Goto(t, IF phase = "hook" THEN "edge" ELSE "test")
    BY <1>3 DEF Claim
  <2>2. pc'[t] = "test" /\ u'[t] = m /\ comp' = comp /\ pc[t] = "idle"
    BY <1>1, <1>3, <2>1 DEF Claim, TypeOK, Goto
  <2>. QED BY <1>2, <2>1, <2>2 DEF Flat, InJump
<1>4. CASE JumpTest(t)
  <2>1. CASE comp[u[t]] = comp[comp[u[t]]]
    <3>1. comp' = comp /\ todo' = todo
      BY <1>4 DEF JumpTest, shared
    <3>2. CASE n = u[t]
      BY <2>1, <3>1, <3>2 DEF Flat
    <3>3. CASE n # u[t]
      BY <1>2, <3>1, <3>3 DEF Flat
    <3>. QED BY <3>2, <3>3
  <2>2. CASE comp[u[t]] # comp[comp[u[t]]]
    <3>1. comp' = comp /\ todo' = todo /\ u' = u /\ pc'[t] = "read"
      BY <1>1, <1>4, <2>2 DEF JumpTest, shared, Goto, TypeOK
    <3>. QED BY <1>2, <3>1 DEF Flat, InJump
  <2>. QED BY <2>1, <2>2
<1>5. CASE JumpRead(t)
  <2>1. comp' = comp /\ todo' = todo /\ u' = u /\ pc'[t] = "write"
    BY <1>1, <1>5 DEF JumpRead, shared, Goto, TypeOK
  <2>. QED BY <1>2, <2>1 DEF Flat, InJump
<1>6. CASE JumpWrite(t)
  <2>1. /\ comp' = [comp EXCEPT ![u[t]] = x[t]] /\ todo' = todo /\ u' = u /\ pc'[t] = "test"
        /\ comp[u[t]] # u[t]
    BY <1>1, <1>6 DEF JumpWrite, Goto, TypeOK, IInv, ThreadInv
  <2>2. CASE n = u[t]
    BY <2>1, <2>2 DEF InJump
  <2>3. CASE n # u[t] /\ Flat(n)
    BY <1>1, <2>1, <2>3 DEF Flat
  <2>4. CASE n # u[t] /\ ~Flat(n)
    BY <1>2, <2>1, <2>4
  <2>. QED BY <2>2, <2>3, <2>4
<1>. QED BY <1>3, <1>4, <1>5, <1>6, PhaseSteps DEF JumpStep

LEMMA FlattensStep ==
  ASSUME IInv, [Next]_vars
  PROVE  Flattens'
<1>. SUFFICES ASSUME phase' = "jump", NEW n \in V
              PROVE  Flat(n)' \/ n \in todo' \/ \E s \in Threads : pc'[s] \in InJump /\ u'[s] = n
  BY DEF Flattens
<1>1. phase = "jump" =>
        Flat(n) \/ n \in todo \/ \E s \in Threads : pc[s] \in InJump /\ u[s] = n
  BY DEF IInv, Flattens
<1>2. ASSUME NEW t \in Threads, ThreadStep(t), phase = "jump"
      PROVE  Flat(n)' \/ n \in todo' \/ \E s \in Threads : pc'[s] \in InJump /\ u'[s] = n
  BY <1>1, <1>2, FlattensThread
<1>3. ASSUME NEW t \in Threads, ThreadStep(t) PROVE phase = "jump"
  BY <1>3, OneThread DEF IInv
<1>4. CASE EndLoop
  BY <1>4 DEF EndLoop
<1>5. CASE UNCHANGED vars
  BY <1>1, <1>5 DEF vars, Flat
<1>. QED BY <1>2, <1>3, <1>4, <1>5 DEF Next, Terminated

(* After a quiet round of hooking there is nothing to shorten.             *)
LEMMA QuietJumpStep ==
  ASSUME IInv, [Next]_vars
  PROVE  QuietJump' /\ QuietDone'
<1>1. CASE EndLoop
  <2>1. /\ comp' = comp /\ g' = g /\ pc' = pc /\ todo = {}
        /\ \A t \in Threads : pc[t] = "idle"
    BY <1>1 DEF EndLoop
  <2>2. CASE phase' = "jump" /\ ~change'
    <3>1. phase = "hook" /\ ~change
      BY <1>1, <2>2 DEF EndLoop
    <3>2. AllFlat /\ \A e \in Edges(g) : Agree(e)
      BY <2>1, <3>1 DEF IInv, QuietHook, Pending, InHook
    <3>. QED BY <2>1, <2>2, <3>2 DEF QuietJump, QuietDone, AllFlat, AllAgree, Flat, Agree
  <2>3. CASE phase' = "done"
    <3>1. phase = "jump" /\ ~change
      BY <1>1, <2>3 DEF EndLoop
    <3>2. AllAgree
      BY <3>1 DEF IInv, QuietJump
    <3>. QED BY <2>1, <2>3, <3>2 DEF QuietJump, QuietDone, AllAgree, Agree
  <2>. QED BY <2>2, <2>3 DEF QuietJump, QuietDone
<1>2. ASSUME NEW t \in Threads, ThreadStep(t) PROVE QuietJump' /\ QuietDone'
  <2>1. TypeOK /\ phase' = phase /\ g' = g /\ phase # "done"
    BY <1>2, OneThread, PhaseSteps DEF IInv
  <2>. SUFFICES ASSUME phase' = "jump", ~change'
                PROVE  /\ AllFlat' /\ AllAgree'
                       /\ \A s \in Threads : pc'[s] \notin {"read", "write"}
    BY <2>1 DEF QuietJump, QuietDone
  <2>2. Claim(t) \/ JumpStep(t)
    BY <1>2, <2>1, PhaseSteps
  <2>3. ~change
    BY <2>2 DEF Claim, JumpStep, JumpTest, JumpRead, JumpWrite, shared
  <2>4. AllFlat /\ AllAgree /\ \A s \in Threads : pc[s] \notin {"read", "write"}
    BY <2>1, <2>3 DEF IInv, QuietJump
  <2>5. Claim(t) \/ JumpTest(t)
    BY <2>2, <2>4 DEF JumpStep, JumpRead, JumpWrite
  <2>6. comp' = comp
    BY <2>5 DEF Claim, JumpTest, shared
  <2>7. pc'[t] \in {"edge", "test", "idle"}
    <3>1. u[t] \in V
      BY <2>1 DEF TypeOK
    <3>2. comp[u[t]] = comp[comp[u[t]]]
      BY <2>4, <3>1 DEF AllFlat, Flat
    <3>. QED BY <2>1, <2>5, <3>2 DEF Claim, JumpTest, Leave, Goto, TypeOK
  <2>8. \A s \in Threads : pc'[s] \notin {"read", "write"}
    BY <1>2, <2>1, <2>4, <2>7, OneThread
  <2>. QED BY <2>1, <2>4, <2>6, <2>8 DEF AllFlat, Flat, AllAgree, Agree
<1>3. CASE UNCHANGED vars
  <2>1. QuietJump /\ QuietDone
    BY DEF IInv
  <2>. QED BY <1>3, <2>1 DEF vars, QuietJump, QuietDone, AllFlat, Flat, AllAgree, Agree
<1>. QED BY <1>1, <1>2, <1>3 DEF Next, Terminated
-----------------------------------------------------------------------------
LEMMA InvStep ==
  ASSUME IInv, [Next]_vars
  PROVE  IInv'
<1>1. TypeOK' /\ LabelsSound'
  BY TypeStep, LabelsStep DEF IInv
<1>2. \A t \in Threads : ThreadInv(t)'
  BY ThreadsStep
<1>3. QuietHook' /\ Flattens' /\ QuietJump' /\ QuietDone'
  BY QuietHookStep, FlattensStep, QuietJumpStep
<1>. QED BY <1>1, <1>2, <1>3 DEF IInv

LEMMA Invariance == Spec => []IInv
<1>. QED BY InitInv, InvStep, PTL DEF Spec

(* The types, and the soundness of the labels under every race of hooks    *)
(* (src/src/cc_sv.cc:60-73) and jumps (src/src/cc_sv.cc:76-80), for any    *)
(* graph and any number of threads.                                        *)
THEOREM HooksSound == Spec => []SoundInv
<1>1. IInv => SoundInv
  BY DEF IInv, SoundInv
<1>. QED BY <1>1, Invariance, PTL

(* A hook that overwrites another still leaves the vertex hooked, so no    *)
(* vertex becomes a root again, for any graph and any number of threads.   *)
THEOREM RootsOnlyGo == Spec => HookedForGood
<1>1. IInv /\ [Next]_vars => [Roots' \subseteq Roots]_comp
  BY LabelsStep
<1>. QED BY <1>1, Invariance, PTL DEF Spec, HookedForGood

(* The test that ends the while loop (src/src/cc_sv.cc:56) is right for    *)
(* any graph and any number of threads: hooks lost to a race never leave   *)
(* change false, and the labels returned are the components.               *)
THEOREM QuietRoundFinal == Spec => []QuietRoundIsFinal
<1>1. ASSUME IInv PROVE QuietRoundIsFinal
  <2>1. phase = "jump" /\ ~change => \A e \in Edges(g) : comp[e[1]] = comp[e[2]]
    BY <1>1 DEF IInv, QuietJump, AllAgree, Agree
  <2>2. phase = "done" => \A e \in Edges(g) : comp[e[1]] = comp[e[2]]
    BY <1>1 DEF IInv, QuietDone, AllAgree, Agree
  <2>3. comp \in [V -> V] /\ \A n \in V : Connected(g, n, comp[n])
    BY <1>1 DEF IInv, TypeOK, LabelsSound
  <2>4. phase = "done" => \A a, b \in V : comp[a] = comp[b] <=> Connected(g, a, b)
    BY <2>2, <2>3, AgreeingLabelsExact
  <2>. QED BY <2>1, <2>4 DEF QuietRoundIsFinal
<1>. QED BY <1>1, Invariance, PTL
=============================================================================
