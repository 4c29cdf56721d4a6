--------------------------- MODULE AfforestProofs ---------------------------
(***************************************************************************)
(* Afforest keeps its labels sound for every graph, every number of        *)
(* vertices, threads and rounds; and so it does with the forest of parent  *)
(* pointers: no step takes a tree apart, labels only descend, every edge   *)
(* is joined in the end although the vertices of the largest component are *)
(* skipped, and Afforest implements ComponentMerge.                        *)
(***************************************************************************)
EXTENDS Afforest, CSRGraphProofs, SequenceTheorems

(* Max and min of Link's two labels, as High and Low compute them.         *)
LEMMA HighLow ==
  ASSUME NEW t \in Threads, TypeOK
  PROVE  /\ High(t) \in V /\ Low(t) \in V
         /\ Low(t) <= High(t)
         /\ \/ High(t) = p1[t] /\ Low(t) = p2[t]
            \/ High(t) = p2[t] /\ Low(t) = p1[t]
<1>1. p1[t] \in V /\ p2[t] \in V
  BY DEF TypeOK
<1>. QED BY <1>1, NumNodesAssumption DEF High, Low, V

(* The neighbours an iteration is handed are neighbours of its vertex.     *)
LEMMA SampledNeighbours ==
  ASSUME TypeOK, NEW n \in V
  PROVE  /\ SampledNeigh(n) \in Seq(V)
         /\ \A i \in DOMAIN SampledNeigh(n) : Connected(g, n, SampledNeigh(n)[i])
<1>1. IsGraph(g) /\ g.out[n] \in Seq(V) /\ round \in Nat
  BY GraphsAssumption DEF TypeOK, IsGraph
<1>. DEFINE rest == SubSeq(g.out[n], round + 1, Len(g.out[n]))
<1>2. rest \in Seq(V) /\ \A i \in 1 .. Len(rest) : rest[i] \in V /\ rest[i] \in Elems(g.out[n])
  BY <1>1 DEF Elems
<1>3. SampledNeigh(n) = IF rest = <<>> THEN <<>> ELSE <<rest[1]>>
  BY DEF SampledNeigh, OutNeigh, Neighborhood
<1>. HIDE DEF rest
<1>4. CASE rest = <<>>
  BY <1>3, <1>4
<1>5. CASE rest # <<>>
  <2>1. 1 \in 1 .. Len(rest)
    BY <1>2, <1>5
  <2>2. rest[1] \in V /\ rest[1] \in Elems(g.out[n])
    BY <1>2, <2>1
  <2>3. Connected(g, n, rest[1])
    BY <1>1, <2>2, EdgeConnected
  <2>. QED BY <1>3, <1>5, <2>2, <2>3
<1>. QED BY <1>4, <1>5

LEMMA RemainingNeighbours ==
  ASSUME TypeOK, NEW n \in V
  PROVE  /\ RemainingNeigh(n) \in Seq(V)
         /\ \A i \in DOMAIN RemainingNeigh(n) : Connected(g, n, RemainingNeigh(n)[i])
<1>1. IsGraph(g) /\ g.out[n] \in Seq(V) /\ g.in[n] \in Seq(V)
  BY GraphsAssumption DEF TypeOK, IsGraph
<1>. DEFINE rest == SubSeq(g.out[n], NeighborRounds + 1, Len(g.out[n]))
            back == IF g.directed THEN g.in[n] ELSE <<>>
<1>2. rest \in Seq(V) /\ \A i \in 1 .. Len(rest) : rest[i] \in V /\ rest[i] \in Elems(g.out[n])
  BY <1>1, RoundsAssumption DEF Elems
<1>3. back \in Seq(V) /\ \A i \in 1 .. Len(back) : back[i] \in V /\ n \in Elems(g.out[back[i]])
  <2>1. \A i \in 1 .. Len(g.in[n]) : g.in[n][i] \in V /\ g.in[n][i] \in Elems(g.in[n])
    BY <1>1 DEF Elems
  <2>2. \A w \in V : n \in Elems(g.out[w]) <=> w \in Elems(g.in[n])
    BY <1>1 DEF IsGraph
  <2>3. CASE g.directed
    BY <1>1, <2>1, <2>2, <2>3
  <2>4. CASE ~g.directed
    BY <2>4
  <2>. QED BY <2>3, <2>4
<1>4. RemainingNeigh(n) = rest \o back
  BY DEF RemainingNeigh, OutNeigh, Neighborhood, InNeigh
<1>. HIDE DEF rest, back
<1>5. \A i \in 1 .. Len(rest) : Connected(g, n, rest[i])
  BY <1>1, <1>2, EdgeConnected
<1>6. \A i \in 1 .. Len(back) : Connected(g, n, back[i])
  BY <1>1, <1>3, EdgeConnected
<1>7. \A i \in DOMAIN (rest \o back) :
        (rest \o back)[i] = IF i <= Len(rest) THEN rest[i] ELSE back[i - Len(rest)]
  BY <1>2, <1>3
<1>8. DOMAIN (rest \o back) = 1 .. Len(rest) + Len(back)
  BY <1>2, <1>3
<1>9. \A i \in DOMAIN (rest \o back) : Connected(g, n, (rest \o back)[i])
  <2>. SUFFICES ASSUME NEW i \in DOMAIN (rest \o back)
                PROVE  Connected(g, n, (rest \o back)[i])
    OBVIOUS
  <2>0. i \in Int /\ Len(rest) \in Nat /\ Len(back) \in Nat
    BY <1>2, <1>3, <1>8
  <2>1. CASE i <= Len(rest)
    BY <1>5, <1>7, <1>8, <2>0, <2>1
  <2>2. CASE ~(i <= Len(rest))
    BY <1>6, <1>7, <1>8, <2>0, <2>2
  <2>. QED BY <2>1, <2>2
<1>. QED BY <1>2, <1>3, <1>4, <1>9
-----------------------------------------------------------------------------
(* Every variable keeps its type, and a link round is one of the rounds.   *)
LEMMA InitSound == Init => SoundInv
<1>. SUFFICES ASSUME Init PROVE SoundInv
  OBVIOUS
<1>1. TypeOK
  BY NumNodesAssumption, RoundsAssumption DEF Init, TypeOK, Phases, Loops, Labels, V
<1>2. RoundInv
  BY RoundsAssumption DEF Init, RoundInv
<1>3. LabelsSound
  BY ConnectedRefl DEF Init, LabelsSound, V
<1>4. \A t \in Threads : ThreadInv(t)
  BY DEF Init, ThreadInv, InLink
<1>. QED BY <1>1, <1>2, <1>3, <1>4 DEF SoundInv

(* The typing of Link's locals, and of everything else.                    *)
LinkTypes ==
  v \in [Threads -> V] /\ p1 \in [Threads -> V] /\ p2 \in [Threads -> V] /\ x \in [Threads -> V]

LEMMA GotoType ==
  ASSUME TypeOK, NEW t \in Threads, NEW l \in Labels, Goto(t, l)
  PROVE  pc' \in [Threads -> Labels]
BY DEF TypeOK, Goto

LEMMA LeaveType ==
  ASSUME TypeOK, NEW t \in Threads, Leave(t)
  PROVE  pc' \in [Threads -> Labels] /\ u' \in [Threads -> V]
<1>1. pc' \in [Threads -> Labels]
  BY GotoType DEF Leave, Labels
<1>2. u' \in [Threads -> V]
  BY NumNodesAssumption DEF TypeOK, Leave, V
<1>. QED BY <1>1, <1>2

LEMMA LeaveLinkType ==
  ASSUME TypeOK, NEW t \in Threads, LeaveLink(t)
  PROVE  LinkTypes'
<1>1. 0 \in V
  BY NumNodesAssumption DEF V
<1>2. v' \in [Threads -> V] /\ p1' \in [Threads -> V]
  BY <1>1 DEF TypeOK, LeaveLink
<1>3. p2' \in [Threads -> V] /\ x' \in [Threads -> V]
  BY <1>1 DEF TypeOK, LeaveLink
<1>. QED BY <1>2, <1>3 DEF LinkTypes

LEMMA LoopTestType ==
  ASSUME TypeOK, NEW t \in Threads, NEW a \in V, NEW b \in V, LoopTest(t, a, b)
  PROVE  pc' \in [Threads -> Labels] /\ LinkTypes'
<1>1. CASE a = b
  BY <1>1, GotoType, LeaveLinkType DEF LoopTest, Labels
<1>2. CASE a # b
  <2>1. pc' \in [Threads -> Labels]
    BY <1>2, GotoType DEF LoopTest, Labels, InLink
  <2>2. v' \in [Threads -> V] /\ p1' \in [Threads -> V]
    BY <1>2 DEF LoopTest, TypeOK
  <2>3. p2' \in [Threads -> V]
    BY <1>2 DEF LoopTest, TypeOK
  <2>4. 0 \in V
    BY NumNodesAssumption DEF V
  <2>5. x' \in [Threads -> V]
    BY <1>2, <2>4 DEF LoopTest, TypeOK
  <2>. QED BY <2>1, <2>2, <2>3, <2>5 DEF LinkTypes
<1>. QED BY <1>1, <1>2

(* Every variable keeps its type, and a link round is one of the rounds.   *)
LEMMA LinkTypeStep ==
  ASSUME TypeOK, NEW t \in Threads, LinkStep(t)
  PROVE  TypeOK' /\ UNCHANGED <<phase, round>>
<1>. DEFINE Rest == /\ UNCHANGED <<g, phase, round, c, todo, u>>
                    /\ comp' \in [V -> V] /\ nbrs' \in [Threads -> Seq(V)]
<1>1. High(t) \in V /\ Low(t) \in V
  BY HighLow
<1>2. LinkTypes
  BY DEF TypeOK, LinkTypes
<1>3. CASE ReadP1(t)
  <2>1. Head(nbrs[t]) \in V /\ Tail(nbrs[t]) \in Seq(V)
    BY <1>3 DEF ReadP1, TypeOK
  <2>2. Rest
    BY <1>3, <2>1 DEF ReadP1, TypeOK, shared
  <2>3. pc' \in [Threads -> Labels]
    BY <1>3, GotoType DEF ReadP1, Labels, InLink
  <2>4. v' \in [Threads -> V] /\ p1' \in [Threads -> V]
    BY <1>3, <2>1 DEF ReadP1, TypeOK
  <2>. QED BY <1>3, <2>2, <2>3, <2>4 DEF ReadP1, TypeOK
<1>4. CASE ReadP2(t)
  <2>1. pc' \in [Threads -> Labels] /\ LinkTypes'
    BY <1>4, LoopTestType DEF ReadP2, TypeOK
  <2>2. Rest
    BY <1>4 DEF ReadP2, TypeOK, shared
  <2>. QED BY <2>1, <2>2 DEF LinkTypes, TypeOK
<1>5. CASE ReadHigh(t)
  <2>1. pc' \in [Threads -> Labels]
    BY <1>5, GotoType DEF ReadHigh, Labels, InLink
  <2>2. LinkTypes'
    BY <1>2, <1>5, LeaveLinkType DEF ReadHigh, LinkTypes
  <2>3. Rest
    BY <1>5 DEF ReadHigh, TypeOK, shared
  <2>. QED BY <2>1, <2>2, <2>3 DEF LinkTypes, TypeOK
<1>6. CASE CompareAndSwap(t)
  <2>1. pc' \in [Threads -> Labels]
    BY <1>6, GotoType DEF CompareAndSwap, Labels, InLink
  <2>2. LinkTypes'
    BY <1>2, <1>6, LeaveLinkType DEF CompareAndSwap, LinkTypes
  <2>3. Rest
    BY <1>1, <1>6 DEF CompareAndSwap, TypeOK
  <2>. QED BY <2>1, <2>2, <2>3 DEF LinkTypes, TypeOK
<1>7. CASE ReadParent(t)
  <2>1. pc' \in [Threads -> Labels]
    BY <1>7, GotoType DEF ReadParent, Labels, InLink
  <2>2. LinkTypes'
    BY <1>1, <1>7 DEF ReadParent, TypeOK, LinkTypes
  <2>3. Rest
    BY <1>7 DEF ReadParent, TypeOK, shared
  <2>. QED BY <2>1, <2>2, <2>3 DEF LinkTypes, TypeOK
<1>8. CASE ReadGrandparent(t)
  <2>1. pc' \in [Threads -> Labels]
    BY <1>8, GotoType DEF ReadGrandparent, Labels, InLink
  <2>2. LinkTypes'
    BY <1>8 DEF ReadGrandparent, TypeOK, LinkTypes
  <2>3. Rest
    BY <1>8 DEF ReadGrandparent, TypeOK, shared
  <2>. QED BY <2>1, <2>2, <2>3 DEF LinkTypes, TypeOK
<1>9. CASE ReadLow(t)
  <2>1. pc' \in [Threads -> Labels] /\ LinkTypes'
    BY <1>1, <1>9, LoopTestType DEF ReadLow, TypeOK
  <2>2. Rest
    BY <1>9 DEF ReadLow, TypeOK, shared
  <2>. QED BY <2>1, <2>2 DEF LinkTypes, TypeOK
<1>. QED BY <1>3, <1>4, <1>5, <1>6, <1>7, <1>8, <1>9 DEF LinkStep

LEMMA TypeStep ==
  ASSUME TypeOK, RoundInv, [Next]_vars
  PROVE  TypeOK' /\ RoundInv'
<1>. USE DEF shared, locals
<1>1. ASSUME NEW t \in Threads, Claim(t) PROVE TypeOK' /\ RoundInv'
  <2>1. PICK n \in todo : /\ todo' = todo \ {n}
                          /\ u' = [u EXCEPT ![t] = n]
                          /\ nbrs' = [nbrs EXCEPT ![t] = IF phase = "link" THEN SampledNeigh(n) ELSE <<>>]
    BY <1>1 DEF Claim
  <2>2. n \in V /\ SampledNeigh(n) \in Seq(V)
    BY <2>1, SampledNeighbours DEF TypeOK
  <2>3. pc' \in [Threads -> Labels]
    BY <1>1, GotoType DEF Claim, Labels, InCompress
  <2>4. UNCHANGED <<g, comp, phase, round, c, v, p1, p2, x>>
    BY <1>1 DEF Claim
  <2>5. todo' \in SUBSET V /\ u' \in [Threads -> V]
    BY <2>1, <2>2 DEF TypeOK
  <2>6. nbrs' \in [Threads -> Seq(V)]
    BY <2>1, <2>2 DEF TypeOK
  <2>. QED BY <2>3, <2>4, <2>5, <2>6 DEF TypeOK, RoundInv
<1>2. ASSUME NEW t \in Threads, SkipLargest(t) PROVE TypeOK' /\ RoundInv'
  <2>1. RemainingNeigh(u[t]) \in Seq(V)
    BY RemainingNeighbours DEF TypeOK
  <2>2. pc' \in [Threads -> Labels] /\ u' \in [Threads -> V]
    BY <1>2, GotoType, LeaveType DEF SkipLargest, Labels, TypeOK
  <2>3. nbrs' \in [Threads -> Seq(V)]
    BY <1>2, <2>1 DEF SkipLargest, TypeOK
  <2>. QED BY <1>2, <2>2, <2>3 DEF SkipLargest, TypeOK, RoundInv
<1>3. ASSUME NEW t \in Threads, EndIteration(t) PROVE TypeOK' /\ RoundInv'
  BY <1>3, LeaveType DEF EndIteration, TypeOK, RoundInv
<1>4. ASSUME NEW t \in Threads, LinkStep(t) PROVE TypeOK' /\ RoundInv'
  BY <1>4, LinkTypeStep DEF RoundInv
<1>5. ASSUME NEW t \in Threads, CompressStep(t) PROVE TypeOK' /\ RoundInv'
  <2>1. CASE CompressTest(t)
    <3>1. pc' \in [Threads -> Labels] /\ u' \in [Threads -> V]
      BY <2>1, GotoType, LeaveType DEF CompressTest, Labels, InCompress, TypeOK
    <3>. QED BY <2>1, <3>1 DEF CompressTest, TypeOK, RoundInv
  <2>2. CASE CompressRead(t)
    <3>1. pc' \in [Threads -> Labels]
      BY <2>2, GotoType DEF CompressRead, Labels, InCompress
    <3>2. x' \in [Threads -> V]
      <4>1. comp[comp[u[t]]] \in V
        BY DEF TypeOK
      <4>. QED BY <2>2, <4>1 DEF CompressRead, TypeOK
    <3>. QED BY <2>2, <3>1, <3>2 DEF CompressRead, TypeOK, RoundInv
  <2>3. CASE CompressWrite(t)
    <3>1. pc' \in [Threads -> Labels]
      BY <2>3, GotoType DEF CompressWrite, Labels, InCompress
    <3>2. 0 \in V
      BY NumNodesAssumption DEF V
    <3>3. x' \in [Threads -> V]
      BY <2>3, <3>2 DEF CompressWrite, TypeOK
    <3>4. comp' \in [V -> V]
      BY <2>3 DEF CompressWrite, TypeOK
    <3>. QED BY <2>3, <3>1, <3>3, <3>4 DEF CompressWrite, TypeOK, RoundInv
  <2>. QED BY <1>5, <2>1, <2>2, <2>3 DEF CompressStep
<1>6. CASE EndLoop
  <2>1. phase' \in Phases /\ round' \in 0 .. NeighborRounds /\ RoundInv'
    BY <1>6, RoundsAssumption DEF EndLoop, AfterLoop, Phases, Loops, TypeOK, RoundInv
  <2>. QED BY <1>6, <2>1 DEF EndLoop, TypeOK
<1>7. CASE SampleFrequentElement
  BY <1>7 DEF SampleFrequentElement, Phases, Loops, TypeOK, RoundInv
<1>8. CASE UNCHANGED vars
  BY <1>8 DEF vars, TypeOK, RoundInv
<1>. QED BY <1>1, <1>2, <1>3, <1>4, <1>5, <1>6, <1>7, <1>8 DEF Next, ThreadStep, Program, Terminated
-----------------------------------------------------------------------------
(* A step of thread t leaves the graph and the other threads' locals alone *)
(* and, as ThreadInv does not look at comp, their part of the invariant.   *)
LEMMA OneThread ==
  ASSUME TypeOK, NEW t \in Threads, ThreadStep(t), NEW s \in Threads, s # t
  PROVE  /\ g' = g /\ pc'[s] = pc[s] /\ u'[s] = u[s] /\ nbrs'[s] = nbrs[s]
         /\ v'[s] = v[s] /\ p1'[s] = p1[s] /\ p2'[s] = p2[s] /\ x'[s] = x[s]
<1>. USE DEF TypeOK, Goto, Leave, LeaveLink, shared
<1>1. CASE Claim(t)
  BY <1>1 DEF Claim
<1>2. CASE SkipLargest(t)
  BY <1>2 DEF SkipLargest
<1>3. CASE EndIteration(t)
  BY <1>3 DEF EndIteration
<1>4. CASE LinkStep(t)
  <2>1. CASE ReadP1(t)
    BY <2>1 DEF ReadP1
  <2>2. CASE ReadP2(t)
    BY <2>2 DEF ReadP2, LoopTest
  <2>3. CASE ReadHigh(t)
    BY <2>3 DEF ReadHigh
  <2>4. CASE CompareAndSwap(t)
    BY <2>4 DEF CompareAndSwap
  <2>5. CASE ReadParent(t) \/ ReadGrandparent(t)
    BY <2>5 DEF ReadParent, ReadGrandparent
  <2>6. CASE ReadLow(t)
    BY <2>6 DEF ReadLow, LoopTest
  <2>. QED BY <1>4, <2>1, <2>2, <2>3, <2>4, <2>5, <2>6 DEF LinkStep
<1>5. CASE CompressStep(t)
  BY <1>5 DEF CompressStep, CompressTest, CompressRead, CompressWrite
<1>. QED BY <1>1, <1>2, <1>3, <1>4, <1>5 DEF ThreadStep

LEMMA Undisturbed ==
  ASSUME NEW s \in Threads, ThreadInv(s),
         g' = g, pc'[s] = pc[s], u'[s] = u[s], nbrs'[s] = nbrs[s],
         v'[s] = v[s], p1'[s] = p1[s], p2'[s] = p2[s], x'[s] = x[s]
  PROVE  ThreadInv(s)'
<1>1. High(s)' = High(s)
  BY DEF High
<1>. QED BY <1>1 DEF ThreadInv

(* The threads' own steps: what a thread learns by reading comp.           *)
LEMMA ClaimSound ==
  ASSUME SoundInv, NEW t \in Threads, Claim(t)
  PROVE  ThreadInv(t)'
<1>1. PICK n \in todo : /\ u' = [u EXCEPT ![t] = n]
                        /\ nbrs' = [nbrs EXCEPT ![t] = IF phase = "link" THEN SampledNeigh(n) ELSE <<>>]
  BY DEF Claim
<1>2. n \in V /\ u'[t] = n /\ nbrs'[t] = (IF phase = "link" THEN SampledNeigh(n) ELSE <<>>)
  BY <1>1 DEF SoundInv, TypeOK
<1>3. \A i \in DOMAIN nbrs'[t] : Connected(g, u'[t], nbrs'[t][i])
  BY <1>2, SampledNeighbours DEF SoundInv
<1>4. pc'[t] = (CASE phase = "link" -> "edge" [] phase = "final" -> "skip" [] OTHER -> "test")
  BY DEF Claim, Goto, SoundInv, TypeOK
<1>5. pc'[t] \in {"edge", "skip", "test"} /\ (pc'[t] # "edge" => nbrs'[t] = <<>>) /\ g' = g
  BY <1>2, <1>4 DEF Claim
<1>. QED BY <1>3, <1>5 DEF ThreadInv, InLink

LEMMA SkipSound ==
  ASSUME SoundInv, NEW t \in Threads, SkipLargest(t)
  PROVE  ThreadInv(t)'
<1>. USE DEF SoundInv, TypeOK
<1>1. g' = g
  BY DEF SkipLargest, shared
<1>2. CASE comp[u[t]] = c
  <2>1. pc'[t] = "idle" /\ nbrs'[t] = nbrs[t] /\ nbrs[t] = <<>>
    BY <1>2 DEF SkipLargest, Leave, Goto, ThreadInv, InLink
  <2>. QED BY <2>1 DEF ThreadInv, InLink
<1>3. CASE comp[u[t]] # c
  <2>1. pc'[t] = "edge" /\ u'[t] = u[t] /\ nbrs'[t] = RemainingNeigh(u[t])
    BY <1>3 DEF SkipLargest, Goto
  <2>2. \A i \in DOMAIN nbrs'[t] : Connected(g, u'[t], nbrs'[t][i])
    BY <2>1, RemainingNeighbours
  <2>. QED BY <1>1, <2>1, <2>2 DEF ThreadInv, InLink
<1>. QED BY <1>2, <1>3

LEMMA EndIterationSound ==
  ASSUME SoundInv, NEW t \in Threads, EndIteration(t)
  PROVE  ThreadInv(t)'
<1>1. pc'[t] = "idle" /\ nbrs'[t] = <<>>
  BY DEF SoundInv, TypeOK, EndIteration, Leave, Goto
<1>. QED BY <1>1 DEF ThreadInv, InLink

LEMMA LoopTestSound ==
  ASSUME SoundInv, NEW t \in Threads, pc[t] \in InLink,
         NEW a \in V, NEW b \in V, Connected(g, a, b), LoopTest(t, a, b),
         g' = g, u' = u, nbrs' = nbrs
  PROVE  ThreadInv(t)'
<1>1. \A i \in DOMAIN nbrs[t] : Connected(g, u[t], nbrs[t][i])
  BY DEF SoundInv, ThreadInv
<1>2. CASE a = b
  <2>1. pc'[t] = "edge"
    BY <1>2 DEF SoundInv, TypeOK, LoopTest, Goto
  <2>. QED BY <1>1, <2>1 DEF ThreadInv, InLink
<1>3. CASE a # b
  <2>1. pc'[t] = "readHigh" /\ p1'[t] = a /\ p2'[t] = b
    BY <1>3 DEF SoundInv, TypeOK, LoopTest, Goto
  <2>. QED BY <1>1, <1>3, <2>1 DEF ThreadInv, InLink
<1>. QED BY <1>2, <1>3

LEMMA LinkSound ==
  ASSUME SoundInv, NEW t \in Threads, LinkStep(t)
  PROVE  ThreadInv(t)'
<1>1. TypeOK /\ ThreadInv(t)
  BY DEF SoundInv
<1>2. \A n \in V : comp[n] \in V /\ comp[n] <= n /\ Connected(g, n, comp[n])
  BY DEF SoundInv, TypeOK, LabelsSound
<1>3. u[t] \in V /\ v[t] \in V /\ p1[t] \in V /\ p2[t] \in V /\ x[t] \in V
  BY DEF SoundInv, TypeOK
<1>4. High(t) \in V /\ Low(t) \in V
  BY <1>1, HighLow
<1>5. \A i \in DOMAIN nbrs[t] : Connected(g, u[t], nbrs[t][i])
  BY <1>1 DEF ThreadInv
<1>6. ASSUME pc[t] \in InLink \ {"readP2"}
      PROVE  Connected(g, High(t), Low(t)) /\ Connected(g, Low(t), High(t))
  <2>1. Connected(g, p1[t], p2[t]) /\ Connected(g, p2[t], p1[t])
    BY <1>1, <1>6, ConnectedSym DEF ThreadInv
  <2>. QED BY <1>1, <2>1, HighLow
<1>7. CASE ReadP1(t)
  <2>1. nbrs[t] \in Seq(V) /\ nbrs[t] # <<>>
    BY <1>7 DEF ReadP1, SoundInv, TypeOK
  <2>2. /\ Head(nbrs[t]) = nbrs[t][1] /\ 1 \in DOMAIN nbrs[t]
        /\ \A i \in DOMAIN Tail(nbrs[t]) : i + 1 \in DOMAIN nbrs[t] /\ Tail(nbrs[t])[i] = nbrs[t][i + 1]
    BY <2>1
  <2>3. /\ pc'[t] = "readP2" /\ u' = u /\ g' = g
        /\ v'[t] = Head(nbrs[t]) /\ nbrs'[t] = Tail(nbrs[t]) /\ p1'[t] = comp[u[t]]
    BY <1>7 DEF ReadP1, Goto, shared, SoundInv, TypeOK
  <2>4. Connected(g, u[t], v'[t]) /\ Connected(g, u[t], p1'[t])
    BY <1>2, <1>3, <1>5, <2>2, <2>3
  <2>5. \A i \in DOMAIN nbrs'[t] : Connected(g, u[t], nbrs'[t][i])
    BY <1>5, <2>2, <2>3
  <2>. QED BY <2>3, <2>4, <2>5 DEF ThreadInv, InLink
<1>8. CASE ReadP2(t)
  <2>1. Connected(g, p1[t], u[t]) /\ Connected(g, u[t], v[t])
    BY <1>1, <1>8, ConnectedSym DEF ReadP2, ThreadInv
  <2>2. Connected(g, p1[t], comp[v[t]])
    BY <1>2, <1>3, <2>1, ConnectedTrans
  <2>3. pc[t] \in InLink /\ LoopTest(t, p1[t], comp[v[t]]) /\ g' = g /\ u' = u /\ nbrs' = nbrs
    BY <1>8 DEF ReadP2, InLink, shared
  <2>. QED BY <1>2, <1>3, <2>2, <2>3, LoopTestSound
<1>9. CASE ReadHigh(t) \/ CompareAndSwap(t)
  <2>1. g' = g /\ u' = u /\ nbrs' = nbrs
    BY <1>9 DEF ReadHigh, CompareAndSwap, shared
  <2>2. \/ pc'[t] = "edge"
        \/ pc'[t] \in {"cas", "readParent"} /\ p1' = p1 /\ p2' = p2
    <3>1. CASE ReadHigh(t)
      BY <3>1, <1>1 DEF ReadHigh, Goto, TypeOK
    <3>2. CASE CompareAndSwap(t)
      BY <3>2, <1>1 DEF CompareAndSwap, Goto, TypeOK
    <3>. QED BY <1>9, <3>1, <3>2
  <2>3. p1[t] # p2[t] /\ Connected(g, p1[t], p2[t])
    BY <1>1, <1>9 DEF ReadHigh, CompareAndSwap, ThreadInv, InLink
  <2>. QED BY <1>5, <2>1, <2>2, <2>3 DEF ThreadInv, InLink
<1>10. CASE ReadParent(t)
  <2>1. /\ pc'[t] = "readGrandparent" /\ UNCHANGED <<g, u, nbrs, p1, p2>>
        /\ x'[t] = comp[High(t)] /\ High(t)' = High(t)
    BY <1>10 DEF ReadParent, Goto, shared, SoundInv, TypeOK, High
  <2>2. Connected(g, High(t), x'[t])
    BY <1>2, <1>4, <2>1
  <2>3. p1[t] # p2[t] /\ Connected(g, p1[t], p2[t])
    BY <1>1, <1>10 DEF ReadParent, ThreadInv, InLink
  <2>. QED BY <1>5, <2>1, <2>2, <2>3 DEF ThreadInv, InLink
<1>11. CASE ReadGrandparent(t)
  <2>1. /\ pc'[t] = "readLow" /\ UNCHANGED <<g, u, nbrs, p1, p2>>
        /\ x'[t] = comp[x[t]] /\ High(t)' = High(t)
    BY <1>11 DEF ReadGrandparent, Goto, shared, SoundInv, TypeOK, High
  <2>2. Connected(g, High(t), x[t])
    BY <1>1, <1>11 DEF ReadGrandparent, ThreadInv
  <2>3. Connected(g, High(t), x'[t])
    BY <1>2, <1>3, <2>1, <2>2, ConnectedTrans
  <2>4. p1[t] # p2[t] /\ Connected(g, p1[t], p2[t])
    BY <1>1, <1>11 DEF ReadGrandparent, ThreadInv, InLink
  <2>. QED BY <1>5, <2>1, <2>3, <2>4 DEF ThreadInv, InLink
<1>12. CASE ReadLow(t)
  <2>1. Connected(g, x[t], High(t))
    BY <1>1, <1>12, ConnectedSym DEF ReadLow, ThreadInv
  <2>2. Connected(g, High(t), Low(t)) /\ Connected(g, Low(t), comp[Low(t)])
    BY <1>2, <1>4, <1>6, <1>12 DEF ReadLow, InLink
  <2>3. Connected(g, x[t], comp[Low(t)])
    BY <2>1, <2>2, ConnectedTrans
  <2>4. pc[t] \in InLink /\ LoopTest(t, x[t], comp[Low(t)]) /\ g' = g /\ u' = u /\ nbrs' = nbrs
    BY <1>12 DEF ReadLow, InLink, shared
  <2>. QED BY <1>2, <1>3, <1>4, <2>3, <2>4, LoopTestSound
<1>. QED BY <1>7, <1>8, <1>9, <1>10, <1>11, <1>12 DEF LinkStep

LEMMA CompressSound ==
  ASSUME SoundInv, NEW t \in Threads, CompressStep(t)
  PROVE  ThreadInv(t)'
<1>1. nbrs'[t] = <<>> /\ g' = g
  BY DEF SoundInv, ThreadInv, CompressStep, CompressTest, CompressRead, CompressWrite, shared, InLink
<1>2. CASE CompressTest(t)
  <2>1. pc'[t] \in {"idle", "read"}
    BY <1>2 DEF CompressTest, Leave, Goto, SoundInv, TypeOK
  <2>. QED BY <1>1, <2>1 DEF ThreadInv, InLink
<1>3. CASE CompressRead(t)
  <2>1. pc'[t] = "write" /\ u'[t] = u[t] /\ x'[t] = comp[comp[u[t]]]
    BY <1>3 DEF CompressRead, Goto, SoundInv, TypeOK
  <2>2. \A n \in V : comp[n] \in V /\ comp[n] <= n /\ Connected(g, n, comp[n])
    BY DEF SoundInv, TypeOK, LabelsSound
  <2>3. u[t] \in V /\ comp[u[t]] \in V
    BY DEF SoundInv, TypeOK
  <2>4. Connected(g, u[t], x'[t])
    BY <2>1, <2>2, <2>3, ConnectedTrans
  <2>5. x'[t] <= u[t]
    BY <2>1, <2>2, <2>3, NumNodesAssumption DEF V
  <2>. QED BY <1>1, <2>1, <2>4, <2>5 DEF ThreadInv, InLink
<1>4. CASE CompressWrite(t)
  <2>1. pc'[t] = "test"
    BY <1>4 DEF CompressWrite, Goto, SoundInv, TypeOK
  <2>. QED BY <1>1, <2>1 DEF ThreadInv, InLink
<1>. QED BY <1>2, <1>3, <1>4 DEF CompressStep

(* The two actions that write comp.                                        *)
LEMMA LabelsStep ==
  ASSUME SoundInv, [Next]_vars
  PROVE  LabelsSound'
<1>1. TypeOK /\ LabelsSound
  BY DEF SoundInv
<1>2. ASSUME NEW t \in Threads, CompareAndSwap(t), comp[High(t)] = High(t) PROVE LabelsSound'
  <2>1. High(t) \in V /\ Low(t) \in V /\ Low(t) <= High(t) /\ g' = g
    BY <1>1, <1>2, HighLow DEF CompareAndSwap
  <2>2. Connected(g, High(t), Low(t))
    <3>1. Connected(g, p1[t], p2[t]) /\ Connected(g, p2[t], p1[t])
      BY <1>2, ConnectedSym DEF SoundInv, ThreadInv, CompareAndSwap, InLink
    <3>. QED BY <1>1, <3>1, HighLow
  <2>3. comp' = [comp EXCEPT ![High(t)] = Low(t)]
    BY <1>2 DEF CompareAndSwap
  <2>. HIDE DEF High, Low
  <2>. QED BY <1>1, <2>1, <2>2, <2>3 DEF LabelsSound, TypeOK
<1>3. ASSUME NEW t \in Threads, CompressWrite(t) PROVE LabelsSound'
  BY <1>1, <1>3 DEF SoundInv, ThreadInv, CompressWrite, LabelsSound, TypeOK
<1>4. ASSUME g' = g, comp' = comp PROVE LabelsSound'
  BY <1>1, <1>4 DEF LabelsSound
<1>5. ASSUME NEW t \in Threads, ThreadStep(t),
             ~(CompareAndSwap(t) /\ comp[High(t)] = High(t)), ~CompressWrite(t)
      PROVE  g' = g /\ comp' = comp
  <2>1. CASE LinkStep(t)
    BY <1>5, <2>1 DEF LinkStep, ReadP1, ReadP2, ReadHigh, CompareAndSwap, ReadParent,
                      ReadGrandparent, ReadLow, shared
  <2>2. CASE CompressStep(t)
    BY <1>5, <2>2 DEF CompressStep, CompressTest, CompressRead, shared
  <2>3. CASE Claim(t) \/ SkipLargest(t) \/ EndIteration(t)
    BY <2>3 DEF Claim, SkipLargest, EndIteration, shared
  <2>. QED BY <1>5, <2>1, <2>2, <2>3 DEF ThreadStep
<1>6. Program \/ UNCHANGED vars => g' = g /\ comp' = comp
  BY DEF Program, EndLoop, SampleFrequentElement, vars
<1>. QED BY <1>2, <1>3, <1>4, <1>5, <1>6 DEF Next, Terminated

LEMMA SoundStep ==
  ASSUME SoundInv, [Next]_vars
  PROVE  SoundInv'
<1>1. TypeOK' /\ RoundInv'
  BY TypeStep DEF SoundInv
<1>2. LabelsSound'
  BY LabelsStep
<1>3. ASSUME NEW s \in Threads PROVE ThreadInv(s)'
  <2>0. TypeOK /\ ThreadInv(s)
    BY DEF SoundInv
  <2>1. ASSUME NEW t \in Threads, ThreadStep(t) PROVE ThreadInv(s)'
    <3>1. CASE s = t
      BY <2>1, <3>1, ClaimSound, SkipSound, EndIterationSound, LinkSound, CompressSound DEF ThreadStep
    <3>2. CASE s # t
      BY <2>0, <2>1, <3>2, OneThread, Undisturbed
    <3>. QED BY <3>1, <3>2
  <2>2. CASE Program \/ UNCHANGED vars
    <3>1. /\ g' = g /\ pc'[s] = pc[s] /\ u'[s] = u[s] /\ nbrs'[s] = nbrs[s]
          /\ v'[s] = v[s] /\ p1'[s] = p1[s] /\ p2'[s] = p2[s] /\ x'[s] = x[s]
      BY <2>2 DEF Program, EndLoop, SampleFrequentElement, locals, vars
    <3>. QED BY <2>0, <3>1, Undisturbed
  <2>. QED BY <2>1, <2>2 DEF Next, Terminated
<1>. QED BY <1>1, <1>2, <1>3 DEF SoundInv

(* Every reachable state of Afforest satisfies the inductive invariant,    *)
(* for every instance: the types, the rounds' bookkeeping, the soundness   *)
(* of the labels, and for each thread that what its program counter says   *)
(* it has read lies in the component it works on.                          *)
THEOREM SoundAlways == Spec => []SoundInv
<1>. QED BY InitSound, SoundStep, PTL DEF Spec

(* No interleaving of Link and Compress (src/src/cc.cc:41-66) ever gives a *)
(* vertex the label of another component or a label above its own number,  *)
(* for any graph and any number of threads.                                *)
THEOREM LabelsAlwaysSound == Spec => []LabelsSound
<1>1. SoundInv => LabelsSound
  BY DEF SoundInv
<1>. QED BY <1>1, SoundAlways, PTL
-----------------------------------------------------------------------------

(***************************************************************************)
(* The inductive invariant, beside SoundInv.  Iterations are handed out    *)
(* once, and each loop runs its own part of the program.                   *)
(***************************************************************************)
PhaseInv ==
  /\ phase \in {"sample", "final", "finalCompress", "done"} => round = NeighborRounds
  /\ phase = "sample" => todo = V
  /\ \A t \in Threads :
       /\ pc[t] \in InLink \cup {"edge"} => phase \in {"link", "final"}
       /\ pc[t] = "skip" => phase = "final"
       /\ pc[t] \in InCompress => phase \in {"compress", "finalCompress"}
       /\ pc[t] # "idle" => u[t] \notin todo
       /\ \A s \in Threads : s # t /\ pc[t] # "idle" /\ pc[s] # "idle" => u[s] # u[t]

Adjacent(a, b) == <<a, b>> \in Edges(g) \/ <<b, a>> \in Edges(g)

(* The labels Link holds are of the trees of its two vertices.             *)
LinkInv(t) ==
  /\ pc[t] = "readP2" => SameTree(u[t], p1[t])
  /\ pc[t] \in InLink \ {"readP2"} =>
       \/ SameTree(u[t], p1[t]) /\ SameTree(v[t], p2[t])
       \/ SameTree(u[t], p2[t]) /\ SameTree(v[t], p1[t])
  /\ pc[t] \in {"readGrandparent", "readLow"} => SameTree(High(t), x[t])
  /\ pc[t] \in InLink => Adjacent(u[t], v[t])
  /\ \A m \in Elems(nbrs[t]) : Adjacent(u[t], m)

(* The label Compress is about to write can be reached from the one it     *)
(* replaces by pointers of lower vertices, which others may shorten.       *)
ClosedBelow(S, n) == \A m \in V : m < n => (m \in S <=> comp[m] \in S)

CompressInv(t) ==
  /\ pc[t] \in {"read", "write"} => comp[u[t]] < u[t]
  /\ pc[t] = "write" =>
       /\ x[t] <= comp[u[t]]
       /\ \A S \in SUBSET V : ClosedBelow(S, u[t]) => (comp[u[t]] \in S <=> x[t] \in S)

(* The neighbours an iteration has to link, and those it has not linked.   *)
Owed(n) == Elems(IF phase = "link" THEN SampledNeigh(n) ELSE RemainingNeigh(n))

Pending(t, n, m) ==
  /\ u[t] = n
  /\ \/ pc[t] = "skip"
     \/ pc[t] \in InLink \cup {"edge"} /\ m \in Elems(nbrs[t])
     \/ pc[t] \in InLink /\ v[t] = m

Settled(n, m) == SameTree(n, m) \/ (phase = "final" /\ SameTree(n, c))

LinksOwed ==
  phase \in {"link", "final"} =>
    \A n \in V : \A m \in Owed(n) :
      n \in todo \/ Settled(n, m) \/ \E t \in Threads : Pending(t, n, m)

Flat(n) == comp[comp[n]] = comp[n]

Flattens ==
  /\ phase \in {"compress", "finalCompress"} =>
       \A n \in V : Flat(n) \/ n \in todo \/ \E t \in Threads : pc[t] \in InCompress /\ u[t] = n
  /\ phase \in {"sample", "done"} => \A n \in V : Flat(n)

AllJoined == \A e \in Edges(g) : SameTree(e[1], e[2])

JoinedInv ==
  /\ SampledEdgesJoined
  /\ phase \in {"finalCompress", "done"} => AllJoined

ForestInv ==
  /\ SoundInv /\ PhaseInv
  /\ \A t \in Threads : LinkInv(t) /\ CompressInv(t)
  /\ LinksOwed /\ Flattens /\ JoinedInv
-----------------------------------------------------------------------------
(* SameTree is an equivalence that contains the pointers.                  *)
LEMMA SameTreeRefl == \A a : SameTree(a, a)
BY DEF SameTree

LEMMA SameTreeSym == \A a, b : SameTree(a, b) => SameTree(b, a)
BY DEF SameTree

LEMMA SameTreeTrans == \A a, b, d : SameTree(a, b) /\ SameTree(b, d) => SameTree(a, d)
BY DEF SameTree

LEMMA SameTreeParent == \A n \in V : SameTree(n, comp[n])
BY DEF SameTree, PointerClosed

(* What an iteration of a link loop has to link: edges of its vertex.      *)
LEMMA SampledElems ==
  ASSUME TypeOK, NEW n \in V
  PROVE  /\ \A m \in Elems(SampledNeigh(n)) : m \in V /\ Adjacent(n, m)
         /\ round + 1 <= OutDegree(g, n) => g.out[n][round + 1] \in Elems(SampledNeigh(n))
<1>1. g.out[n] \in Seq(V) /\ round \in Nat
  BY GraphsAssumption, RoundsAssumption DEF TypeOK, IsGraph
<1>. DEFINE rest == SubSeq(g.out[n], round + 1, Len(g.out[n]))
<1>2. SampledNeigh(n) = IF rest = <<>> THEN <<>> ELSE <<rest[1]>>
  BY DEF SampledNeigh, OutNeigh, Neighborhood
<1>3. rest \in Seq(V) /\ (rest # <<>> => Len(rest) > 0)
  BY <1>1
<1>4. Len(rest) > 0 <=> round + 1 <= Len(g.out[n])
  BY <1>1
<1>5. Len(rest) > 0 => rest[1] = g.out[n][round + 1]
  BY <1>1, <1>4
<1>. HIDE DEF rest
<1>6. CASE rest = <<>>
  <2>1. Len(rest) = 0 /\ Elems(SampledNeigh(n)) = {}
    BY <1>2, <1>6 DEF Elems
  <2>. QED BY <1>4, <2>1 DEF OutDegree
<1>7. CASE rest # <<>>
  <2>1. Elems(SampledNeigh(n)) = {g.out[n][round + 1]}
    BY <1>2, <1>3, <1>5, <1>7 DEF Elems
  <2>2. round + 1 \in DOMAIN g.out[n]
    BY <1>1, <1>3, <1>4, <1>7
  <2>3. g.out[n][round + 1] \in V /\ g.out[n][round + 1] \in Elems(g.out[n])
    BY <1>1, <2>2 DEF Elems
  <2>4. <<n, g.out[n][round + 1]>> \in Edges(g)
    BY <2>3 DEF Edges
  <2>. QED BY <2>1, <2>3, <2>4 DEF Adjacent
<1>. QED BY <1>6, <1>7

LEMMA RemainingElems ==
  ASSUME TypeOK, NEW n \in V
  PROVE  /\ \A m \in Elems(RemainingNeigh(n)) : m \in V /\ Adjacent(n, m)
         /\ \A i \in NeighborRounds + 1 .. Len(g.out[n]) : g.out[n][i] \in Elems(RemainingNeigh(n))
         /\ g.directed => \A m \in Elems(g.in[n]) : m \in Elems(RemainingNeigh(n))
<1>1. IsGraph(g) /\ g.out[n] \in Seq(V) /\ g.in[n] \in Seq(V) /\ NeighborRounds \in Nat
  BY GraphsAssumption, RoundsAssumption DEF TypeOK, IsGraph
<1>. DEFINE rest == SubSeq(g.out[n], NeighborRounds + 1, Len(g.out[n]))
            back == IF g.directed THEN g.in[n] ELSE <<>>
<1>2. RemainingNeigh(n) = rest \o back
  BY DEF RemainingNeigh, OutNeigh, Neighborhood, InNeigh
<1>3. rest \in Seq(V) /\ back \in Seq(V)
  BY <1>1
<1>4. Elems(rest) \subseteq Elems(g.out[n])
  BY <1>1 DEF Elems
<1>5. \A i \in NeighborRounds + 1 .. Len(g.out[n]) : g.out[n][i] \in Elems(rest)
  <2>. SUFFICES ASSUME NEW i \in NeighborRounds + 1 .. Len(g.out[n])
                PROVE  g.out[n][i] \in Elems(rest)
    OBVIOUS
  <2>1. i - NeighborRounds \in 1 .. Len(rest) /\ rest[i - NeighborRounds] = g.out[n][i]
    BY <1>1
  <2>2. i - NeighborRounds \in DOMAIN rest
    BY <1>3, <2>1
  <2>. HIDE DEF rest
  <2>. QED BY <2>1, <2>2 DEF Elems
<1>6. back # <<>> => g.directed /\ back = g.in[n]
  OBVIOUS
<1>7. g.directed => back = g.in[n]
  OBVIOUS
<1>. HIDE DEF rest, back
<1>8. Elems(rest \o back) = Elems(rest) \cup Elems(back)
  <2>1. DOMAIN (rest \o back) = 1 .. Len(rest) + Len(back) /\ DOMAIN rest = 1 .. Len(rest)
        /\ DOMAIN back = 1 .. Len(back) /\ Len(rest) \in Nat /\ Len(back) \in Nat
    BY <1>3
  <2>2. \A i \in 1 .. Len(rest) + Len(back) :
          (rest \o back)[i] = IF i <= Len(rest) THEN rest[i] ELSE back[i - Len(rest)]
    BY <1>3
  <2>3. \A i \in 1 .. Len(back) :
          Len(rest) + i \in DOMAIN (rest \o back) /\ (rest \o back)[Len(rest) + i] = back[i]
    BY <2>1, <2>2
  <2>4. Elems(back) \subseteq Elems(rest \o back)
    BY <2>1, <2>3 DEF Elems
  <2>5. Elems(rest) \subseteq Elems(rest \o back)
    BY <2>1, <2>2 DEF Elems
  <2>6. Elems(rest \o back) \subseteq Elems(rest) \cup Elems(back)
    <3>. SUFFICES ASSUME NEW i \in 1 .. Len(rest) + Len(back)
                  PROVE  (rest \o back)[i] \in Elems(rest) \cup Elems(back)
      BY <2>1 DEF Elems
    <3>1. CASE i <= Len(rest)
      BY <2>1, <2>2, <3>1 DEF Elems
    <3>2. CASE ~(i <= Len(rest))
      <4>1. i - Len(rest) \in 1 .. Len(back)
        BY <2>1, <3>2
      <4>. QED BY <2>1, <2>2, <3>2, <4>1 DEF Elems
    <3>. QED BY <3>1, <3>2
  <2>. QED BY <2>4, <2>5, <2>6
<1>9. \A m \in Elems(g.out[n]) : m \in V /\ Adjacent(n, m)
  BY <1>1 DEF Adjacent, Edges, Elems
<1>10. \A m \in Elems(back) : m \in V /\ Adjacent(n, m)
  <2>1. \A m \in Elems(g.in[n]) : m \in V /\ n \in Elems(g.out[m])
    <3>1. \A m \in Elems(g.in[n]) : m \in V
      BY <1>1 DEF Elems
    <3>. QED BY <1>1, <3>1 DEF IsGraph
  <2>2. CASE back = <<>>
    BY <2>2 DEF Elems
  <2>3. CASE back # <<>>
    <3>1. back = g.in[n]
      BY <1>6, <2>3
    <3>. QED BY <2>1, <3>1 DEF Adjacent, Edges
  <2>. QED BY <2>2, <2>3
<1>. QED BY <1>2, <1>4, <1>5, <1>7, <1>8, <1>9, <1>10
-----------------------------------------------------------------------------
LEMMA InitForest == Init => ForestInv
<1>. SUFFICES ASSUME Init PROVE ForestInv
  OBVIOUS
<1>1. SoundInv
  BY InitSound
<1>2. PhaseInv
  BY RoundsAssumption DEF Init, PhaseInv, InLink, InCompress
<1>3. \A t \in Threads : LinkInv(t) /\ CompressInv(t)
  BY DEF Init, LinkInv, CompressInv, InLink, Elems
<1>4. LinksOwed
  BY DEF Init, LinksOwed
<1>5. Flattens
  BY DEF Init, Flattens, Flat
<1>6. JoinedInv
  BY DEF Init, JoinedInv, SampledEdgesJoined, RoundsLinked
<1>. QED BY <1>1, <1>2, <1>3, <1>4, <1>5, <1>6 DEF ForestInv

(* What a thread's step does to the loops' bookkeeping and to its own      *)
(* place in the program.                                                   *)
LEMMA ThreadShared ==
  ASSUME TypeOK, NEW t \in Threads, ThreadStep(t)
  PROVE  /\ g' = g /\ phase' = phase /\ round' = round /\ c' = c
         /\ ~Claim(t) => todo' = todo
<1>1. CASE LinkStep(t)
  BY <1>1 DEF LinkStep, ReadP1, ReadP2, ReadHigh, CompareAndSwap, ReadParent, ReadGrandparent,
              ReadLow, shared
<1>2. CASE CompressStep(t)
  BY <1>2 DEF CompressStep, CompressTest, CompressRead, CompressWrite, shared
<1>3. CASE Claim(t) \/ SkipLargest(t) \/ EndIteration(t)
  BY <1>3 DEF Claim, SkipLargest, EndIteration, shared
<1>. QED BY <1>1, <1>2, <1>3 DEF ThreadStep

LEMMA LinkPlace ==
  ASSUME TypeOK, NEW t \in Threads, LinkStep(t)
  PROVE  /\ pc[t] \in InLink \cup {"edge"} /\ pc'[t] \in InLink \cup {"edge"} /\ u' = u
         /\ ~ReadP1(t) => pc[t] \in InLink /\ nbrs' = nbrs
         /\ ~ReadP1(t) /\ pc'[t] \in InLink => v' = v
<1>. USE DEF TypeOK, Goto, LeaveLink, LoopTest, InLink, shared
<1>1. CASE ReadP1(t)
  BY <1>1 DEF ReadP1
<1>2. CASE ReadP2(t)
  BY <1>2 DEF ReadP2
<1>3. CASE ReadHigh(t)
  BY <1>3 DEF ReadHigh
<1>4. CASE CompareAndSwap(t)
  BY <1>4 DEF CompareAndSwap
<1>5. CASE ReadParent(t) \/ ReadGrandparent(t)
  BY <1>5 DEF ReadParent, ReadGrandparent
<1>6. CASE ReadLow(t)
  BY <1>6 DEF ReadLow
<1>. QED BY <1>1, <1>2, <1>3, <1>4, <1>5, <1>6 DEF LinkStep

LEMMA CompressPlace ==
  ASSUME TypeOK, NEW t \in Threads, CompressStep(t)
  PROVE  /\ pc[t] \in InCompress /\ pc'[t] \in InCompress \cup {"idle"} /\ nbrs' = nbrs
         /\ pc'[t] # "idle" => u' = u
<1>. USE DEF TypeOK, Goto, Leave, InCompress, shared
<1>1. CASE CompressTest(t)
  BY <1>1 DEF CompressTest
<1>2. CASE CompressRead(t) \/ CompressWrite(t)
  BY <1>2 DEF CompressRead, CompressWrite
<1>. QED BY <1>1, <1>2 DEF CompressStep

LEMMA ClaimPlace ==
  ASSUME TypeOK, NEW t \in Threads, Claim(t)
  PROVE  \E n \in todo :
           /\ todo' = todo \ {n} /\ u'[t] = n /\ pc[t] = "idle" /\ comp' = comp
           /\ phase = "link" => pc'[t] = "edge" /\ nbrs'[t] = SampledNeigh(n)
           /\ phase = "final" => pc'[t] = "skip"
           /\ phase \in {"compress", "finalCompress"} => pc'[t] = "test"
           /\ phase \in Loops
           /\ phase # "link" => nbrs'[t] = <<>>
<1>1. PICK n \in todo :
        /\ todo' = todo \ {n}
        /\ u' = [u EXCEPT ![t] = n]
        /\ nbrs' = [nbrs EXCEPT ![t] = IF phase = "link" THEN SampledNeigh(n) ELSE <<>>]
        /\ Goto(t, CASE phase = "link"  -> "edge"
                     [] phase = "final" -> "skip"
                     [] OTHER           -> "test")
  BY DEF Claim
<1>2. u'[t] = n /\ nbrs'[t] = (IF phase = "link" THEN SampledNeigh(n) ELSE <<>>)
  BY <1>1 DEF TypeOK
<1>3. pc'[t] = (CASE phase = "link" -> "edge" [] phase = "final" -> "skip" [] OTHER -> "test")
  BY <1>1 DEF TypeOK, Goto
<1>4. phase = "link" => pc'[t] = "edge"
  BY <1>3
<1>5. phase = "final" => pc'[t] = "skip"
  BY <1>3
<1>6. phase \in {"compress", "finalCompress"} => pc'[t] = "test"
  BY <1>3
<1>7. pc[t] = "idle" /\ comp' = comp /\ phase \in Loops
  BY DEF Claim
<1>. QED BY <1>1, <1>2, <1>4, <1>5, <1>6, <1>7

LEMMA PhaseStep ==
  ASSUME SoundInv, PhaseInv, [Next]_vars
  PROVE  PhaseInv'
<1>1. TypeOK /\ RoundInv
  BY DEF SoundInv
<1>2. ASSUME NEW t \in Threads, ThreadStep(t) PROVE PhaseInv'
  <2>1. /\ phase' = phase /\ round' = round
        /\ \A s \in Threads : s # t => pc'[s] = pc[s] /\ u'[s] = u[s]
        /\ phase = "sample" => todo' = todo
    BY <1>1, <1>2, OneThread, ThreadShared DEF Claim, Loops
  <2>2. CASE Claim(t)
    <3>1. PICK n \in todo :
            /\ todo' = todo \ {n} /\ u'[t] = n
            /\ phase = "link" => pc'[t] = "edge"
            /\ phase = "final" => pc'[t] = "skip"
            /\ phase \in {"compress", "finalCompress"} => pc'[t] = "test"
            /\ phase \in Loops
      BY <1>1, <2>2, ClaimPlace
    <3>2. pc'[t] \in InLink \cup {"edge"} => phase \in {"link", "final"}
      BY <3>1 DEF Loops, InLink
    <3>3. pc'[t] = "skip" => phase = "final"
      BY <3>1 DEF Loops
    <3>4. pc'[t] \in InCompress => phase \in {"compress", "finalCompress"}
      BY <3>1 DEF Loops, InCompress
    <3>. QED BY <2>1, <3>1, <3>2, <3>3, <3>4 DEF PhaseInv
  <2>3. CASE SkipLargest(t)
    <3>1. /\ pc[t] = "skip" /\ pc'[t] \in {"idle", "edge"}
          /\ (pc'[t] # "idle" => u' = u) /\ todo' = todo
      BY <1>1, <2>3 DEF SkipLargest, Leave, Goto, TypeOK, shared
    <3>. QED BY <2>1, <3>1 DEF PhaseInv, InLink, InCompress
  <2>4. CASE EndIteration(t)
    <3>1. pc'[t] = "idle" /\ todo' = todo
      BY <1>1, <2>4 DEF EndIteration, Leave, Goto, TypeOK, shared
    <3>. QED BY <2>1, <3>1 DEF PhaseInv, InLink, InCompress
  <2>5. CASE LinkStep(t)
    <3>1. /\ pc[t] \in InLink \cup {"edge"} /\ pc'[t] \in InLink \cup {"edge"} /\ u' = u
          /\ todo' = todo
      BY <1>1, <1>2, <2>5, LinkPlace, ThreadShared DEF Claim, InLink
    <3>. QED BY <2>1, <3>1 DEF PhaseInv, InLink, InCompress
  <2>6. CASE CompressStep(t)
    <3>1. /\ pc[t] \in InCompress /\ pc'[t] \in InCompress \cup {"idle"}
          /\ (pc'[t] # "idle" => u' = u) /\ todo' = todo
      BY <1>1, <1>2, <2>6, CompressPlace, ThreadShared DEF Claim, InCompress
    <3>. QED BY <2>1, <3>1 DEF PhaseInv, InLink, InCompress
  <2>. QED BY <1>2, <2>2, <2>3, <2>4, <2>5, <2>6 DEF ThreadStep
<1>3. CASE EndLoop
  <2>1. pc' = pc /\ todo' = V /\ \A t \in Threads : pc[t] = "idle"
    BY <1>3 DEF EndLoop
  <2>2. phase' \in {"sample", "final", "finalCompress", "done"} => round' = NeighborRounds
    BY <1>1, <1>3, RoundsAssumption DEF EndLoop, AfterLoop, Loops, TypeOK, RoundInv, PhaseInv
  <2>. QED BY <2>1, <2>2 DEF PhaseInv, InLink, InCompress
<1>4. CASE SampleFrequentElement
  <2>1. /\ phase = "sample" /\ phase' = "final" /\ UNCHANGED <<round, todo, pc, u>>
    BY <1>4 DEF SampleFrequentElement, locals
  <2>. QED BY <2>1 DEF PhaseInv, InLink, InCompress
<1>5. CASE UNCHANGED vars
  BY <1>5 DEF vars, PhaseInv
<1>. QED BY <1>2, <1>3, <1>4, <1>5 DEF Next, Program, Terminated
-----------------------------------------------------------------------------
(* No step takes a tree apart or raises a label.                           *)
LEMMA WhoWrites ==
  ASSUME TypeOK, [Next]_vars
  PROVE  /\ g' = g
         /\ \/ comp' = comp
            \/ \E t \in Threads : CompareAndSwap(t) /\ comp[High(t)] = High(t)
            \/ \E t \in Threads : CompressWrite(t)
<1>1. ASSUME NEW t \in Threads, ThreadStep(t)
      PROVE  /\ g' = g
             /\ \/ comp' = comp
                \/ CompareAndSwap(t) /\ comp[High(t)] = High(t)
                \/ CompressWrite(t)
  <2>0. g' = g
    BY <1>1, ThreadShared
  <2>1. CASE LinkStep(t)
    BY <2>0, <2>1 DEF LinkStep, ReadP1, ReadP2, ReadHigh, CompareAndSwap, ReadParent,
                      ReadGrandparent, ReadLow, shared
  <2>2. CASE CompressStep(t)
    BY <2>0, <2>2 DEF CompressStep, CompressTest, CompressRead, shared
  <2>3. CASE Claim(t) \/ SkipLargest(t) \/ EndIteration(t)
    BY <2>0, <2>3 DEF Claim, SkipLargest, EndIteration, shared
  <2>. QED BY <1>1, <2>1, <2>2, <2>3 DEF ThreadStep
<1>2. Program \/ UNCHANGED vars => g' = g /\ comp' = comp
  BY DEF Program, EndLoop, SampleFrequentElement, vars
<1>. QED BY <1>1, <1>2 DEF Next, Terminated

(* The CAS that succeeds: a root goes under a lower vertex.                *)
LEMMA SwapFacts ==
  ASSUME SoundInv, NEW t \in Threads, CompareAndSwap(t), comp[High(t)] = High(t)
  PROVE  /\ High(t) \in V /\ Low(t) \in V /\ Low(t) < High(t)
         /\ comp' = [comp EXCEPT ![High(t)] = Low(t)]
<1>1. TypeOK /\ p1[t] # p2[t]
  BY DEF SoundInv, ThreadInv, CompareAndSwap, InLink
<1>2. p1[t] \in V /\ p2[t] \in V
  BY <1>1 DEF TypeOK
<1>3. Low(t) < High(t)
  BY <1>1, <1>2, NumNodesAssumption DEF High, Low, V
<1>4. comp' = [comp EXCEPT ![High(t)] = Low(t)]
  BY DEF CompareAndSwap
<1>. QED BY <1>1, <1>3, <1>4, HighLow

(* A write of Compress: the vertex, the pointer it had and the one it gets *)
(* are in one tree, before and after.                                      *)
LEMMA CompressFacts ==
  ASSUME SoundInv, NEW t \in Threads, CompressInv(t), CompressWrite(t)
  PROVE  /\ u[t] \in V /\ x[t] \in V /\ x[t] <= comp[u[t]] /\ comp[u[t]] < u[t]
         /\ comp' = [comp EXCEPT ![u[t]] = x[t]]
         /\ \A S \in SUBSET V : ClosedBelow(S, u[t]) => (comp[u[t]] \in S <=> x[t] \in S)
BY DEF SoundInv, TypeOK, CompressInv, CompressWrite

LEMMA CompressKeeps ==
  ASSUME SoundInv, NEW t \in Threads, CompressInv(t), CompressWrite(t), NEW S \in SUBSET V
  PROVE  PointerClosed(S)' <=> PointerClosed(S)
<1>. DEFINE w == u[t]
            y == x[t]
<1>1. /\ w \in V /\ y \in V /\ comp' = [comp EXCEPT ![w] = y] /\ comp \in [V -> V]
      /\ ClosedBelow(S, w) => (comp[w] \in S <=> y \in S)
  BY CompressFacts DEF SoundInv, TypeOK
<1>2. V \subseteq Int
  BY NumNodesAssumption DEF V
<1>. HIDE DEF w, y
<1>3. comp'[w] = y /\ \A n \in V : n # w => comp'[n] = comp[n]
  BY <1>1
<1>4. ASSUME PointerClosed(S)' \/ PointerClosed(S) PROVE ClosedBelow(S, w)
  <2>1. \A m \in V : m < w => m # w
    BY <1>1, <1>2
  <2>. QED BY <1>3, <1>4, <2>1 DEF PointerClosed, ClosedBelow
<1>5. ASSUME PointerClosed(S)' PROVE PointerClosed(S)
  <2>1. w \in S <=> comp[w] \in S
    BY <1>1, <1>3, <1>4, <1>5 DEF PointerClosed
  <2>. QED BY <1>3, <1>5, <2>1 DEF PointerClosed
<1>6. ASSUME PointerClosed(S) PROVE PointerClosed(S)'
  <2>1. w \in S <=> y \in S
    BY <1>1, <1>4, <1>6 DEF PointerClosed
  <2>. QED BY <1>3, <1>6, <2>1 DEF PointerClosed
<1>. QED BY <1>5, <1>6

LEMMA SwapJoins ==
  ASSUME SoundInv, NEW t \in Threads, CompareAndSwap(t), comp[High(t)] = High(t),
         NEW S \in SUBSET V
  PROVE  PointerClosed(S)' <=> PointerClosed(S) /\ (High(t) \in S <=> Low(t) \in S)
<1>. DEFINE h == High(t)
            l == Low(t)
<1>1. h \in V /\ l \in V /\ comp' = [comp EXCEPT ![h] = l] /\ comp[h] = h /\ comp \in [V -> V]
  BY SwapFacts DEF SoundInv, TypeOK
<1>. HIDE DEF h, l
<1>2. PointerClosed(S)' <=> PointerClosed(S) /\ (h \in S <=> l \in S)
  BY <1>1 DEF PointerClosed
<1>. QED BY <1>2 DEF h, l

LEMMA TreesGrow ==
  ASSUME ForestInv, [Next]_vars
  PROVE  \A a, b : SameTree(a, b) => SameTree(a, b)'
<1>1. SoundInv /\ TypeOK /\ \A t \in Threads : CompressInv(t)
  BY DEF ForestInv, SoundInv
<1>2. ASSUME NEW S \in SUBSET V, PointerClosed(S)' PROVE PointerClosed(S)
  <2>1. CASE comp' = comp
    BY <1>2, <2>1 DEF PointerClosed
  <2>2. ASSUME NEW t \in Threads, CompareAndSwap(t), comp[High(t)] = High(t) PROVE PointerClosed(S)
    BY <1>1, <1>2, <2>2, SwapJoins
  <2>3. ASSUME NEW t \in Threads, CompressWrite(t) PROVE PointerClosed(S)
    BY <1>1, <1>2, <2>3, CompressKeeps
  <2>. QED BY <1>1, <2>1, <2>2, <2>3, WhoWrites
<1>. QED BY <1>2 DEF SameTree

LEMMA Descends ==
  ASSUME ForestInv, [Next]_vars
  PROVE  \A n \in V : comp'[n] <= comp[n]
<1>1. SoundInv /\ TypeOK /\ \A t \in Threads : CompressInv(t)
  BY DEF ForestInv, SoundInv
<1>2. (\A n \in V : n \in Int) /\ comp \in [V -> V]
  <2>1. \A n \in V : n \in Int
    BY NumNodesAssumption DEF V
  <2>. QED BY <1>1, <2>1 DEF TypeOK
<1>3. CASE comp' = comp
  BY <1>2, <1>3
<1>4. ASSUME NEW t \in Threads, CompareAndSwap(t), comp[High(t)] = High(t)
      PROVE  \A n \in V : comp'[n] <= comp[n]
  <2>1. PICK h \in V, l \in V : comp' = [comp EXCEPT ![h] = l] /\ l < h /\ comp[h] = h
    BY <1>1, <1>4, SwapFacts
  <2>. QED BY <1>2, <2>1
<1>5. ASSUME NEW t \in Threads, CompressWrite(t) PROVE \A n \in V : comp'[n] <= comp[n]
  <2>1. PICK h \in V, l \in V : comp' = [comp EXCEPT ![h] = l] /\ l <= comp[h]
    BY <1>1, <1>5, CompressFacts
  <2>. QED BY <1>2, <2>1
<1>. QED BY <1>1, <1>3, <1>4, <1>5, WhoWrites
-----------------------------------------------------------------------------
(* Compress: the other iterations do not touch what one is working on.     *)
LEMMA CompressStepInv ==
  ASSUME ForestInv, [Next]_vars, NEW s \in Threads
  PROVE  CompressInv(s)'
<1>1. SoundInv /\ TypeOK /\ LabelsSound /\ PhaseInv /\ \A t \in Threads : CompressInv(t)
  BY DEF ForestInv, SoundInv
<1>2. (\A n \in V : n \in Int) /\ comp \in [V -> V] /\ u[s] \in V
  <2>1. \A n \in V : n \in Int
    BY NumNodesAssumption DEF V
  <2>. QED BY <1>1, <2>1 DEF TypeOK
<1>3. ASSUME comp' = comp, pc'[s] = pc[s], u'[s] = u[s], x'[s] = x[s] PROVE CompressInv(s)'
  BY <1>1, <1>3 DEF CompressInv, ClosedBelow
<1>4. ASSUME NEW t \in Threads, ThreadStep(t), s # t PROVE CompressInv(s)'
  <2>1. pc'[s] = pc[s] /\ u'[s] = u[s] /\ x'[s] = x[s]
    BY <1>1, <1>4, OneThread
  <2>2. CASE comp' = comp
    BY <1>3, <2>1, <2>2
  <2>3. CASE pc[s] \notin {"read", "write"}
    BY <2>1, <2>3 DEF CompressInv
  <2>4. CASE comp' # comp /\ pc[s] \in {"read", "write"}
    <3>1. CompressWrite(t)
      <4>1. phase \in {"compress", "finalCompress"}
        BY <1>1, <2>4 DEF PhaseInv, InCompress
      <4>2. ~LinkStep(t)
        <5>1. pc[t] \notin InLink \cup {"edge"}
          BY <1>1, <4>1 DEF PhaseInv
        <5>. QED BY <1>1, <5>1, LinkPlace
      <4>3. CompressStep(t)
        BY <1>4, <2>4, <4>2 DEF ThreadStep, Claim, SkipLargest, EndIteration, shared
      <4>. QED BY <2>4, <4>3 DEF CompressStep, CompressTest, CompressRead, shared
    <3>. DEFINE w == u[t]
                y == x[t]
                r == u[s]
    <3>2. /\ w \in V /\ y \in V /\ comp' = [comp EXCEPT ![w] = y] /\ comp[w] < w
          /\ \A S \in SUBSET V : ClosedBelow(S, w) => (comp[w] \in S <=> y \in S)
      BY <1>1, <3>1, CompressFacts
    <3>3. r # w /\ r \in V
      BY <1>1, <1>2, <1>4, <2>4, <3>1 DEF PhaseInv, CompressWrite
    <3>. HIDE DEF w, y
    <3>4. comp'[r] = comp[r]
      BY <1>2, <3>2, <3>3
    <3>5. ASSUME NEW S \in SUBSET V, ClosedBelow(S, r)' PROVE ClosedBelow(S, r)
      <4>1. \A m \in V : m < r /\ m # w => (m \in S <=> comp[m] \in S)
        BY <1>2, <2>1, <3>2, <3>5 DEF ClosedBelow
      <4>2. ASSUME w < r PROVE w \in S <=> comp[w] \in S
        <5>0. w \in Int /\ r \in Int
          BY <1>2, <3>2, <3>3
        <5>1. ASSUME NEW m \in V, m < w PROVE m < r /\ m # w
          <6>1. m \in Int
            BY <1>2
          <6>. QED BY <4>2, <5>0, <5>1, <6>1
        <5>2. ClosedBelow(S, w)
          BY <4>1, <5>1 DEF ClosedBelow
        <5>3. w \in S <=> y \in S
          BY <1>2, <2>1, <3>2, <3>5, <4>2 DEF ClosedBelow
        <5>. QED BY <3>2, <5>2, <5>3
      <4>. QED BY <4>1, <4>2 DEF ClosedBelow
    <3>. HIDE DEF r
    <3>6. CompressInv(s)
      BY <1>1
    <3>. QED BY <2>1, <3>4, <3>5, <3>6 DEF CompressInv, r
  <2>. QED BY <2>2, <2>3, <2>4
<1>5. ASSUME ThreadStep(s) PROVE CompressInv(s)'
  <2>1. CASE Claim(s) \/ SkipLargest(s) \/ EndIteration(s) \/ LinkStep(s) \/ CompressWrite(s)
    <3>1. pc'[s] \notin {"read", "write"}
      <4>1. CASE LinkStep(s)
        BY <1>1, <4>1, LinkPlace DEF InLink
      <4>2. CASE Claim(s)
        BY <1>1, <4>2, ClaimPlace DEF Loops
      <4>3. CASE SkipLargest(s) \/ EndIteration(s) \/ CompressWrite(s)
        BY <1>1, <4>3 DEF SkipLargest, EndIteration, CompressWrite, Leave, Goto, TypeOK
      <4>. QED BY <2>1, <4>1, <4>2, <4>3
    <3>. QED BY <3>1 DEF CompressInv
  <2>2. CASE CompressTest(s)
    <3>1. CASE comp[u[s]] = comp[comp[u[s]]]
      <4>1. pc'[s] = "idle"
        BY <1>1, <2>2, <3>1 DEF CompressTest, Leave, Goto, TypeOK
      <4>. QED BY <4>1 DEF CompressInv
    <3>2. CASE comp[u[s]] # comp[comp[u[s]]]
      <4>1. pc'[s] = "read" /\ u' = u /\ comp' = comp
        BY <1>1, <2>2, <3>2 DEF CompressTest, Goto, TypeOK, shared
      <4>2. comp[u[s]] # u[s] /\ comp[u[s]] <= u[s] /\ comp[u[s]] \in V
        BY <1>1, <1>2, <3>2 DEF LabelsSound
      <4>3. comp[u[s]] \in Int /\ u[s] \in Int
        BY <1>2, <4>2
      <4>4. comp[u[s]] < u[s]
        BY <4>2, <4>3
      <4>. QED BY <4>1, <4>4 DEF CompressInv
    <3>. QED BY <3>1, <3>2
  <2>3. CASE CompressRead(s)
    <3>1. pc'[s] = "write" /\ u' = u /\ comp' = comp /\ x'[s] = comp[comp[u[s]]]
      BY <1>1, <2>3 DEF CompressRead, Goto, TypeOK, shared
    <3>2. comp[u[s]] < u[s] /\ comp[u[s]] \in V
      BY <1>1, <1>2, <2>3 DEF CompressInv, CompressRead
    <3>3. x'[s] <= comp[u[s]]
      BY <1>1, <3>1, <3>2 DEF LabelsSound
    <3>4. \A S \in SUBSET V : ClosedBelow(S, u[s]) => (comp[u[s]] \in S <=> x'[s] \in S)
      BY <3>1, <3>2 DEF ClosedBelow
    <3>. QED BY <3>1, <3>2, <3>3, <3>4 DEF CompressInv, ClosedBelow
  <2>. QED BY <1>5, <2>1, <2>2, <2>3 DEF ThreadStep, CompressStep
<1>6. CASE Program \/ UNCHANGED vars
  <2>1. comp' = comp /\ pc' = pc /\ u' = u /\ x' = x
    BY <1>6 DEF Program, EndLoop, SampleFrequentElement, locals, vars
  <2>. QED BY <1>3, <2>1
<1>. QED BY <1>4, <1>5, <1>6 DEF Next, Terminated
-----------------------------------------------------------------------------
(* Link: what a thread reads stays in the tree it was read in, as trees    *)
(* only grow.                                                              *)
LEMMA LinkKept ==
  ASSUME ForestInv, [Next]_vars, NEW s \in Threads,
         pc'[s] = pc[s], u'[s] = u[s], nbrs'[s] = nbrs[s], v'[s] = v[s],
         p1'[s] = p1[s], p2'[s] = p2[s], x'[s] = x[s]
  PROVE  LinkInv(s)'
<1>1. LinkInv(s) /\ g' = g
  BY WhoWrites DEF ForestInv, SoundInv
<1>2. High(s)' = High(s)
  BY DEF High
<1>3. \A a, b : SameTree(a, b) => SameTree(a, b)'
  BY TreesGrow
<1>. QED BY <1>1, <1>2, <1>3 DEF LinkInv, Adjacent

(* Link holds a label of each of its two vertices' trees.                  *)
Holds(t, a, b) ==
  \/ SameTree(u[t], a) /\ SameTree(v[t], b)
  \/ SameTree(u[t], b) /\ SameTree(v[t], a)

LEMMA LinkTested ==
  ASSUME ForestInv, [Next]_vars, NEW t \in Threads, NEW a \in V, NEW b \in V,
         LoopTest(t, a, b), u' = u, nbrs' = nbrs, pc[t] \in InLink,
         Holds(t, a, b)
  PROVE  LinkInv(t)'
<1>1. TypeOK /\ LinkInv(t) /\ g' = g
  BY WhoWrites DEF ForestInv, SoundInv
<1>2. \A m \in Elems(nbrs'[t]) : Adjacent(u[t], m)
  BY <1>1 DEF LinkInv
<1>3. CASE a = b
  <2>1. pc'[t] = "edge"
    BY <1>1, <1>3 DEF LoopTest, Goto, TypeOK
  <2>. QED BY <1>1, <1>2, <2>1 DEF LinkInv, Adjacent, InLink
<1>4. CASE a # b
  <2>1. pc'[t] = "readHigh" /\ p1'[t] = a /\ p2'[t] = b /\ v' = v
    BY <1>1, <1>4 DEF LoopTest, Goto, TypeOK
  <2>2. Adjacent(u[t], v[t])
    BY <1>1 DEF LinkInv
  <2>3. \A k, l : SameTree(k, l) => SameTree(k, l)'
    BY TreesGrow
  <2>. QED BY <1>1, <1>2, <2>1, <2>2, <2>3 DEF LinkInv, Adjacent, Holds
<1>. QED BY <1>3, <1>4

LEMMA LinkLinkStep ==
  ASSUME ForestInv, [Next]_vars, NEW t \in Threads, LinkStep(t)
  PROVE  LinkInv(t)'
<1>1. /\ TypeOK /\ LinkInv(t) /\ g' = g
      /\ \A k, l : SameTree(k, l) => SameTree(k, l)'
  BY WhoWrites, TreesGrow DEF ForestInv, SoundInv
<1>2. u[t] \in V /\ v[t] \in V /\ p1[t] \in V /\ x[t] \in V /\ comp \in [V -> V]
  BY <1>1 DEF TypeOK
<1>3. /\ High(t) \in V /\ Low(t) \in V
      /\ \/ High(t) = p1[t] /\ Low(t) = p2[t]
         \/ High(t) = p2[t] /\ Low(t) = p1[t]
  BY <1>1, HighLow
<1>4. CASE ReadP1(t)
  <2>1. /\ pc'[t] = "readP2" /\ u' = u /\ v'[t] = Head(nbrs[t])
        /\ nbrs'[t] = Tail(nbrs[t]) /\ p1'[t] = comp[u[t]] /\ comp' = comp
        /\ nbrs[t] \in Seq(V) /\ nbrs[t] # <<>>
    BY <1>1, <1>4 DEF ReadP1, Goto, TypeOK, shared
  <2>2. Head(nbrs[t]) \in Elems(nbrs[t])
    BY <2>1 DEF Elems
  <2>3. Elems(Tail(nbrs[t])) \subseteq Elems(nbrs[t])
    <3>1. \A i \in DOMAIN Tail(nbrs[t]) :
            i + 1 \in DOMAIN nbrs[t] /\ Tail(nbrs[t])[i] = nbrs[t][i + 1]
      BY <2>1
    <3>. QED BY <3>1 DEF Elems
  <2>4. SameTree(u[t], comp[u[t]])
    BY <1>2, SameTreeParent
  <2>. QED BY <1>1, <2>1, <2>2, <2>3, <2>4 DEF LinkInv, Adjacent
<1>5. CASE ReadP2(t)
  <2>1. SameTree(u[t], p1[t]) /\ SameTree(v[t], comp[v[t]]) /\ comp[v[t]] \in V
    BY <1>1, <1>2, <1>5, SameTreeParent DEF ReadP2, LinkInv
  <2>2. LoopTest(t, p1[t], comp[v[t]]) /\ u' = u /\ nbrs' = nbrs /\ pc[t] \in InLink
    BY <1>5 DEF ReadP2, InLink
  <2>3. PICK a \in V, b \in V : a = p1[t] /\ b = comp[v[t]]
    BY <1>2, <2>1
  <2>4. LoopTest(t, a, b) /\ u' = u /\ nbrs' = nbrs /\ pc[t] \in InLink
    BY <2>2, <2>3 DEF LoopTest
  <2>5. Holds(t, a, b)
    BY <2>1, <2>3 DEF Holds
  <2>. QED BY <2>3, <2>4, <2>5, LinkTested
<1>6. CASE ReadHigh(t) \/ CompareAndSwap(t)
  <2>1. /\ u' = u /\ nbrs' = nbrs /\ pc[t] \in InLink \ {"readP2"}
        /\ \/ pc'[t] = "edge"
           \/ pc'[t] \in {"cas", "readParent"} /\ v' = v /\ p1' = p1 /\ p2' = p2
    <3>1. CASE ReadHigh(t)
      BY <1>1, <3>1 DEF ReadHigh, Goto, TypeOK, InLink
    <3>2. CASE CompareAndSwap(t)
      BY <1>1, <3>2 DEF CompareAndSwap, Goto, TypeOK, InLink
    <3>. QED BY <1>6, <3>1, <3>2
  <2>2. CASE pc'[t] = "edge"
    BY <1>1, <2>1, <2>2 DEF LinkInv, Adjacent, InLink
  <2>3. CASE pc'[t] # "edge"
    BY <1>1, <2>1, <2>3 DEF LinkInv, Adjacent
  <2>. QED BY <2>2, <2>3
<1>7. CASE ReadParent(t)
  <2>1. /\ pc[t] = "readParent" /\ pc'[t] = "readGrandparent" /\ UNCHANGED <<u, nbrs, v, p1, p2>>
        /\ x'[t] = comp[High(t)] /\ High(t)' = High(t)
    BY <1>1, <1>7 DEF ReadParent, Goto, TypeOK, High
  <2>2. SameTree(High(t), comp[High(t)])
    BY <1>3, SameTreeParent
  <2>. QED BY <1>1, <2>1, <2>2 DEF LinkInv, Adjacent, InLink
<1>8. CASE ReadGrandparent(t)
  <2>1. /\ pc[t] = "readGrandparent" /\ pc'[t] = "readLow" /\ UNCHANGED <<u, nbrs, v, p1, p2>>
        /\ x'[t] = comp[x[t]] /\ High(t)' = High(t)
    BY <1>1, <1>8 DEF ReadGrandparent, Goto, TypeOK, High
  <2>2. SameTree(High(t), x[t]) /\ SameTree(x[t], comp[x[t]])
    BY <1>1, <1>2, <2>1, SameTreeParent DEF LinkInv
  <2>3. SameTree(High(t), comp[x[t]])
    BY <2>2, SameTreeTrans
  <2>. QED BY <1>1, <2>1, <2>3 DEF LinkInv, Adjacent, InLink
<1>9. CASE ReadLow(t)
  <2>1. /\ LoopTest(t, x[t], comp[Low(t)]) /\ u' = u /\ nbrs' = nbrs
        /\ pc[t] = "readLow" /\ comp[Low(t)] \in V
    BY <1>2, <1>3, <1>9 DEF ReadLow
  <2>2. SameTree(High(t), x[t]) /\ SameTree(Low(t), comp[Low(t)])
    BY <1>1, <1>3, <2>1, SameTreeParent DEF LinkInv
  <2>3. \/ SameTree(u[t], High(t)) /\ SameTree(v[t], Low(t))
        \/ SameTree(u[t], Low(t)) /\ SameTree(v[t], High(t))
    BY <1>1, <1>3, <2>1 DEF LinkInv, InLink
  <2>4. \/ SameTree(u[t], x[t]) /\ SameTree(v[t], comp[Low(t)])
        \/ SameTree(u[t], comp[Low(t)]) /\ SameTree(v[t], x[t])
    BY <2>2, <2>3, SameTreeTrans
  <2>5. PICK a \in V, b \in V : a = x[t] /\ b = comp[Low(t)]
    BY <1>2, <2>1
  <2>6. LoopTest(t, a, b) /\ u' = u /\ nbrs' = nbrs /\ pc[t] \in InLink
    BY <2>1, <2>5 DEF LoopTest, InLink
  <2>7. Holds(t, a, b)
    BY <2>4, <2>5 DEF Holds
  <2>. QED BY <2>5, <2>6, <2>7, LinkTested
<1>. QED BY <1>4, <1>5, <1>6, <1>7, <1>8, <1>9 DEF LinkStep

LEMMA LinkStepInv ==
  ASSUME ForestInv, [Next]_vars, NEW s \in Threads
  PROVE  LinkInv(s)'
<1>1. TypeOK /\ LinkInv(s) /\ g' = g
  BY WhoWrites DEF ForestInv, SoundInv
<1>2. ASSUME NEW t \in Threads, ThreadStep(t), s # t PROVE LinkInv(s)'
  BY <1>1, <1>2, OneThread, LinkKept
<1>3. ASSUME ThreadStep(s) PROVE LinkInv(s)'
  <2>1. CASE Claim(s)
    <3>1. PICK n \in todo :
            /\ u'[s] = n
            /\ phase = "link" => pc'[s] = "edge" /\ nbrs'[s] = SampledNeigh(n)
            /\ phase # "link" => nbrs'[s] = <<>>
            /\ pc'[s] \in {"edge", "skip", "test"}
      BY <1>1, <2>1, ClaimPlace DEF Loops
    <3>2. n \in V
      BY <1>1 DEF TypeOK
    <3>3. \A m \in Elems(nbrs'[s]) : Adjacent(n, m)
      <4>1. CASE phase = "link"
        BY <1>1, <3>1, <3>2, <4>1, SampledElems
      <4>2. CASE phase # "link"
        BY <3>1, <4>2 DEF Elems
      <4>. QED BY <4>1, <4>2
    <3>. QED BY <1>1, <3>1, <3>3 DEF LinkInv, Adjacent, InLink
  <2>2. CASE SkipLargest(s)
    <3>1. CASE comp[u[s]] = c
      <4>1. pc'[s] = "idle" /\ nbrs'[s] = nbrs[s] /\ nbrs[s] = <<>>
        BY <1>1, <2>2, <3>1
        DEF SkipLargest, Leave, Goto, TypeOK, ForestInv, SoundInv, ThreadInv, InLink
      <4>. QED BY <4>1 DEF LinkInv, InLink, Elems
    <3>2. CASE comp[u[s]] # c
      <4>1. pc'[s] = "edge" /\ u' = u /\ nbrs'[s] = RemainingNeigh(u[s]) /\ u[s] \in V
        BY <1>1, <2>2, <3>2 DEF SkipLargest, Goto, TypeOK
      <4>2. \A m \in Elems(RemainingNeigh(u[s])) : Adjacent(u[s], m)
        BY <1>1, <4>1, RemainingElems
      <4>. QED BY <1>1, <4>1, <4>2 DEF LinkInv, Adjacent, InLink
    <3>. QED BY <3>1, <3>2
  <2>3. CASE EndIteration(s)
    <3>1. pc'[s] = "idle" /\ nbrs'[s] = <<>>
      BY <1>1, <2>3 DEF EndIteration, Leave, Goto, TypeOK
    <3>. QED BY <3>1 DEF LinkInv, InLink, Elems
  <2>4. CASE CompressStep(s)
    <3>1. pc'[s] \in InCompress \cup {"idle"} /\ nbrs'[s] = <<>>
      BY <1>1, <2>4, CompressPlace DEF ForestInv, SoundInv, ThreadInv, InLink, InCompress
    <3>. QED BY <3>1 DEF LinkInv, InLink, InCompress, Elems
  <2>. QED BY <1>3, <2>1, <2>2, <2>3, <2>4, LinkLinkStep DEF ThreadStep
<1>4. CASE Program \/ UNCHANGED vars
  BY <1>4, LinkKept DEF Program, EndLoop, SampleFrequentElement, locals, vars
<1>. QED BY <1>2, <1>3, <1>4 DEF Next, Terminated
-----------------------------------------------------------------------------
(* A neighbour is struck off only when its edge is inside one tree.        *)
LEMMA SameTreeNext ==
  /\ \A a, b : SameTree(a, b)' => SameTree(b, a)'
  /\ \A a, b, d : SameTree(a, b)' /\ SameTree(b, d)' => SameTree(a, d)'
BY DEF SameTree

LEMMA LinkEnds ==
  ASSUME ForestInv, [Next]_vars, NEW t \in Threads, LinkStep(t),
         pc[t] \in InLink, pc'[t] = "edge", NEW n \in V, NEW m \in V, u[t] = n, v[t] = m
  PROVE  SameTree(n, m)'
<1>1. /\ SoundInv /\ TypeOK /\ LinkInv(t)
      /\ \A k, l : SameTree(k, l) => SameTree(k, l)'
  BY TreesGrow DEF ForestInv, SoundInv
<1>2. PICK h \in V, l \in V :
        /\ h = High(t) /\ l = Low(t)
        /\ \/ h = p1[t] /\ l = p2[t]
           \/ h = p2[t] /\ l = p1[t]
  BY <1>1, HighLow
<1>3. pc[t] # "readP2" => \/ SameTree(n, h) /\ SameTree(m, l)
                          \/ SameTree(n, l) /\ SameTree(m, h)
  BY <1>1, <1>2 DEF LinkInv
<1>4. pc[t] # "readP2" /\ SameTree(h, l) => SameTree(n, m)
  BY <1>3, SameTreeSym, SameTreeTrans
<1>5. CASE ReadP2(t)
  <2>1. p1[t] = comp[m]
    BY <1>1, <1>5 DEF ReadP2, LoopTest, Goto, TypeOK
  <2>2. SameTree(n, p1[t]) /\ SameTree(m, p1[t])
    BY <1>1, <1>5, <2>1, SameTreeParent DEF ReadP2, LinkInv
  <2>. QED BY <1>1, <2>2, SameTreeSym, SameTreeTrans
<1>6. CASE ReadHigh(t)
  <2>1. comp[h] = l
    BY <1>1, <1>2, <1>6 DEF ReadHigh, Goto, TypeOK
  <2>2. SameTree(h, l)
    BY <1>2, <2>1, SameTreeParent
  <2>. QED BY <1>1, <1>4, <1>6, <2>2 DEF ReadHigh
<1>7. CASE CompareAndSwap(t)
  <2>1. comp[High(t)] = High(t)
    BY <1>1, <1>7 DEF CompareAndSwap, Goto, TypeOK
  <2>2. \A S \in SUBSET V : PointerClosed(S)' <=> PointerClosed(S) /\ (h \in S <=> l \in S)
    BY <1>1, <1>2, <1>7, <2>1, SwapJoins
  <2>3. pc[t] # "readP2"
    BY <1>7 DEF CompareAndSwap
  <2>. QED BY <1>3, <2>2, <2>3 DEF SameTree
<1>8. CASE ReadP1(t) \/ ReadParent(t) \/ ReadGrandparent(t)
  BY <1>1, <1>8 DEF ReadP1, ReadParent, ReadGrandparent, Goto, TypeOK
<1>9. CASE ReadLow(t)
  <2>1. x[t] = comp[l]
    BY <1>1, <1>2, <1>9 DEF ReadLow, LoopTest, Goto, TypeOK
  <2>2. SameTree(h, x[t]) /\ SameTree(l, x[t])
    BY <1>1, <1>2, <1>9, <2>1, SameTreeParent DEF ReadLow, LinkInv
  <2>3. SameTree(h, l)
    BY <2>2, SameTreeSym, SameTreeTrans
  <2>. QED BY <1>1, <1>4, <1>9, <2>3 DEF ReadLow
<1>. QED BY <1>5, <1>6, <1>7, <1>8, <1>9 DEF LinkStep

(* What is pending at a thread stays so until it is settled.               *)
LEMMA PendingStep ==
  ASSUME ForestInv, [Next]_vars, NEW t \in Threads, ThreadStep(t),
         NEW n \in V, NEW m \in V, m \in Owed(n), Pending(t, n, m)
  PROVE  Settled(n, m)' \/ Pending(t, n, m)'
<1>1. /\ SoundInv /\ TypeOK /\ PhaseInv /\ phase' = phase /\ c' = c
      /\ \A k, l : SameTree(k, l) => SameTree(k, l)'
  BY TreesGrow, ThreadShared DEF ForestInv, SoundInv
<1>2. u[t] = n /\ pc[t] \in {"skip", "edge"} \cup InLink
  BY DEF Pending
<1>3. CASE SkipLargest(t)
  <2>1. pc[t] = "skip" /\ phase = "final"
    BY <1>1, <1>3 DEF SkipLargest, PhaseInv
  <2>2. CASE comp[u[t]] = c
    <3>1. SameTree(n, c)
      BY <1>2, <2>2, SameTreeParent
    <3>. QED BY <1>1, <2>1, <3>1 DEF Settled
  <2>3. CASE comp[u[t]] # c
    <3>1. pc'[t] = "edge" /\ u' = u /\ nbrs'[t] = RemainingNeigh(n)
      BY <1>1, <1>2, <1>3, <2>3 DEF SkipLargest, Goto, TypeOK
    <3>2. Owed(n) = Elems(RemainingNeigh(n))
      BY <2>1 DEF Owed
    <3>. QED BY <1>2, <3>1, <3>2 DEF Pending
  <2>. QED BY <2>2, <2>3
<1>4. CASE ReadP1(t)
  <2>1. /\ pc[t] = "edge" /\ pc'[t] = "readP2" /\ u' = u /\ v'[t] = Head(nbrs[t])
        /\ nbrs'[t] = Tail(nbrs[t]) /\ nbrs[t] \in Seq(V) /\ nbrs[t] # <<>>
    BY <1>1, <1>4 DEF ReadP1, Goto, TypeOK
  <2>2. m \in Elems(nbrs[t])
    BY <2>1 DEF Pending, InLink
  <2>3. m = Head(nbrs[t]) \/ m \in Elems(Tail(nbrs[t]))
    <3>1. PICK i \in DOMAIN nbrs[t] : m = nbrs[t][i]
      BY <2>2 DEF Elems
    <3>2. CASE i = 1
      BY <2>1, <3>1, <3>2
    <3>3. CASE i # 1
      <4>1. i - 1 \in DOMAIN Tail(nbrs[t]) /\ Tail(nbrs[t])[i - 1] = nbrs[t][i]
        BY <2>1, <3>1, <3>3
      <4>. QED BY <3>1, <4>1 DEF Elems
    <3>. QED BY <3>2, <3>3
  <2>. QED BY <1>2, <2>1, <2>3 DEF Pending, InLink
<1>5. CASE LinkStep(t) /\ ~ReadP1(t)
  <2>1. /\ pc[t] \in InLink /\ pc'[t] \in InLink \cup {"edge"} /\ u' = u /\ nbrs' = nbrs
        /\ pc'[t] \in InLink => v' = v
    BY <1>1, <1>5, LinkPlace
  <2>2. CASE m \in Elems(nbrs[t])
    BY <1>2, <2>1, <2>2 DEF Pending
  <2>3. CASE m \notin Elems(nbrs[t])
    <3>1. v[t] = m
      BY <2>1, <2>3 DEF Pending, InLink
    <3>2. CASE pc'[t] \in InLink
      BY <1>2, <2>1, <3>1, <3>2 DEF Pending
    <3>3. CASE pc'[t] = "edge"
      BY <1>2, <1>5, <2>1, <3>1, <3>3, LinkEnds DEF Settled
    <3>. QED BY <2>1, <3>2, <3>3
  <2>. QED BY <2>2, <2>3
<1>6. CASE Claim(t) \/ EndIteration(t) \/ CompressStep(t)
  <2>1. ~Claim(t) /\ ~CompressStep(t)
    BY <1>1, <1>2, CompressPlace DEF Claim, InLink, InCompress
  <2>2. pc[t] = "edge" /\ nbrs[t] = <<>>
    BY <1>6, <2>1 DEF EndIteration
  <2>. QED BY <2>2 DEF Pending, InLink, Elems
<1>. QED BY <1>3, <1>4, <1>5, <1>6 DEF ThreadStep

LEMMA LinksOwedStep ==
  ASSUME ForestInv, [Next]_vars
  PROVE  LinksOwed'
<1>1. /\ TypeOK /\ PhaseInv /\ LinksOwed /\ g' = g
      /\ \A k, l : SameTree(k, l) => SameTree(k, l)'
  BY TreesGrow, WhoWrites DEF ForestInv, SoundInv
<1>2. ASSUME phase' = phase, round' = round PROVE \A n \in V : Owed(n)' = Owed(n)
  BY <1>1, <1>2 DEF Owed, SampledNeigh, RemainingNeigh, OutNeigh, InNeigh, Neighborhood, Elems
<1>3. \A n \in V : \A m \in Owed(n) : m \in V
  BY <1>1, SampledElems, RemainingElems DEF Owed
<1>4. ASSUME NEW t \in Threads, ThreadStep(t) PROVE LinksOwed'
  <2>1. phase' = phase /\ round' = round /\ c' = c /\ (~Claim(t) => todo' = todo)
    BY <1>1, <1>4, ThreadShared
  <2>. SUFFICES ASSUME phase \in {"link", "final"}, NEW n \in V, NEW m \in Owed(n)
                PROVE  n \in todo' \/ Settled(n, m)' \/ \E s \in Threads : Pending(s, n, m)'
    BY <1>2, <2>1 DEF LinksOwed
  <2>2. m \in V
    BY <1>3
  <2>3. CASE Settled(n, m)
    BY <1>1, <2>1, <2>3 DEF Settled
  <2>4. CASE n \in todo
    <3>1. CASE n \in todo'
      BY <3>1
    <3>2. CASE n \notin todo'
      <4>1. Claim(t)
        BY <2>1, <2>4, <3>2
      <4>2. PICK k \in todo :
              /\ todo' = todo \ {k} /\ u'[t] = k
              /\ phase = "link" => pc'[t] = "edge" /\ nbrs'[t] = SampledNeigh(k)
              /\ phase = "final" => pc'[t] = "skip"
        BY <1>1, <4>1, ClaimPlace
      <4>3. k = n
        BY <2>4, <3>2, <4>2
      <4>4. phase = "link" => m \in Elems(SampledNeigh(n))
        BY DEF Owed
      <4>5. Pending(t, n, m)'
        BY <4>2, <4>3, <4>4 DEF Pending
      <4>. QED BY <4>5
    <3>. QED BY <3>1, <3>2
  <2>5. ASSUME NEW s \in Threads, Pending(s, n, m)
        PROVE  Settled(n, m)' \/ \E r \in Threads : Pending(r, n, m)'
    <3>1. CASE s = t
      BY <1>4, <2>2, <2>5, <3>1, PendingStep
    <3>2. CASE s # t
      <4>1. pc'[s] = pc[s] /\ u'[s] = u[s] /\ nbrs'[s] = nbrs[s] /\ v'[s] = v[s]
        BY <1>1, <1>4, <3>2, OneThread
      <4>. QED BY <2>5, <4>1 DEF Pending
    <3>. QED BY <3>1, <3>2
  <2>. QED BY <1>1, <2>3, <2>4, <2>5 DEF LinksOwed
<1>5. CASE EndLoop
  <2>1. todo' = V
    BY <1>5 DEF EndLoop
  <2>. QED BY <2>1 DEF LinksOwed
<1>6. CASE SampleFrequentElement
  <2>1. todo' = V
    BY <1>1, <1>6 DEF SampleFrequentElement, PhaseInv
  <2>. QED BY <2>1 DEF LinksOwed
<1>7. CASE UNCHANGED vars
  <2>1. phase' = phase /\ round' = round /\ todo' = todo /\ c' = c /\ pc' = pc /\ u' = u
        /\ nbrs' = nbrs /\ v' = v
    BY <1>7 DEF vars
  <2>2. \A s, n, m : Pending(s, n, m) => Pending(s, n, m)'
    BY <2>1 DEF Pending
  <2>3. \A n, m : Settled(n, m) => Settled(n, m)'
    BY <1>1, <2>1 DEF Settled
  <2>. QED BY <1>1, <1>2, <2>1, <2>2, <2>3 DEF LinksOwed
<1>. QED BY <1>4, <1>5, <1>6, <1>7 DEF Next, Program, Terminated
-----------------------------------------------------------------------------
(* A compression loop leaves every vertex it has come to flat, although    *)
(* others move the labels on its path meanwhile.                           *)
LEMMA FlattensThread ==
  ASSUME ForestInv, NEW t \in Threads, ThreadStep(t), phase \in {"compress", "finalCompress"},
         NEW n \in V, Flat(n) \/ n \in todo \/ \E s \in Threads : pc[s] \in InCompress /\ u[s] = n
  PROVE  Flat(n)' \/ n \in todo' \/ \E s \in Threads : pc'[s] \in InCompress /\ u'[s] = n
<1>1. SoundInv /\ TypeOK /\ PhaseInv /\ comp \in [V -> V] /\ u[t] \in V
  BY DEF ForestInv, SoundInv, TypeOK
<1>2. \A s \in Threads \ {t} : pc'[s] = pc[s] /\ u'[s] = u[s]
  BY <1>1, OneThread
<1>3. CASE Claim(t)
  <2>1. PICK m \in todo :
          /\ todo' = todo \ {m} /\ u'[t] = m /\ pc'[t] = "test" /\ pc[t] = "idle" /\ comp' = comp
    BY <1>1, <1>3, ClaimPlace
  <2>. QED BY <1>2, <2>1 DEF Flat, InCompress
<1>4. CASE CompressTest(t)
  <2>1. CASE comp[u[t]] = comp[comp[u[t]]]
    <3>1. comp' = comp /\ todo' = todo
      BY <1>4 DEF CompressTest, shared
    <3>2. CASE n = u[t]
      BY <2>1, <3>1, <3>2 DEF Flat
    <3>3. CASE n # u[t]
      BY <1>2, <3>1, <3>3 DEF Flat
    <3>. QED BY <3>2, <3>3
  <2>2. CASE comp[u[t]] # comp[comp[u[t]]]
    <3>1. comp' = comp /\ todo' = todo /\ u' = u /\ pc'[t] = "read"
      BY <1>1, <1>4, <2>2 DEF CompressTest, shared, Goto, TypeOK
    <3>. QED BY <1>2, <3>1 DEF Flat, InCompress
  <2>. QED BY <2>1, <2>2
<1>5. CASE CompressRead(t)
  <2>1. comp' = comp /\ todo' = todo /\ u' = u /\ pc'[t] = "write"
    BY <1>1, <1>5 DEF CompressRead, shared, Goto, TypeOK
  <2>. QED BY <1>2, <2>1 DEF Flat, InCompress
<1>6. CASE CompressWrite(t)
  <2>1. comp' = [comp EXCEPT ![u[t]] = x[t]] /\ todo' = todo /\ u' = u /\ pc'[t] = "test"
    BY <1>1, <1>6 DEF CompressWrite, Goto, TypeOK
  <2>2. comp[u[t]] # u[t]
    <3>1. CompressInv(t) /\ \A k \in V : k \in Int
      BY NumNodesAssumption DEF ForestInv, V
    <3>. QED BY <1>1, <1>6, <3>1 DEF CompressInv, CompressWrite
  <2>3. CASE n = u[t]
    BY <2>1, <2>3 DEF InCompress
  <2>4. CASE n # u[t] /\ Flat(n)
    BY <1>1, <2>1, <2>2, <2>4 DEF Flat
  <2>5. CASE n # u[t] /\ ~Flat(n)
    BY <1>2, <2>1, <2>5
  <2>. QED BY <2>3, <2>4, <2>5
<1>7. Claim(t) \/ CompressStep(t)
  <2>1. pc[t] \notin {"skip", "edge"} \cup InLink
    BY <1>1 DEF PhaseInv
  <2>. QED BY <1>1, <2>1, LinkPlace DEF ThreadStep, SkipLargest, EndIteration
<1>. QED BY <1>3, <1>4, <1>5, <1>6, <1>7 DEF CompressStep

LEMMA FlattensStep ==
  ASSUME ForestInv, [Next]_vars
  PROVE  Flattens'
<1>1. SoundInv /\ TypeOK /\ PhaseInv /\ Flattens
  BY DEF ForestInv, SoundInv
<1>2. ASSUME NEW t \in Threads, ThreadStep(t) PROVE Flattens'
  <2>1. phase' = phase
    BY <1>1, <1>2, ThreadShared
  <2>2. phase \notin {"sample", "done"}
    <3>1. phase \in {"sample", "done"} => pc[t] = "idle"
      BY <1>1 DEF PhaseInv, TypeOK, Labels
    <3>2. phase \in {"sample", "done"} => ~Claim(t)
      BY DEF Claim, Loops
    <3>. QED BY <1>1, <1>2, <3>1, <3>2, LinkPlace, CompressPlace
         DEF ThreadStep, SkipLargest, EndIteration, InLink, InCompress
  <2>3. ASSUME phase \in {"compress", "finalCompress"}, NEW n \in V
        PROVE  Flat(n)' \/ n \in todo' \/ \E s \in Threads : pc'[s] \in InCompress /\ u'[s] = n
    BY <1>1, <1>2, <2>3, FlattensThread DEF Flattens
  <2>. QED BY <2>1, <2>2, <2>3 DEF Flattens
<1>3. CASE EndLoop
  <2>1. comp' = comp /\ todo = {} /\ todo' = V /\ \A t \in Threads : pc[t] = "idle"
    BY <1>3 DEF EndLoop
  <2>2. phase' \in {"sample", "done"} => phase \in {"compress", "finalCompress"}
    BY <1>3 DEF EndLoop, AfterLoop, Loops
  <2>3. phase' \in {"sample", "done"} => \A n \in V : Flat(n)
    BY <1>1, <2>1, <2>2 DEF Flattens, InCompress
  <2>. QED BY <2>1, <2>3 DEF Flattens, Flat
<1>4. CASE SampleFrequentElement
  BY <1>4 DEF SampleFrequentElement, Flattens
<1>5. CASE UNCHANGED vars
  BY <1>1, <1>5 DEF vars, Flattens, Flat
<1>. QED BY <1>2, <1>3, <1>4, <1>5 DEF Next, Program, Terminated
-----------------------------------------------------------------------------
(* At the end of a link loop nothing is owed any more.                     *)
LEMMA NothingOwed ==
  ASSUME ForestInv, phase \in {"link", "final"}, todo = {}, \A t \in Threads : pc[t] = "idle",
         NEW n \in V, NEW m \in Owed(n)
  PROVE  Settled(n, m)
<1>1. \A t \in Threads : ~Pending(t, n, m)
  BY DEF Pending, InLink
<1>. QED BY <1>1 DEF ForestInv, LinksOwed

(* After the final loop every edge is joined: the edge is among those      *)
(* sampled, or one of its ends has linked it, or both ends were skipped,   *)
(* and then both hang in the tree of the largest component.                *)
LEMMA FinalLinks ==
  ASSUME ForestInv, phase = "final", todo = {}, \A t \in Threads : pc[t] = "idle"
  PROVE  AllJoined
<1>1. /\ TypeOK /\ SampledEdgesJoined /\ NeighborRounds \in Nat
      /\ RoundsLinked = NeighborRounds
  BY RoundsAssumption DEF ForestInv, SoundInv, JoinedInv, PhaseInv, RoundsLinked
<1>2. IsGraph(g)
  BY <1>1, GraphsAssumption DEF TypeOK
<1>3. ASSUME NEW a \in V, NEW b \in V, b \in Elems(g.out[a])
      PROVE  SameTree(a, b) \/ SameTree(a, c)
  <2>1. g.out[a] \in Seq(V)
    BY <1>2 DEF IsGraph
  <2>2. PICK i \in 1 .. Len(g.out[a]) : b = g.out[a][i]
    BY <1>3, <2>1 DEF Elems
  <2>3. CASE i <= NeighborRounds
    BY <1>1, <2>2, <2>3 DEF SampledEdgesJoined, OutDegree
  <2>4. CASE ~(i <= NeighborRounds)
    <3>1. b \in Elems(RemainingNeigh(a))
      BY <1>1, <2>2, <2>4, RemainingElems
    <3>2. b \in Owed(a)
      BY <3>1 DEF Owed
    <3>. QED BY <3>2, NothingOwed DEF Settled
  <2>. QED BY <2>3, <2>4
<1>4. ASSUME NEW a \in V, NEW b \in V, b \in Elems(g.out[a])
      PROVE  SameTree(b, a) \/ SameTree(b, c)
  <2>1. CASE g.directed
    <3>1. a \in Elems(g.in[b])
      BY <1>2, <1>4 DEF IsGraph
    <3>2. a \in Owed(b)
      BY <1>1, <2>1, <3>1, RemainingElems DEF Owed
    <3>. QED BY <3>2, NothingOwed DEF Settled
  <2>2. CASE ~g.directed
    <3>1. a \in Elems(g.out[b])
      BY <1>2, <1>4, <2>2 DEF IsGraph
    <3>. QED BY <1>3, <3>1
  <2>. QED BY <2>1, <2>2
<1>5. ASSUME NEW a \in V, NEW b \in V, b \in Elems(g.out[a]) PROVE SameTree(a, b)
  BY <1>3, <1>4, <1>5, SameTreeSym, SameTreeTrans
<1>. QED BY <1>5 DEF AllJoined, Edges

LEMMA JoinedStep ==
  ASSUME ForestInv, [Next]_vars
  PROVE  JoinedInv'
<1>1. /\ TypeOK /\ g' = g /\ JoinedInv /\ IsGraph(g) /\ round \in Nat
      /\ \A k, l : SameTree(k, l) => SameTree(k, l)'
  BY TreesGrow, WhoWrites, GraphsAssumption, RoundsAssumption DEF ForestInv, SoundInv, TypeOK
<1>2. ASSUME RoundsLinked' = RoundsLinked PROVE SampledEdgesJoined'
  BY <1>1, <1>2 DEF JoinedInv, SampledEdgesJoined, OutDegree
<1>3. ASSUME AllJoined PROVE AllJoined'
  BY <1>1, <1>3 DEF AllJoined
<1>4. CASE phase' = phase /\ round' = round
  <2>1. RoundsLinked' = RoundsLinked
    BY <1>4 DEF RoundsLinked
  <2>. QED BY <1>1, <1>2, <1>3, <1>4, <2>1 DEF JoinedInv
<1>5. CASE EndLoop
  <2>1. /\ phase \in Loops /\ todo = {} /\ \A t \in Threads : pc[t] = "idle"
        /\ phase' = AfterLoop[1] /\ round' = AfterLoop[2]
    BY <1>5 DEF EndLoop
  <2>2. SampledEdgesJoined'
    <3>1. CASE phase = "link"
      <4>1. RoundsLinked' = round + 1 /\ RoundsLinked = round
        BY <1>1, <2>1, <3>1 DEF AfterLoop, RoundsLinked
      <4>2. ASSUME NEW a \in V, round + 1 <= OutDegree(g, a)
            PROVE  SameTree(a, g.out[a][round + 1])
        <5>1. g.out[a][round + 1] \in Owed(a)
          BY <1>1, <3>1, <4>2, SampledElems DEF Owed
        <5>2. Settled(a, g.out[a][round + 1])
          BY <2>1, <3>1, <5>1, NothingOwed
        <5>. QED BY <3>1, <5>2 DEF Settled
      <4>3. ASSUME NEW a \in V, NEW i \in 1 .. round + 1, i <= OutDegree(g, a)
            PROVE  SameTree(a, g.out[a][i])
        BY <1>1, <4>1, <4>2, <4>3 DEF JoinedInv, SampledEdgesJoined
      <4>. QED BY <1>1, <4>1, <4>3 DEF SampledEdgesJoined, OutDegree
    <3>2. CASE phase # "link"
      <4>1. RoundsLinked' = RoundsLinked
        BY <1>1, <2>1, <3>2 DEF AfterLoop, RoundsLinked, Loops
      <4>. QED BY <1>2, <4>1
    <3>. QED BY <3>1, <3>2
  <2>3. phase' \in {"finalCompress", "done"} => AllJoined
    <3>1. phase' \in {"finalCompress", "done"} => phase \in {"final", "finalCompress"}
      BY <2>1 DEF AfterLoop, Loops
    <3>. QED BY <1>1, <2>1, <3>1, FinalLinks DEF JoinedInv
  <2>. QED BY <1>3, <2>2, <2>3 DEF JoinedInv
<1>6. CASE SampleFrequentElement
  <2>1. RoundsLinked' = RoundsLinked /\ phase' = "final"
    BY <1>6 DEF SampleFrequentElement, RoundsLinked
  <2>. QED BY <1>2, <2>1 DEF JoinedInv
<1>7. ASSUME NEW t \in Threads, ThreadStep(t) PROVE phase' = phase /\ round' = round
  BY <1>1, <1>7, ThreadShared
<1>. QED BY <1>4, <1>5, <1>6, <1>7 DEF Next, Program, Terminated, vars
-----------------------------------------------------------------------------
(* The conjuncts together.                                                 *)
LEMMA ForestStep == ForestInv /\ [Next]_vars => ForestInv'
<1>. SUFFICES ASSUME ForestInv, [Next]_vars PROVE ForestInv'
  OBVIOUS
<1>1. SoundInv'
  BY SoundStep DEF ForestInv
<1>2. PhaseInv'
  BY PhaseStep DEF ForestInv
<1>3. \A t \in Threads : LinkInv(t)' /\ CompressInv(t)'
  BY LinkStepInv, CompressStepInv
<1>4. LinksOwed' /\ Flattens' /\ JoinedInv'
  BY LinksOwedStep, FlattensStep, JoinedStep
<1>. QED BY <1>1, <1>2, <1>3, <1>4 DEF ForestInv
-----------------------------------------------------------------------------
(* The steps of ComponentMerge.                                            *)
Tree(n) == {m \in V : SameTree(n, m)}

LEMMA TreeFacts ==
  /\ \A n \in V : n \in Tree(n)
  /\ \A n, m \in V : m \in Tree(n) => Tree(m) = Tree(n)
  /\ Trees = {Tree(n) : n \in V}
<1>1. \A n \in V : n \in Tree(n)
  BY SameTreeRefl DEF Tree
<1>2. \A n, m \in V : m \in Tree(n) => Tree(m) = Tree(n)
  BY SameTreeSym, SameTreeTrans DEF Tree
<1>. QED BY <1>1, <1>2 DEF Trees, Tree

(* A tree is closed under the pointers.                                    *)
LEMMA TreeClosed ==
  ASSUME TypeOK, NEW n \in V
  PROVE  PointerClosed(Tree(n)) /\ Tree(n) \in SUBSET V
<1>1. \A k \in V : comp[k] \in V /\ SameTree(k, comp[k]) /\ SameTree(comp[k], k)
  BY SameTreeParent, SameTreeSym DEF TypeOK
<1>. QED BY <1>1, SameTreeTrans DEF Tree, PointerClosed

(* A root and a lower vertex are in different trees: what leads to the     *)
(* root is closed, and holds no vertex below it.                           *)
LEMMA RootApart ==
  ASSUME SoundInv, NEW h \in V, NEW l \in V, comp[h] = h, l < h
  PROVE  ~SameTree(h, l)
<1>. DEFINE Up(T) == h \in T /\ \A n \in V : comp[n] \in T => n \in T
            S == {m \in V : \A T \in SUBSET V : Up(T) => m \in T}
<1>1. comp \in [V -> V] /\ LabelsSound /\ \A n \in V : n \in Int
  BY NumNodesAssumption DEF SoundInv, TypeOK, V
<1>2. S \in SUBSET V /\ h \in S /\ \A n \in V : comp[n] \in S => n \in S
  BY <1>1
<1>3. ASSUME NEW n \in V, n \in S PROVE comp[n] \in S
  <2>. SUFFICES ASSUME comp[n] \notin S, n # h PROVE FALSE
    BY <1>2
  <2>1. Up(S \ {n})
    BY <1>2
  <2>. QED BY <1>3, <2>1
<1>4. PointerClosed(S)
  BY <1>2, <1>3 DEF PointerClosed
<1>5. l \notin S
  <2>. DEFINE T == {m \in V : m >= h}
  <2>1. \A n \in V : comp[n] >= h => n >= h
    <3>. SUFFICES ASSUME NEW n \in V, comp[n] >= h PROVE n >= h
      OBVIOUS
    <3>1. comp[n] \in Int /\ n \in Int /\ h \in Int /\ comp[n] <= n
      BY <1>1 DEF LabelsSound
    <3>. QED BY <3>1
  <2>2. Up(T)
    <3>1. h \in T
      BY <1>1
    <3>. QED BY <1>1, <2>1, <3>1
  <2>3. l \notin T
    <3>1. l \in Int /\ h \in Int
      BY <1>1
    <3>. QED BY <3>1
  <2>. QED BY <2>2, <2>3
<1>. HIDE DEF S
<1>. QED BY <1>2, <1>4, <1>5 DEF SameTree

(* A label written without a CAS leaves the trees as they are.             *)
LEMMA TreesKept ==
  ASSUME SoundInv,
         \/ comp' = comp
         \/ \E t \in Threads : CompressInv(t) /\ CompressWrite(t)
  PROVE  Trees' = Trees
<1>1. \A S \in SUBSET V : PointerClosed(S)' <=> PointerClosed(S)
  <2>1. CASE comp' = comp
    BY <2>1 DEF PointerClosed
  <2>2. ASSUME NEW t \in Threads, CompressInv(t), CompressWrite(t)
        PROVE  \A S \in SUBSET V : PointerClosed(S)' <=> PointerClosed(S)
    BY <2>2, CompressKeeps
  <2>. QED BY <2>1, <2>2
<1>2. \A a, b : SameTree(a, b)' <=> SameTree(a, b)
  BY <1>1 DEF SameTree
<1>. QED BY <1>2 DEF Trees

(* A CAS that succeeds brings two trees together, and no other.            *)
LEMMA SwapMerges ==
  ASSUME SoundInv, NEW t \in Threads, CompareAndSwap(t), comp[High(t)] = High(t)
  PROVE  /\ Tree(High(t)) # Tree(Low(t))
         /\ Trees' = (Trees \ {Tree(High(t)), Tree(Low(t))}) \cup {Tree(High(t)) \cup Tree(Low(t))}
<1>1. PICK h \in V, l \in V : h = High(t) /\ l = Low(t) /\ l < h /\ comp[h] = h
  BY SwapFacts
<1>2. \A S \in SUBSET V : PointerClosed(S)' <=> PointerClosed(S) /\ (h \in S <=> l \in S)
  BY <1>1, SwapJoins
<1>3. PICK A \in SUBSET V, B \in SUBSET V : A = Tree(h) /\ B = Tree(l)
  BY DEF Tree
<1>. DEFINE U == A \cup B
<1>4. h \in A /\ l \in B /\ A # B /\ PointerClosed(U)' /\ U \in SUBSET V
  <2>1. h \in A /\ l \in B /\ l \notin A
    BY <1>1, <1>3, RootApart, TreeFacts DEF Tree
  <2>2. PointerClosed(A) /\ PointerClosed(B)
    BY <1>3, TreeClosed DEF SoundInv
  <2>3. PointerClosed(U) /\ U \in SUBSET V
    BY <2>2 DEF PointerClosed
  <2>. HIDE DEF U
  <2>4. h \in U /\ l \in U
    BY <2>1 DEF U
  <2>. QED BY <1>2, <2>1, <2>3, <2>4
<1>5. ASSUME NEW n \in V, n \in U PROVE Tree(n)' = U
  <2>1. \A m \in V : SameTree(n, m)' => m \in U
    <3>. HIDE DEF U
    <3>. QED BY <1>4, <1>5 DEF SameTree
  <2>2. ASSUME NEW m \in V, m \in U PROVE SameTree(n, m)'
    <3>1. \A k \in V : k \in U => SameTree(h, k) \/ SameTree(l, k)
      BY <1>3 DEF Tree
    <3>. SUFFICES ASSUME NEW S \in SUBSET V, PointerClosed(S)'
                  PROVE  n \in S <=> m \in S
      BY DEF SameTree
    <3>2. PointerClosed(S) /\ (h \in S <=> l \in S)
      BY <1>2
    <3>3. \A k \in V : k \in U => (k \in S <=> h \in S)
      BY <3>1, <3>2 DEF SameTree
    <3>. QED BY <1>5, <2>2, <3>3
  <2>. QED BY <1>4, <2>1, <2>2 DEF Tree
<1>6. ASSUME NEW n \in V, n \notin U PROVE Tree(n)' = Tree(n)
  <2>1. PICK S \in SUBSET V : S = Tree(n)
    BY DEF Tree
  <2>2. n \in S /\ h \notin S /\ l \notin S /\ PointerClosed(S)
    BY <1>3, <1>6, <2>1, SameTreeSym, TreeFacts, TreeClosed DEF Tree, SoundInv
  <2>3. PointerClosed(S)'
    BY <1>2, <2>2
  <2>4. \A m \in V : SameTree(n, m)' => m \in S
    BY <2>2, <2>3 DEF SameTree
  <2>5. \A m \in V : m \in S => SameTree(n, m)'
    BY <1>2, <2>1 DEF Tree, SameTree
  <2>6. Tree(n)' = S
    BY <2>4, <2>5 DEF Tree
  <2>. QED BY <2>1, <2>6
<1>7. Trees' = {Tree(n)' : n \in V} /\ Trees = {Tree(n) : n \in V}
  BY DEF Trees, Tree
<1>8. \A n \in V : n \notin U => Tree(n) # A /\ Tree(n) # B
  BY TreeFacts
<1>9. \A n \in V : n \in U => Tree(n) = A \/ Tree(n) = B
  BY <1>1, <1>3, TreeFacts
<1>10. U \in {Tree(n)' : n \in V}
  BY <1>4, <1>5
<1>11. Trees' = (Trees \ {A, B}) \cup {U}
  <2>. HIDE DEF U
  <2>. DEFINE T == {Tree(n) : n \in V}
              T1 == {Tree(n)' : n \in V}
  <2>1. \A X \in T1 : X \in (T \ {A, B}) \cup {U}
    BY <1>5, <1>6, <1>8
  <2>2. \A X \in (T \ {A, B}) \cup {U} : X \in T1
    BY <1>6, <1>9, <1>10
  <2>. QED BY <1>7, <2>1, <2>2
<1>. QED BY <1>1, <1>3, <1>4, <1>11
-----------------------------------------------------------------------------
(* When every edge is joined the trees are the components.                 *)
LEMMA TreesWhole ==
  ASSUME TypeOK, LabelsSound, AllJoined
  PROVE  Trees = {ComponentOf(g, n) : n \in V}
<1>1. \A S \in SUBSET V : PointerClosed(S) => Closed(g, S)
  <2>. SUFFICES ASSUME NEW S \in SUBSET V, PointerClosed(S), NEW e \in Edges(g)
                PROVE  e[1] \in S <=> e[2] \in S
    BY DEF Closed
  <2>. QED BY DEF AllJoined, SameTree
<1>2. \A S \in SUBSET V : Closed(g, S) => PointerClosed(S)
  BY DEF LabelsSound, Connected, PointerClosed
<1>3. \A a, b : SameTree(a, b) <=> Connected(g, a, b)
  BY <1>1, <1>2 DEF SameTree, Connected
<1>. QED BY <1>3 DEF Trees, ComponentOf

(* ComponentMerge, read with the graph of this module.                     *)
LEMMA AbstractGraph ==
  /\ \A gr : Abstract!IsGraph(gr) <=> IsGraph(gr)
  /\ \A gr : Abstract!Edges(gr) = Edges(gr)
  /\ \A gr, n : Abstract!ComponentOf(gr, n) = ComponentOf(gr, n)
  /\ Abstract!V = V
<1>1. Abstract!V = V
  BY DEF Abstract!V, V
<1>2. \A gr : Abstract!IsGraph(gr) <=> IsGraph(gr)
  BY <1>1 DEF Abstract!IsGraph, IsGraph, Abstract!Elems, Elems
<1>3. \A gr : Abstract!Edges(gr) = Edges(gr)
  BY <1>1 DEF Abstract!Edges, Edges, Abstract!Elems, Elems
<1>4. \A gr, n : Abstract!ComponentOf(gr, n) = ComponentOf(gr, n)
  BY <1>1, <1>3
  DEF Abstract!ComponentOf, ComponentOf, Abstract!Connected, Connected, Abstract!Closed, Closed
<1>. QED BY <1>1, <1>2, <1>3, <1>4

LEMMA InitMerges == Init => Abstract!Init
<1>. SUFFICES ASSUME Init PROVE Abstract!Init
  OBVIOUS
<1>1. IsGraph(g) /\ phase # "done"
  BY GraphsAssumption DEF Init
<1>2. \A n, m \in V : SameTree(n, m) <=> n = m
  <2>. SUFFICES ASSUME NEW n \in V, NEW m \in V, SameTree(n, m) PROVE n = m
    BY SameTreeRefl
  <2>1. PointerClosed({n})
    BY DEF Init, PointerClosed
  <2>. QED BY <2>1 DEF SameTree
<1>3. Trees = {{n} : n \in V}
  <2>1. \A n \in V : {m \in V : SameTree(n, m)} = {n}
    BY <1>2
  <2>. QED BY <2>1 DEF Trees
<1>. QED BY <1>1, <1>3, AbstractGraph DEF Abstract!Init

LEMMA StepMerges ==
  ASSUME ForestInv, [Next]_vars
  PROVE  Abstract!Next \/ UNCHANGED <<g, Trees, phase = "done">>
<1>1. /\ SoundInv /\ TypeOK /\ LabelsSound /\ PhaseInv /\ g' = g
      /\ \A t \in Threads : LinkInv(t) /\ CompressInv(t)
  BY WhoWrites DEF ForestInv, SoundInv
<1>2. ASSUME NEW t \in Threads, ThreadStep(t)
      PROVE  Abstract!Next \/ UNCHANGED <<g, Trees, phase = "done">>
  <2>1. phase' = phase
    BY <1>1, <1>2, ThreadShared
  <2>2. CASE CompareAndSwap(t) /\ comp[High(t)] = High(t)
    <3>1. PICK h \in V, l \in V :
            /\ h = High(t) /\ l = Low(t)
            /\ \/ h = p1[t] /\ l = p2[t]
               \/ h = p2[t] /\ l = p1[t]
      BY <1>1, HighLow
    <3>2. /\ Tree(h) # Tree(l)
          /\ Trees' = (Trees \ {Tree(h), Tree(l)}) \cup {Tree(h) \cup Tree(l)}
      BY <1>1, <2>2, <3>1, SwapMerges
    <3>3. pc[t] \in InLink \ {"readP2"} /\ u[t] \in V /\ v[t] \in V
      BY <1>1, <2>2 DEF CompareAndSwap, InLink, TypeOK
    <3>4. Adjacent(u[t], v[t])
      BY <1>1, <3>3 DEF LinkInv
    <3>5. \/ SameTree(u[t], h) /\ SameTree(v[t], l)
          \/ SameTree(u[t], l) /\ SameTree(v[t], h)
      BY <1>1, <3>1, <3>3 DEF LinkInv
    <3>6. \/ u[t] \in Tree(h) /\ v[t] \in Tree(l)
          \/ u[t] \in Tree(l) /\ v[t] \in Tree(h)
      BY <3>3, <3>5, SameTreeSym DEF Tree
    <3>7. PICK e \in Edges(g) : \/ e[1] \in Tree(h) /\ e[2] \in Tree(l)
                                \/ e[1] \in Tree(l) /\ e[2] \in Tree(h)
      BY <3>4, <3>6 DEF Adjacent
    <3>8. Tree(h) \in Trees /\ Tree(l) \in Trees
      BY TreeFacts
    <3>9. phase # "done"
      <4>1. phase \in {"link", "final"}
        BY <1>1, <3>3 DEF PhaseInv
      <4>. QED BY <4>1
    <3>10. Abstract!Merge
      BY <1>1, <2>1, <3>2, <3>7, <3>8, <3>9, AbstractGraph DEF Abstract!Merge
    <3>. QED BY <3>10 DEF Abstract!Next
  <2>3. CASE ~(CompareAndSwap(t) /\ comp[High(t)] = High(t))
    <3>1. comp' = comp \/ CompressWrite(t)
      BY <1>2, <2>3 DEF ThreadStep, Claim, SkipLargest, EndIteration, LinkStep, ReadP1, ReadP2,
           ReadHigh, CompareAndSwap, ReadParent, ReadGrandparent, ReadLow, CompressStep,
           CompressTest, CompressRead, shared
    <3>2. Trees' = Trees
      BY <1>1, <3>1, TreesKept
    <3>. QED BY <1>1, <2>1, <3>2
  <2>. QED BY <2>2, <2>3
<1>3. CASE EndLoop
  <2>1. comp' = comp /\ phase \in Loops /\ phase' = AfterLoop[1]
    BY <1>3 DEF EndLoop
  <2>2. Trees' = Trees
    BY <1>1, <2>1, TreesKept
  <2>3. CASE phase = "finalCompress"
    <3>1. phase' = "done"
      BY <2>1, <2>3 DEF AfterLoop
    <3>2. AllJoined
      BY <2>3 DEF ForestInv, JoinedInv
    <3>3. Trees = {ComponentOf(g, n) : n \in V}
      BY <1>1, <3>2, TreesWhole
    <3>4. Abstract!Finish
      BY <1>1, <2>2, <2>3, <3>1, <3>3, AbstractGraph DEF Abstract!Finish
    <3>. QED BY <3>4 DEF Abstract!Next
  <2>4. CASE phase # "finalCompress"
    <3>1. phase # "done" /\ phase' # "done"
      BY <2>1, <2>4 DEF AfterLoop, Loops
    <3>. QED BY <1>1, <2>2, <3>1
  <2>. QED BY <2>3, <2>4
<1>4. CASE SampleFrequentElement
  <2>1. comp' = comp /\ phase # "done" /\ phase' # "done"
    BY <1>4 DEF SampleFrequentElement
  <2>. QED BY <1>1, <2>1, TreesKept
<1>5. CASE UNCHANGED vars
  <2>1. comp' = comp /\ phase' = phase
    BY <1>5 DEF vars
  <2>. QED BY <1>1, <2>1, TreesKept
<1>. QED BY <1>2, <1>3, <1>4, <1>5 DEF Next, Program, Terminated
-----------------------------------------------------------------------------
(* The forest invariant holds throughout.                                  *)
THEOREM ForestAlways == Spec => []ForestInv
<1>. QED BY InitForest, ForestStep, PTL DEF Spec

(* However Link, Compress and the failing CASes of src/src/cc.cc:41-66     *)
(* interleave, no step raises a label, for any graph and any threads.      *)
THEOREM LabelsOnlyDescend == Spec => LabelsDescend
<1>1. ForestInv /\ [Next]_vars => [\A n \in V : comp'[n] <= comp[n]]_comp
  BY Descends
<1>. QED BY <1>1, ForestAlways, PTL DEF Spec, LabelsDescend

(* After every sampling round of src/src/cc.cc:101-111 the edges sampled   *)
(* so far are inside trees, and the trees are flat when c is sampled.      *)
THEOREM SampledAlways == Spec => []SampledThenCompressed
<1>1. ForestInv => SampledThenCompressed
  BY DEF ForestInv, JoinedInv, Flattens, Flat, SampledThenCompressed, CompressedWhenRead
<1>. QED BY <1>1, ForestAlways, PTL

(* Afforest returns the components, although its final loop                *)
(* (src/src/cc.cc:120-142) skips whole vertices by a label that other      *)
(* threads may be changing: for every graph, directed or not, every number *)
(* of threads and every number of sampling rounds.                         *)
THEOREM ExactAlways == Spec => []LabelsExact
<1>1. ForestInv => LabelsExact
  <2>. SUFFICES ASSUME ForestInv, phase = "done"
                PROVE  \A a, b \in V : comp[a] = comp[b] <=> Connected(g, a, b)
    BY DEF LabelsExact
  <2>1. /\ comp \in [V -> V] /\ AllJoined /\ \A n \in V : Flat(n) /\ Connected(g, n, comp[n])
    BY DEF ForestInv, SoundInv, TypeOK, LabelsSound, JoinedInv, Flattens
  <2>2. ASSUME NEW e \in Edges(g) PROVE comp[e[1]] = comp[e[2]]
    <3>1. PICK S \in SUBSET V : S = {n \in V : comp[n] = comp[e[1]]}
      OBVIOUS
    <3>2. PointerClosed(S)
      BY <2>1, <3>1 DEF PointerClosed, Flat
    <3>3. e[1] \in V /\ e[2] \in V /\ SameTree(e[1], e[2])
      BY <2>1 DEF AllJoined, Edges
    <3>. QED BY <3>1, <3>2, <3>3 DEF SameTree
  <2>. QED BY <2>1, <2>2, AgreeingLabelsExact
<1>. QED BY <1>1, ForestAlways, PTL

(* Afforest implements ComponentMerge: a CAS that succeeds is a merge of   *)
(* two different trees along an edge, every other step leaves the trees as *)
(* they are, and it returns when they are the components.                  *)
THEOREM RefinesMerge == Spec => MergesOnly
<1>1. ForestInv /\ [Next]_vars => [Abstract!Next]_<<g, Trees, phase = "done">>
  BY StepMerges
<1>. QED BY <1>1, InitMerges, ForestAlways, PTL DEF Spec, MergesOnly, Abstract!Spec
=============================================================================
