----------------------- MODULE ParallelDeltaStepProofs -----------------------
(***************************************************************************)
(* For every graph with weights that are not negative, every number of     *)
(* threads and every delta: the parallel DeltaStep forgets no improvement, *)
(* whichever CASes fail, and reads no slot of its shared bin before it has *)
(* been written.                                                           *)
(***************************************************************************)
EXTENDS ParallelDeltaStep, CSRGraphProofs

(***************************************************************************)
(* The two halves of an iteration, on either side of its barrier.          *)
(***************************************************************************)
Working == {"edges", "readU", "cas", "recheck"}
Relaxing == {"frontier", "fuse", "vote", "voted"} \cup Working
Moving == {"single", "reserve", "copy", "copied"}

BinOf(n) == dist[n] \div delta
Reached(n) == dist[n] < DistInf

(* An edge that could improve its end.                                     *)
Slack(n, e) == Reached(n) /\ dist[e.v] > dist[n] + e.w

(* The slots of the shared bin, and those reserved but not written yet.    *)
Ready(i) == i \in DOMAIN frontier /\ frontier[i] \in V /\ Reached(frontier[i])
Copying(t, i) == pc[t] = "copy" /\ i \in pos[t] + 1 .. pos[t] + Len(Selected(t))
Written(i) == i \in 1 .. tails[Other] /\ \A t \in Threads : ~Copying(t, i)

(***************************************************************************)
(* What a thread is doing while edges are relaxed.  The label it read may  *)
(* be out of date, but never too low.                                      *)
(***************************************************************************)
RelaxInv(t) ==
  /\ pc[t] = "frontier" => caller[t] = "frontier"
  /\ pc[t] \in {"vote", "voted"} => fused[t] = <<>>
  /\ caller[t] = "frontier" /\ pc[t] # "fuse" => fused[t] = <<>>
  /\ pc[t] \in Working => Reached(u[t]) /\ CurrBin <= BinOf(u[t])
  /\ pc[t] \in {"readU", "cas", "recheck"} => edges[t] # <<>>
  /\ pc[t] = "readU" => dist[Head(edges[t]).v] <= old[t] /\ old[t] <= DistInf
  /\ pc[t] = "cas" => new[t] < old[t]
  /\ pc[t] \in {"cas", "recheck"} => new[t] < DistInf /\ CurrBin <= new[t] \div delta
  /\ \A n \in Elems(fused[t]) \cup Elems(bins[t][CurrBin]) : CurrBin <= BinOf(n)
  /\ pc[t] = "voted" =>
       \A b \in Bins : b >= CurrBin /\ bins[t][b] # <<>> => NextBin <= b
  /\ pc[t] # "voted" \/ NextBin \in CurrBin .. MaxBin

(* And while the bins are copied.                                          *)
MoveInv(t) ==
  /\ fused[t] = <<>>
  /\ pc[t] # "single" => singled
  /\ pc[t] = "copy" => Selected(t) # <<>> /\ pos[t] + Len(Selected(t)) <= tails[Other]
  /\ pc[t] = "copied" => Selected(t) = <<>>

PhaseInv ==
  /\ TypeOK
  /\ \A n \in V : dist[n] <= DistInf
  /\ \A t \in Threads :
       /\ \A n \in Elems(fused[t]) : Reached(n)
       /\ \A b \in Bins : \A n \in Elems(bins[t][b]) : Reached(n)
  /\ \/ /\ \A t \in Threads : pc[t] \in Relaxing /\ RelaxInv(t)
        /\ CurrBin \in Bins /\ tails[Other] = 0
        /\ todo \subseteq 1 .. tails[Curr] /\ \A i \in 1 .. tails[Curr] : Ready(i)
        /\ todo = {} \/ \E t \in Threads : InLoop(t)
        /\ (\A t \in Threads : pc[t] # "voted") => NextBin = MaxBin
     \/ /\ \A t \in Threads : pc[t] \in Moving /\ MoveInv(t)
        /\ todo = {}
        /\ \A i \in 1 .. tails[Other] : Written(i) => Ready(i)
        /\ \A s, t \in Threads : \A i \in Nat : Copying(s, i) /\ Copying(t, i) => s = t
        /\ singled => indexes[Curr] = MaxBin /\ tails[Curr] = 0
     \/ \A t \in Threads : pc[t] = "done"

(***************************************************************************)
(* Where a vertex with an edge still to relax is.                          *)
(***************************************************************************)
InHand(t, n, e) ==
  /\ u[t] = n
  /\ \/ pc[t] \in {"edges", "readU"} /\ e \in Elems(edges[t])
     \/ pc[t] \in {"cas", "recheck"} /\ e \in Elems(Tail(edges[t]))
     \/ pc[t] \in {"cas", "recheck"} /\ e = Head(edges[t]) /\ new[t] = dist[n] + e.w

InBins(n) == \E t \in Threads : n \in Elems(bins[t][BinOf(n)])

OwedInv ==
  \A n \in V : \A e \in Elems(g.out[n]) : Slack(n, e) =>
    \/ /\ \A t \in Threads : pc[t] \in Relaxing
       /\ CurrBin <= BinOf(n)
       /\ \/ \E i \in todo : frontier[i] = n
          \/ InBins(n)
          \/ \E t \in Threads : n \in Elems(fused[t]) \/ InHand(t, n, e)
    \/ /\ \A t \in Threads : pc[t] \in Moving
       /\ NextBin <= BinOf(n)
       /\ InBins(n) \/ \E i \in Nat : Written(i) /\ frontier[i] = n

IInv == PhaseInv /\ OwedInv

(* The edges a thread has in hand are those of its vertex, in one of the   *)
(* graphs considered: no sum of a label and a weight leaves an int.        *)
EdgesOf(t) == pc[t] \in Working => Elems(edges[t]) \subseteq Elems(g.out[u[t]])
EdgesInv == g \in Graphs /\ \A t \in Threads : EdgesOf(t)
-----------------------------------------------------------------------------
(* A distance falls into a bin.                                            *)
LEMMA InABin ==
  ASSUME NEW a \in Nat, a < DistInf, NEW d \in Deltas
  PROVE  a \div d \in Bins
<1>1. d \in Nat \ {0} /\ DistInf - 1 \in Nat /\ MaxBin \in Nat \ {0} /\ a <= DistInf - 1
  BY DeltasAssumption, LimitsAssumption
<1>. DEFINE q == a \div d
            m == (DistInf - 1) \div d
<1>2. q \in Nat /\ m \in Nat /\ q <= m /\ m < MaxBin
  BY <1>1, DivType, DivMonotone, LimitsAssumption
<1>. HIDE DEF q, m
<1>3. q \in Bins
  BY <1>1, <1>2 DEF Bins
<1>. QED BY <1>3 DEF q

(* What TypeOK says of delta and the two sides.                            *)
LEMMA Basics ==
  ASSUME TypeOK
  PROVE  /\ delta \in Nat \ {0} /\ delta \in Deltas
         /\ Curr \in {0, 1} /\ Other \in {0, 1} /\ Curr # Other
         /\ CurrBin \in 0 .. MaxBin /\ NextBin \in 0 .. MaxBin
         /\ tails[Curr] \in Nat /\ tails[Other] \in Nat
         /\ MaxBin \in Nat \ {0} /\ DistInf \in Nat \ {0} /\ BinSizeThreshold \in Nat \ {0}
<1>1. delta \in Deltas /\ iter \in {0, 1}
  BY DEF TypeOK
<1>2. Curr \in {0, 1} /\ Other \in {0, 1} /\ Curr # Other
  BY <1>1 DEF Curr, Other
<1>3. /\ CurrBin \in 0 .. MaxBin /\ NextBin \in 0 .. MaxBin
      /\ tails[Curr] \in Nat /\ tails[Other] \in Nat
  BY <1>2 DEF TypeOK, Sides, CurrBin, NextBin
<1>. QED BY <1>1, <1>2, <1>3, DeltasAssumption, LimitsAssumption

LEMMA LocalsType ==
  ASSUME TypeOK, NEW t \in Threads
  PROVE  /\ u[t] \in V /\ old[t] \in Nat /\ new[t] \in Nat /\ pos[t] \in Nat
         /\ edges[t] \in Seq(NodeWeight) /\ fused[t] \in Seq(V)
         /\ \A b \in Bins : bins[t][b] \in Seq(V)
         /\ Selected(t) \in Seq(V) /\ Len(Selected(t)) \in Nat
<1>1. /\ u[t] \in V /\ old[t] \in Nat /\ new[t] \in Nat /\ pos[t] \in Nat
      /\ edges[t] \in Seq(NodeWeight) /\ fused[t] \in Seq(V)
  BY DEF TypeOK, PerThread
<1>2. bins[t] \in [Bins -> Seq(V)]
  BY DEF TypeOK, PerThread
<1>3. Selected(t) \in Seq(V)
  BY <1>2 DEF Selected
<1>4. Len(Selected(t)) \in Nat
  BY <1>3
<1>. QED BY <1>1, <1>2, <1>3, <1>4
-----------------------------------------------------------------------------
(* At the start the source is in the shared bin, and no other vertex has   *)
(* been reached.                                                           *)
LEMMA InitType == Init => TypeOK
<1>. SUFFICES ASSUME Init PROVE TypeOK
  OBVIOUS
<1>1. IsWeightedGraph(g) /\ source \in V /\ delta \in Deltas /\ 0 \in V
  BY GraphsAssumption, NumNodesAssumption DEF Init, V
<1>2. DistInf \in Nat /\ MaxBin \in Nat /\ 0 \in 0 .. MaxBin /\ MaxBin \in 0 .. MaxBin
  BY LimitsAssumption
<1>3. dist \in [V -> Nat]
  BY <1>2 DEF Init
<1>4. frontier \in Seq(V \cup {Unwritten}) /\ todo \subseteq 1 .. Len(frontier)
  BY <1>1 DEF Init
<1>5. tails \in Sides(Nat) /\ indexes \in Sides(0 .. MaxBin)
  BY <1>2 DEF Init, Sides
<1>6. /\ bins \in PerThread([Bins -> Seq(V)]) /\ fused \in PerThread(Seq(V))
      /\ edges \in PerThread(Seq(NodeWeight))
  BY DEF Init, PerThread
<1>. QED BY <1>1, <1>3, <1>4, <1>5, <1>6 DEF Init, TypeOK, PerThread

LEMMA InitInv == Init => IInv
<1>. SUFFICES ASSUME Init PROVE IInv
  OBVIOUS
<1>1. TypeOK
  BY InitType
<1>2. /\ CurrBin = 0 /\ NextBin = MaxBin /\ tails[Curr] = 1 /\ tails[Other] = 0
      /\ MaxBin \in Nat \ {0} /\ DistInf \in Nat \ {0} /\ delta \in Nat \ {0}
  BY <1>1, Basics DEF Init, CurrBin, NextBin, Curr, Other
<1>3. 0 \in Bins
  BY <1>2 DEF Bins
<1>4. /\ source \in V /\ dist[source] = 0 /\ frontier = <<source>>
      /\ \A n \in V : dist[n] <= DistInf /\ (n # source => dist[n] = DistInf)
  BY <1>2 DEF Init
<1>5. BinOf(source) = 0 /\ Reached(source)
  <2>1. 0 \div delta \in Nat /\ 0 \div delta <= 0
    BY <1>2, DivMonotone, DivBound, DivType
  <2>. QED BY <1>2, <1>4, <2>1 DEF BinOf, Reached
<1>6. \A t \in Threads : /\ pc[t] = "frontier" /\ caller[t] = "frontier" /\ fused[t] = <<>>
                         /\ \A b \in Bins : bins[t][b] = <<>>
  BY DEF Init
<1>7. \A i \in 1 .. tails[Curr] : Ready(i)
  BY <1>2, <1>4, <1>5 DEF Ready
<1>8. \A t \in Threads : RelaxInv(t)
  BY <1>2, <1>3, <1>6, ElemsEmpty DEF RelaxInv, Working
<1>9. todo = {1}
  BY DEF Init
<1>10. PhaseInv
  <2>1. \E t \in Threads : InLoop(t)
    BY <1>6, ThreadsAssumption DEF InLoop
  <2>. QED BY <1>1, <1>2, <1>3, <1>4, <1>6, <1>7, <1>8, <1>9, <2>1, ElemsEmpty
           DEF PhaseInv, Relaxing
<1>11. OwedInv
  <2>. SUFFICES ASSUME NEW n \in V, Reached(n)
                PROVE  /\ \A t \in Threads : pc[t] \in Relaxing
                       /\ CurrBin <= BinOf(n)
                       /\ \E i \in todo : frontier[i] = n
    BY DEF OwedInv, Slack
  <2>1. n = source
    BY <1>2, <1>4 DEF Reached
  <2>. QED BY <1>2, <1>4, <1>5, <1>6, <1>9, <2>1 DEF Relaxing
<1>. QED BY <1>10, <1>11 DEF IInv

LEMMA InitEdges == Init => EdgesInv
BY DEF Init, EdgesInv, EdgesOf, Working
-----------------------------------------------------------------------------
(* A step of one thread leaves the locals of the others alone.             *)
LEMMA OneThread ==
  ASSUME TypeOK, NEW t \in Threads, ThreadStep(t)
  PROVE  /\ UNCHANGED <<g, source, delta, iter>>
         /\ \A s \in Threads \ {t} :
              /\ pc'[s] = pc[s] /\ caller'[s] = caller[s] /\ bins'[s] = bins[s]
              /\ fused'[s] = fused[s] /\ u'[s] = u[s] /\ edges'[s] = edges[s]
              /\ old'[s] = old[s] /\ new'[s] = new[s] /\ pos'[s] = pos[s]
<1>1. /\ DOMAIN pc = Threads /\ DOMAIN caller = Threads /\ DOMAIN bins = Threads
      /\ DOMAIN fused = Threads /\ DOMAIN u = Threads /\ DOMAIN edges = Threads
      /\ DOMAIN old = Threads /\ DOMAIN new = Threads /\ DOMAIN pos = Threads
  BY DEF TypeOK, PerThread
<1>2. CASE Claim(t) \/ LeaveLoop(t)
  BY <1>1, <1>2 DEF Claim, LeaveLoop, Goto, shared, locals
<1>3. CASE FuseBin(t) \/ NextFused(t) \/ LeaveFuse(t)
  BY <1>1, <1>3 DEF FuseBin, NextFused, LeaveFuse, Goto, shared, locals
<1>4. CASE RelaxStep(t)
  <2>1. CASE ReadOld(t) \/ EndVertex(t)
    BY <1>1, <2>1 DEF ReadOld, EndVertex, Goto, shared
  <2>2. CASE ReadU(t)
    BY <1>1, <2>2 DEF ReadU, LoopTest, NextEdge, Goto, shared
  <2>3. CASE Recheck(t)
    BY <1>1, <2>3 DEF Recheck, LoopTest, NextEdge, Goto, shared
  <2>4. CASE CasDist(t)
    BY <1>1, <2>4 DEF CasDist, NextEdge, Goto
  <2>. QED BY <1>4, <2>1, <2>2, <2>3, <2>4 DEF RelaxStep
<1>5. CASE Vote(t) \/ Single(t)
  BY <1>1, <1>5 DEF Vote, Single, Goto, locals
<1>6. CASE Reserve(t)
  BY <1>1, <1>6 DEF Reserve, Goto
<1>7. CASE Copy(t)
  BY <1>1, <1>7 DEF Copy, Goto
<1>. QED BY <1>2, <1>3, <1>4, <1>5, <1>6, <1>7 DEF ThreadStep

(* Which half of the iteration a thread is in says where all of them are.  *)
LEMMA RelaxingFacts ==
  ASSUME PhaseInv, NEW t \in Threads, pc[t] \in Relaxing
  PROVE  /\ \A s \in Threads : pc[s] \in Relaxing /\ RelaxInv(s)
         /\ CurrBin \in Bins /\ tails[Other] = 0
         /\ todo \subseteq 1 .. tails[Curr] /\ \A i \in 1 .. tails[Curr] : Ready(i)
         /\ todo = {} \/ \E s \in Threads : InLoop(s)
         /\ (\A s \in Threads : pc[s] # "voted") => NextBin = MaxBin
<1>1. pc[t] \notin Moving /\ pc[t] # "done"
  BY DEF Relaxing, Working, Moving
<1>. QED BY <1>1 DEF PhaseInv

LEMMA MovingFacts ==
  ASSUME PhaseInv, NEW t \in Threads, pc[t] \in Moving
  PROVE  /\ \A s \in Threads : pc[s] \in Moving /\ MoveInv(s)
         /\ todo = {}
         /\ \A i \in 1 .. tails[Other] : Written(i) => Ready(i)
         /\ \A r, s \in Threads : \A i \in Nat : Copying(r, i) /\ Copying(s, i) => r = s
         /\ singled => indexes[Curr] = MaxBin /\ tails[Curr] = 0
<1>1. pc[t] \notin Relaxing /\ pc[t] # "done"
  BY DEF Relaxing, Working, Moving
<1>. QED BY <1>1 DEF PhaseInv

LEMMA ClaimType ==
  ASSUME IInv, NEW t \in Threads, Claim(t)
  PROVE  TypeOK'
<1>1. TypeOK /\ pc[t] \in Relaxing
  BY DEF IInv, PhaseInv, Claim, Relaxing
<1>2. todo \subseteq 1 .. tails[Curr] /\ \A i \in 1 .. tails[Curr] : Ready(i)
  BY <1>1, RelaxingFacts DEF IInv
<1>3. PICK i \in todo :
        /\ todo' = todo \ {i}
        /\ IF dist[frontier[i]] >= delta * CurrBin
             THEN /\ Goto(t, "edges")
                  /\ u' = [u EXCEPT ![t] = frontier[i]]
                  /\ edges' = [edges EXCEPT ![t] = g.out[frontier[i]]]
             ELSE UNCHANGED <<pc, u, edges>>
  BY DEF Claim
<1>4. frontier[i] \in V
  BY <1>2, <1>3 DEF Ready
<1>5. g.out[frontier[i]] \in Seq(NodeWeight)
  BY <1>1, <1>4 DEF TypeOK, IsWeightedGraph
<1>6. u' \in PerThread(V)
  BY <1>1, <1>3, <1>4 DEF TypeOK, PerThread
<1>7. edges' \in PerThread(Seq(NodeWeight))
  BY <1>1, <1>3, <1>5 DEF TypeOK, PerThread
<1>8. todo' \subseteq 1 .. Len(frontier)
  BY <1>1, <1>3 DEF TypeOK
<1>9. pc' = [pc EXCEPT ![t] = "edges"] \/ pc' = pc
  BY <1>3 DEF Goto
<1>10. pc' \in PerThread({"frontier", "edges", "readU", "cas", "recheck", "fuse", "vote",
                          "voted", "single", "reserve", "copy", "copied", "done"})
  BY <1>1, <1>9 DEF TypeOK, PerThread
<1>. QED BY <1>1, <1>6, <1>7, <1>8, <1>10 DEF TypeOK, Claim

LEMMA FuseType ==
  ASSUME IInv, NEW t \in Threads, LeaveLoop(t) \/ FuseBin(t) \/ NextFused(t) \/ LeaveFuse(t)
  PROVE  TypeOK'
<1>1. TypeOK /\ CurrBin \in 0 .. MaxBin
  BY Basics DEF IInv, PhaseInv
<1>2. CASE LeaveLoop(t) \/ LeaveFuse(t)
  <2>1. pc' \in PerThread({"frontier", "edges", "readU", "cas", "recheck", "fuse", "vote",
                            "voted", "single", "reserve", "copy", "copied", "done"})
    BY <1>1, <1>2 DEF TypeOK, PerThread, LeaveLoop, LeaveFuse, Goto
  <2>2. UNCHANGED <<shared, locals>>
    BY <1>2 DEF LeaveLoop, LeaveFuse
  <2>. QED BY <1>1, <2>1, <2>2 DEF TypeOK, shared, locals
<1>3. CASE FuseBin(t)
  <2>1. CurrBin \in Bins
    <3>1. pc[t] \in Relaxing
      BY <1>3 DEF FuseBin, Relaxing
    <3>. QED BY <3>1, RelaxingFacts DEF IInv
  <2>2. bins[t] \in [Bins -> Seq(V)]
    BY <1>1 DEF TypeOK, PerThread
  <2>3. fused' \in PerThread(Seq(V))
    BY <1>1, <1>3, <2>1, <2>2 DEF TypeOK, PerThread, FuseBin
  <2>4. bins' = [bins EXCEPT ![t] = [bins[t] EXCEPT ![CurrBin] = <<>>]]
    BY <1>3 DEF FuseBin
  <2>5. [bins[t] EXCEPT ![CurrBin] = <<>>] \in [Bins -> Seq(V)]
    <3>1. <<>> \in Seq(V)
      OBVIOUS
    <3>. QED BY <2>2, <3>1, Zenon
  <2>6. bins' \in PerThread([Bins -> Seq(V)])
    BY <1>1, <2>4, <2>5 DEF TypeOK, PerThread
  <2>. QED BY <1>1, <1>3, <2>3, <2>6 DEF TypeOK, FuseBin, shared
<1>4. CASE NextFused(t)
  <2>1. fused[t] \in Seq(V) /\ fused[t] # <<>>
    BY <1>1, <1>4 DEF TypeOK, PerThread, NextFused
  <2>2. Head(fused[t]) \in V /\ Tail(fused[t]) \in Seq(V)
    BY <2>1, HeadTailProperties
  <2>3. g.out[Head(fused[t])] \in Seq(NodeWeight)
    BY <1>1, <2>2 DEF TypeOK, IsWeightedGraph
  <2>4. u' \in PerThread(V)
    BY <1>1, <1>4, <2>2 DEF TypeOK, PerThread, NextFused
  <2>5. edges' \in PerThread(Seq(NodeWeight))
    BY <1>1, <1>4, <2>3 DEF TypeOK, PerThread, NextFused
  <2>6. fused' \in PerThread(Seq(V))
    BY <1>1, <1>4, <2>2 DEF TypeOK, PerThread, NextFused
  <2>7. pc' \in PerThread({"frontier", "edges", "readU", "cas", "recheck", "fuse", "vote",
                            "voted", "single", "reserve", "copy", "copied", "done"})
    BY <1>1, <1>4 DEF TypeOK, PerThread, NextFused, Goto
  <2>8. caller' \in PerThread({"frontier", "fuse"})
    BY <1>1, <1>4 DEF TypeOK, PerThread, NextFused
  <2>9. UNCHANGED <<shared, bins, old, new, pos>>
    BY <1>4 DEF NextFused
  <2>. QED BY <1>1, <2>4, <2>5, <2>6, <2>7, <2>8, <2>9 DEF TypeOK, shared
<1>. QED BY <1>2, <1>3, <1>4

(* An edge in hand, and what its relaxation does to the locals.            *)
LEMMA HeadEdge ==
  ASSUME TypeOK, NEW t \in Threads, edges[t] # <<>>
  PROVE  /\ Head(edges[t]) \in NodeWeight
         /\ Head(edges[t]).v \in V /\ Head(edges[t]).w \in Nat
         /\ dist[Head(edges[t]).v] \in Nat /\ dist[u[t]] \in Nat
         /\ Tail(edges[t]) \in Seq(NodeWeight)
<1>1. edges[t] \in Seq(NodeWeight) /\ u[t] \in V /\ dist \in [V -> Nat]
  BY DEF TypeOK, PerThread
<1>2. Head(edges[t]) \in NodeWeight /\ Tail(edges[t]) \in Seq(NodeWeight)
  BY <1>1, HeadTailProperties
<1>3. Head(edges[t]).v \in V /\ Head(edges[t]).w \in Nat
  BY <1>2 DEF NodeWeight
<1>. QED BY <1>1, <1>2, <1>3

(* The edges a working thread has not come to yet.                         *)
LEMMA TailOfEdges ==
  ASSUME TypeOK, NEW t \in Threads, edges[t] # <<>>
  PROVE  /\ Elems(Tail(edges[t])) \subseteq Elems(edges[t])
         /\ Head(edges[t]) \in Elems(edges[t])
<1>1. edges[t] \in Seq(NodeWeight)
  BY LocalsType
<1>. QED BY <1>1, ElemsHeadTail

(* What ReadU adds does not overflow.                                      *)
LEMMA SumIs ==
  ASSUME IInv, EdgesInv, NEW t \in Threads, pc[t] = "readU"
  PROVE  Truncate(dist[u[t]] + Head(edges[t]).w) = dist[u[t]] + Head(edges[t]).w
<1>. DEFINE w == Head(edges[t]).w
<1>1. TypeOK /\ edges[t] # <<>> /\ Elems(edges[t]) \subseteq Elems(g.out[u[t]])
  <2>1. pc[t] \in Relaxing /\ pc[t] \in Working
    BY DEF Relaxing, Working
  <2>. QED BY <2>1, RelaxingFacts DEF IInv, PhaseInv, RelaxInv, EdgesInv, EdgesOf
<1>2. u[t] \in V /\ dist[u[t]] \in Nat /\ w \in Nat /\ dist[u[t]] <= DistInf
  BY <1>1, HeadEdge, LocalsType DEF IInv, PhaseInv
<1>3. Head(edges[t]) \in Elems(g.out[u[t]])
  BY <1>1, TailOfEdges
<1>4. DistInf + w < WeightRange \div 2
  BY <1>2, <1>3, SumsAssumption DEF EdgesInv
<1>5. WeightRange \div 2 \in Int /\ DistInf \in Nat
  BY WeightRangeAssumption, LimitsAssumption
<1>. HIDE DEF w
<1>6. dist[u[t]] + w \in Nat /\ dist[u[t]] + w < WeightRange \div 2
  BY <1>2, <1>4, <1>5
<1>7. Truncate(dist[u[t]] + w) = dist[u[t]] + w
  BY <1>6, NoOverflow
<1>. QED BY <1>7 DEF w

LEMMA NextEdgeType ==
  ASSUME TypeOK, NEW t \in Threads, edges[t] # <<>>, NextEdge(t)
  PROVE  /\ pc' = [pc EXCEPT ![t] = "edges"] /\ edges'[t] = Tail(edges[t])
         /\ edges' \in PerThread(Seq(NodeWeight))
         /\ old' \in PerThread(Nat) /\ new' \in PerThread(Nat)
<1>1. Tail(edges[t]) \in Seq(NodeWeight)
  BY HeadEdge
<1>2. edges' = [edges EXCEPT ![t] = Tail(edges[t])] /\ edges \in [Threads -> Seq(NodeWeight)]
  BY DEF NextEdge, TypeOK, PerThread
<1>3. edges' \in PerThread(Seq(NodeWeight)) /\ edges'[t] = Tail(edges[t])
  BY <1>1, <1>2 DEF PerThread
<1>4. old' \in PerThread(Nat)
  BY DEF NextEdge, TypeOK, PerThread
<1>5. new' \in PerThread(Nat)
  BY DEF NextEdge, TypeOK, PerThread
<1>. QED BY <1>3, <1>4, <1>5 DEF NextEdge, Goto

LEMMA LoopTestType ==
  ASSUME TypeOK, NEW t \in Threads, edges[t] # <<>>, NEW a \in Nat, NEW b \in Nat,
         LoopTest(t, a, b)
  PROVE  /\ edges' \in PerThread(Seq(NodeWeight))
         /\ old' \in PerThread(Nat) /\ new' \in PerThread(Nat)
         /\ \/ /\ a < b /\ pc' = [pc EXCEPT ![t] = "cas"] /\ UNCHANGED edges
               /\ new'[t] = a /\ old'[t] = b
            \/ /\ ~(a < b) /\ pc' = [pc EXCEPT ![t] = "edges"] /\ edges'[t] = Tail(edges[t])
<1>1. CASE a < b
  <2>1. /\ new' = [new EXCEPT ![t] = a] /\ old' = [old EXCEPT ![t] = b]
        /\ edges' = edges /\ pc' = [pc EXCEPT ![t] = "cas"]
    BY <1>1 DEF LoopTest, Goto
  <2>2. new' \in PerThread(Nat) /\ new'[t] = a
    BY <2>1 DEF TypeOK, PerThread
  <2>3. old' \in PerThread(Nat) /\ old'[t] = b
    BY <2>1 DEF TypeOK, PerThread
  <2>. QED BY <1>1, <2>1, <2>2, <2>3 DEF TypeOK
<1>2. CASE ~(a < b)
  <2>1. NextEdge(t)
    BY <1>2 DEF LoopTest
  <2>. QED BY <1>2, <2>1, NextEdgeType
<1>. QED BY <1>1, <1>2

LEMMA RelaxType ==
  ASSUME IInv, EdgesInv, NEW t \in Threads, RelaxStep(t)
  PROVE  TypeOK'
<1>. DEFINE pcs == {"frontier", "edges", "readU", "cas", "recheck", "fuse", "vote",
                    "voted", "single", "reserve", "copy", "copied", "done"}
<1>1. TypeOK /\ delta \in Deltas /\ pc \in PerThread(pcs)
  BY Basics DEF IInv, PhaseInv, TypeOK
<1>2. pc[t] \in {"readU", "cas", "recheck"} => edges[t] # <<>>
  <2>1. pc[t] \in {"readU", "cas", "recheck"} => pc[t] \in Relaxing
    BY DEF Relaxing, Working
  <2>. QED BY <2>1, RelaxingFacts DEF IInv, RelaxInv
<1>3. CASE ReadOld(t)
  <2>1. dist[Head(edges[t]).v] \in Nat
    BY <1>1, <1>3, HeadEdge DEF ReadOld
  <2>2. old' \in PerThread(Nat)
    BY <1>1, <1>3, <2>1 DEF TypeOK, PerThread, ReadOld
  <2>3. pc' \in PerThread(pcs)
    BY <1>1, <1>3 DEF PerThread, ReadOld, Goto
  <2>. QED BY <1>1, <1>3, <2>2, <2>3 DEF TypeOK, ReadOld, shared
<1>4. CASE ReadU(t)
  <2>1. edges[t] # <<>> /\ old[t] \in Nat
    BY <1>1, <1>2, <1>4, LocalsType DEF ReadU
  <2>2. dist[u[t]] + Head(edges[t]).w \in Nat
    BY <1>1, <2>1, HeadEdge
  <2>3. LoopTest(t, dist[u[t]] + Head(edges[t]).w, old[t])
    BY <1>4, SumIs DEF ReadU
  <2>4. /\ edges' \in PerThread(Seq(NodeWeight)) /\ old' \in PerThread(Nat) /\ new' \in PerThread(Nat)
        /\ pc' = [pc EXCEPT ![t] = "cas"] \/ pc' = [pc EXCEPT ![t] = "edges"]
    BY <1>1, <2>1, <2>2, <2>3, LoopTestType
  <2>5. pc' \in PerThread(pcs)
    BY <1>1, <2>4 DEF PerThread
  <2>. QED BY <1>1, <1>4, <2>4, <2>5 DEF TypeOK, ReadU, shared
<1>5. CASE Recheck(t)
  <2>1. edges[t] # <<>> /\ new[t] \in Nat
    BY <1>1, <1>2, <1>5, LocalsType DEF Recheck
  <2>2. dist[Head(edges[t]).v] \in Nat
    BY <1>1, <2>1, HeadEdge
  <2>3. LoopTest(t, new[t], dist[Head(edges[t]).v])
    BY <1>5 DEF Recheck
  <2>4. /\ edges' \in PerThread(Seq(NodeWeight)) /\ old' \in PerThread(Nat) /\ new' \in PerThread(Nat)
        /\ pc' = [pc EXCEPT ![t] = "cas"] \/ pc' = [pc EXCEPT ![t] = "edges"]
    BY <1>1, <2>1, <2>2, <2>3, LoopTestType
  <2>5. pc' \in PerThread(pcs)
    BY <1>1, <2>4 DEF PerThread
  <2>. QED BY <1>1, <1>5, <2>4, <2>5 DEF TypeOK, Recheck, shared
<1>6. CASE CasDist(t)
  <2>1. edges[t] # <<>> /\ new[t] \in Nat /\ new[t] < DistInf
    <3>1. pc[t] = "cas" /\ pc[t] \in Relaxing
      BY <1>6 DEF CasDist, Relaxing, Working
    <3>2. new[t] < DistInf
      BY <3>1, RelaxingFacts DEF IInv, RelaxInv
    <3>. QED BY <1>1, <1>2, <3>1, <3>2, LocalsType
  <2>2. Head(edges[t]).v \in V /\ new[t] \div delta \in Bins
    BY <1>1, <2>1, HeadEdge, InABin
  <2>. DEFINE m == Head(edges[t]).v
              b == new[t] \div delta
  <2>3. CASE dist[m] = old[t]
    <3>1. /\ dist' = [dist EXCEPT ![m] = new[t]]
          /\ bins' = [bins EXCEPT ![t] = [bins[t] EXCEPT ![b] = Append(bins[t][b], m)]]
          /\ NextEdge(t)
      BY <1>6, <2>3 DEF CasDist
    <3>2. dist' \in [V -> Nat]
      BY <1>1, <2>1, <3>1 DEF TypeOK
    <3>3. bins[t] \in [Bins -> Seq(V)]
      BY <1>1 DEF TypeOK, PerThread
    <3>4. Append(bins[t][b], m) \in Seq(V)
      BY <2>2, <3>3, ElemsAppend
    <3>5. [bins[t] EXCEPT ![b] = Append(bins[t][b], m)] \in [Bins -> Seq(V)]
      BY <3>3, <3>4
    <3>6. bins' \in PerThread([Bins -> Seq(V)])
      BY <1>1, <3>1, <3>5 DEF TypeOK, PerThread
    <3>7. /\ edges' \in PerThread(Seq(NodeWeight)) /\ old' \in PerThread(Nat)
          /\ new' \in PerThread(Nat) /\ pc' = [pc EXCEPT ![t] = "edges"]
      BY <1>1, <2>1, <3>1, NextEdgeType
    <3>8. pc' \in PerThread(pcs)
      BY <1>1, <3>7 DEF PerThread
    <3>9. UNCHANGED <<g, source, delta, frontier, tails, indexes, iter, todo, singled,
                      caller, fused, u, pos>>
      BY <1>6 DEF CasDist
    <3>. QED BY <1>1, <3>2, <3>6, <3>7, <3>8, <3>9 DEF TypeOK
  <2>4. CASE dist[m] # old[t]
    <3>1. /\ pc' = [pc EXCEPT ![t] = "recheck"] /\ UNCHANGED <<dist, bins, edges, old, new>>
          /\ UNCHANGED <<g, source, delta, frontier, tails, indexes, iter, todo, singled,
                         caller, fused, u, pos>>
      BY <1>6, <2>4 DEF CasDist, Goto
    <3>2. pc' \in PerThread(pcs)
      BY <1>1, <3>1 DEF PerThread
    <3>. QED BY <1>1, <3>1, <3>2 DEF TypeOK
  <2>. QED BY <2>3, <2>4
<1>7. CASE EndVertex(t)
  <2>1. caller[t] \in {"frontier", "fuse"}
    BY <1>1 DEF TypeOK, PerThread
  <2>2. pc' \in PerThread(pcs)
    BY <1>1, <1>7, <2>1 DEF PerThread, EndVertex, Goto
  <2>3. 0 \in V
    BY NumNodesAssumption DEF V
  <2>4. u' \in PerThread(V)
    BY <1>1, <1>7, <2>3 DEF TypeOK, PerThread, EndVertex
  <2>. QED BY <1>1, <1>7, <2>2, <2>4 DEF TypeOK, EndVertex, shared
<1>. QED BY <1>3, <1>4, <1>5, <1>6, <1>7 DEF RelaxStep

(* What a vote chooses: a bin no later than any it may choose from.  There *)
(* is one to choose.                                                       *)
LEMMA VoteChoice ==
  ASSUME TypeOK, NEW t \in Threads, Vote(t)
  PROVE  \E b \in 0 .. MaxBin :
           /\ indexes' = [indexes EXCEPT ![Other] = b] /\ b <= NextBin
           /\ b = NextBin \/ (b \in Bins /\ CurrBin <= b)
           /\ \A c \in Bins : c >= CurrBin /\ bins[t][c] # <<>> => b <= c
<1>. DEFINE mine == {b \in Bins : b >= CurrBin /\ bins[t][b] # <<>>}
<1>1. PICK b \in mine \cup {NextBin} :
        /\ \A c \in mine \cup {NextBin} : b <= c
        /\ indexes' = [indexes EXCEPT ![Other] = b]
  BY DEF Vote
<1>2. b \in 0 .. MaxBin
  BY Basics DEF Bins
<1>. QED BY <1>1, <1>2

LEMMA TurnType ==
  ASSUME IInv, NEW t \in Threads, Vote(t) \/ Single(t) \/ Reserve(t)
  PROVE  TypeOK'
<1>. DEFINE pcs == {"frontier", "edges", "readU", "cas", "recheck", "fuse", "vote",
                    "voted", "single", "reserve", "copy", "copied", "done"}
<1>1. /\ TypeOK /\ pc \in PerThread(pcs) /\ indexes \in Sides(0 .. MaxBin) /\ tails \in Sides(Nat)
      /\ Curr \in {0, 1} /\ Other \in {0, 1} /\ MaxBin \in 0 .. MaxBin
  <2>1. TypeOK /\ pc \in PerThread(pcs) /\ indexes \in Sides(0 .. MaxBin) /\ tails \in Sides(Nat)
    BY DEF IInv, PhaseInv, TypeOK
  <2>. QED BY <2>1, Basics
<1>2. CASE Vote(t)
  <2>1. PICK b \in 0 .. MaxBin : indexes' = [indexes EXCEPT ![Other] = b]
    BY <1>1, <1>2, VoteChoice
  <2>2. indexes' \in Sides(0 .. MaxBin)
    BY <1>1, <2>1 DEF Sides
  <2>3. pc' \in PerThread(pcs)
    BY <1>1, <1>2 DEF PerThread, Vote, Goto
  <2>4. UNCHANGED <<g, source, delta, dist, frontier, tails, iter, todo, singled, locals>>
    BY <1>2 DEF Vote
  <2>. QED BY <1>1, <2>2, <2>3, <2>4 DEF TypeOK, locals
<1>3. CASE Single(t)
  <2>1. indexes' \in Sides(0 .. MaxBin)
    BY <1>1, <1>3 DEF Sides, Single
  <2>2. tails' \in Sides(Nat)
    BY <1>1, <1>3 DEF Sides, Single
  <2>3. pc' \in PerThread(pcs)
    BY <1>1, <1>3 DEF PerThread, Single, Goto
  <2>4. UNCHANGED <<g, source, delta, dist, frontier, iter, todo, locals>> /\ singled' = TRUE
    BY <1>3 DEF Single
  <2>. QED BY <1>1, <2>1, <2>2, <2>3, <2>4 DEF TypeOK, locals
<1>4. CASE Reserve(t)
  <2>1. Len(Selected(t)) \in Nat /\ tails[Other] \in Nat
    BY <1>1, LocalsType, Basics
  <2>2. tails' \in Sides(Nat)
    BY <1>1, <1>4, <2>1 DEF Sides, Reserve
  <2>3. pos' \in PerThread(Nat)
    BY <1>1, <1>4, <2>1 DEF TypeOK, PerThread, Reserve
  <2>4. pc' \in PerThread(pcs)
    BY <1>1, <1>4 DEF PerThread, Reserve, Goto
  <2>5. UNCHANGED <<g, source, delta, dist, frontier, indexes, iter, todo, singled,
                    caller, bins, fused, u, edges, old, new>>
    BY <1>4 DEF Reserve
  <2>. QED BY <1>1, <2>2, <2>3, <2>4, <2>5 DEF TypeOK
<1>. QED BY <1>2, <1>3, <1>4

(* What Copy writes where.                                                 *)
LEMMA CopyWrites ==
  ASSUME IInv, NEW t \in Threads, Copy(t)
  PROVE  /\ NextBin \in Bins /\ bins[t][NextBin] # <<>> /\ Selected(t) = bins[t][NextBin]
         /\ bins' = [bins EXCEPT ![t] = [bins[t] EXCEPT ![NextBin] = <<>>]]
         /\ frontier' \in Seq(V \cup {Unwritten})
         /\ Len(frontier) <= Len(frontier') /\ pos[t] + Len(Selected(t)) <= Len(frontier')
         /\ \A i \in 1 .. Len(frontier') :
              frontier'[i] = IF Copying(t, i) THEN Selected(t)[i - pos[t]]
                             ELSE IF i <= Len(frontier) THEN frontier[i] ELSE Unwritten
         /\ \A i : Copying(t, i) => i \in 1 .. Len(frontier') /\ i - pos[t] \in DOMAIN Selected(t)
<1>1. TypeOK /\ pc[t] = "copy" /\ pc[t] \in Moving
  BY DEF IInv, PhaseInv, Copy, Moving
<1>2. Selected(t) # <<>>
  BY <1>1, MovingFacts DEF IInv, MoveInv
<1>3. NextBin \in Bins /\ Selected(t) = bins[t][NextBin]
  BY <1>2 DEF Selected
<1>4. /\ Selected(t) \in Seq(V) /\ Len(Selected(t)) \in Nat /\ pos[t] \in Nat
      /\ frontier \in Seq(V \cup {Unwritten})
  BY <1>1, LocalsType DEF TypeOK
<1>5. DOMAIN Selected(t) = 1 .. Len(Selected(t)) /\ Len(frontier) \in Nat
  BY <1>4
<1>. DEFINE s == Selected(t)
            end == pos[t] + Len(s)
            len == IF end > Len(frontier) THEN end ELSE Len(frontier)
<1>6. frontier' = [i \in 1 .. len |->
                     IF i \in pos[t] + 1 .. end THEN s[i - pos[t]]
                     ELSE IF i <= Len(frontier) THEN frontier[i] ELSE Unwritten]
  BY DEF Copy
<1>7. \A i : Copying(t, i) <=> i \in pos[t] + 1 .. end
  BY <1>1 DEF Copying
<1>8. /\ s \in Seq(V) /\ DOMAIN s = 1 .. Len(s) /\ Len(s) \in Nat /\ len \in Nat
      /\ Len(frontier) <= len /\ end <= len
  BY <1>4, <1>5
<1>. HIDE DEF s, len
<1>9. \A i \in 1 .. len : /\ i \in pos[t] + 1 .. end => i - pos[t] \in DOMAIN s
                          /\ i <= Len(frontier) => frontier[i] \in V \cup {Unwritten}
  BY <1>4, <1>5, <1>8
<1>10. \A i \in 1 .. len : frontier'[i] \in V \cup {Unwritten}
  BY <1>6, <1>8, <1>9
<1>11. frontier' \in Seq(V \cup {Unwritten}) /\ Len(frontier') = len
  <2>1. frontier' \in [1 .. len -> V \cup {Unwritten}]
    BY <1>6, <1>10
  <2>. QED BY <1>8, <2>1
<1>12. \A i \in 1 .. Len(frontier') :
         frontier'[i] = IF Copying(t, i) THEN s[i - pos[t]]
                        ELSE IF i <= Len(frontier) THEN frontier[i] ELSE Unwritten
  BY <1>6, <1>7, <1>11
<1>13. \A i : Copying(t, i) => i \in 1 .. Len(frontier') /\ i - pos[t] \in DOMAIN s
  BY <1>4, <1>7, <1>8, <1>11
<1>14. bins' = [bins EXCEPT ![t] = [bins[t] EXCEPT ![NextBin] = <<>>]]
  BY DEF Copy
<1>. QED BY <1>2, <1>3, <1>8, <1>11, <1>12, <1>13, <1>14 DEF s

LEMMA CopyType ==
  ASSUME IInv, NEW t \in Threads, Copy(t)
  PROVE  TypeOK'
<1>1. TypeOK /\ todo = {}
  <2>1. pc[t] \in Moving
    BY DEF Copy, Moving
  <2>. QED BY <2>1, MovingFacts DEF IInv, PhaseInv
<1>2. bins' \in PerThread([Bins -> Seq(V)])
  <2>1. bins[t] \in [Bins -> Seq(V)] /\ <<>> \in Seq(V)
    BY <1>1 DEF TypeOK, PerThread
  <2>2. [bins[t] EXCEPT ![NextBin] = <<>>] \in [Bins -> Seq(V)]
    BY <2>1, Zenon
  <2>3. bins' = [bins EXCEPT ![t] = [bins[t] EXCEPT ![NextBin] = <<>>]]
    BY CopyWrites
  <2>. QED BY <1>1, <2>2, <2>3 DEF TypeOK, PerThread
<1>3. frontier' \in Seq(V \cup {Unwritten})
  BY CopyWrites
<1>4. pos' \in PerThread(Nat)
  BY <1>1 DEF TypeOK, PerThread, Copy
<1>5. pc' \in PerThread({"frontier", "edges", "readU", "cas", "recheck", "fuse", "vote",
                          "voted", "single", "reserve", "copy", "copied", "done"})
  BY <1>1 DEF TypeOK, PerThread, Copy, Goto
<1>6. UNCHANGED <<g, source, delta, dist, tails, indexes, iter, todo, singled,
                  caller, fused, u, edges, old, new>>
  BY DEF Copy
<1>. QED BY <1>1, <1>2, <1>3, <1>4, <1>5, <1>6 DEF TypeOK

(* What holds when the second barrier opens.                               *)
LEMMA AllCopied ==
  ASSUME IInv, AllAt("copied")
  PROVE  /\ \A t \in Threads : MoveInv(t) /\ Selected(t) = <<>> /\ fused[t] = <<>>
         /\ todo = {} /\ singled /\ indexes[Curr] = MaxBin /\ tails[Curr] = 0
         /\ \A i \in 1 .. tails[Other] : Written(i) /\ Ready(i)
<1>1. PICK s \in Threads : TRUE
  BY ThreadsAssumption
<1>2. pc[s] \in Moving /\ \A t \in Threads : pc[t] = "copied"
  BY DEF AllAt, Moving
<1>3. /\ \A t \in Threads : MoveInv(t)
      /\ todo = {}
      /\ \A i \in 1 .. tails[Other] : Written(i) => Ready(i)
      /\ singled => indexes[Curr] = MaxBin /\ tails[Curr] = 0
  BY <1>2, MovingFacts DEF IInv
<1>4. \A i \in 1 .. tails[Other] : Written(i)
  BY <1>2 DEF Written, Copying
<1>. QED BY <1>1, <1>2, <1>3, <1>4 DEF MoveInv

(* And when the first one does.                                            *)
LEMMA AllVoted ==
  ASSUME IInv, AllAt("voted")
  PROVE  /\ \A t \in Threads : fused[t] = <<>>
         /\ todo = {} /\ tails[Other] = 0 /\ CurrBin \in Bins
         /\ NextBin \in CurrBin .. MaxBin
         /\ \A t \in Threads : \A b \in Bins : b >= CurrBin /\ bins[t][b] # <<>> => NextBin <= b
<1>1. PICK s \in Threads : TRUE
  BY ThreadsAssumption
<1>2. pc[s] \in Relaxing /\ \A t \in Threads : pc[t] = "voted"
  BY DEF AllAt, Relaxing
<1>3. /\ \A t \in Threads : RelaxInv(t)
      /\ CurrBin \in Bins /\ tails[Other] = 0
  BY <1>2, RelaxingFacts DEF IInv
<1>4. \A t \in Threads : /\ fused[t] = <<>> /\ NextBin \in CurrBin .. MaxBin
                         /\ \A b \in Bins : b >= CurrBin /\ bins[t][b] # <<>> => NextBin <= b
  BY <1>2, <1>3 DEF RelaxInv
<1>5. todo = {}
  BY <1>2, RelaxingFacts DEF IInv, InLoop
<1>. QED BY <1>1, <1>3, <1>4, <1>5

LEMMA BarrierType ==
  ASSUME IInv, OpenVoted \/ OpenCopied
  PROVE  TypeOK'
<1>. DEFINE pcs == {"frontier", "edges", "readU", "cas", "recheck", "fuse", "vote",
                    "voted", "single", "reserve", "copy", "copied", "done"}
<1>1. TypeOK /\ Other \in {0, 1} /\ Curr \in {0, 1} /\ tails[Other] \in Nat
  BY Basics DEF IInv, PhaseInv
<1>2. CASE OpenVoted
  <2>1. pc' \in PerThread(pcs) /\ singled' \in BOOLEAN
    BY <1>2 DEF OpenVoted, PerThread
  <2>. QED BY <1>1, <1>2, <2>1 DEF TypeOK, OpenVoted, locals
<1>3. CASE OpenCopied
  <2>1. pc' \in PerThread(pcs) /\ iter' \in {0, 1}
    BY <1>1, <1>3 DEF OpenCopied, PerThread
  <2>2. caller' \in PerThread({"frontier", "fuse"})
    BY <1>1, <1>3 DEF OpenCopied, TypeOK, PerThread
  <2>3. todo' \subseteq 1 .. Len(frontier)
    <3>1. CASE indexes[Other] # MaxBin
      <4>1. todo' = 1 .. tails[Other]
        BY <1>3, <3>1 DEF OpenCopied
      <4>2. \A i \in 1 .. tails[Other] : Ready(i)
        BY <1>3, AllCopied DEF OpenCopied
      <4>3. frontier \in Seq(V \cup {Unwritten})
        BY <1>1 DEF TypeOK
      <4>. QED BY <4>1, <4>2, <4>3 DEF Ready
    <3>2. CASE indexes[Other] = MaxBin
      BY <1>1, <1>3, <3>2 DEF OpenCopied, TypeOK
    <3>. QED BY <3>1, <3>2
  <2>. QED BY <1>1, <1>3, <2>1, <2>2, <2>3 DEF TypeOK, OpenCopied
<1>. QED BY <1>2, <1>3

LEMMA TypeStep == IInv /\ EdgesInv /\ [Next]_vars => TypeOK'
<1>. SUFFICES ASSUME IInv, EdgesInv, [Next]_vars PROVE TypeOK'
  OBVIOUS
<1>1. ASSUME NEW t \in Threads, ThreadStep(t) PROVE TypeOK'
  BY <1>1, ClaimType, FuseType, RelaxType, TurnType, CopyType DEF ThreadStep
<1>2. CASE Barrier
  BY <1>2, BarrierType DEF Barrier
<1>3. CASE UNCHANGED vars
  BY <1>3 DEF IInv, PhaseInv, TypeOK, vars
<1>. QED BY <1>1, <1>2, <1>3 DEF Next, Terminated

(* Edges come into hand with their vertex, and leave it one by one.        *)
LEMMA OwnEdges ==
  ASSUME IInv, EdgesInv, NEW t \in Threads, ThreadStep(t)
  PROVE  EdgesOf(t)'
<1>1. TypeOK /\ EdgesOf(t) /\ g' = g
  BY OneThread DEF IInv, PhaseInv, EdgesInv
<1>2. /\ DOMAIN pc = Threads /\ DOMAIN u = Threads /\ DOMAIN edges = Threads
      /\ caller[t] \in {"frontier", "fuse"}
  BY <1>1 DEF TypeOK, PerThread
<1>3. CASE Claim(t) \/ NextFused(t)
  <2>1. \/ /\ pc'[t] = "edges" /\ edges'[t] = g.out[u'[t]]
        \/ pc'[t] = "frontier"
    BY <1>2, <1>3 DEF Claim, NextFused, Goto
  <2>. QED BY <1>1, <2>1 DEF EdgesOf, Working
<1>4. CASE LeaveLoop(t) \/ FuseBin(t) \/ LeaveFuse(t) \/ EndVertex(t)
  <2>1. pc'[t] \in {"frontier", "fuse", "vote"}
    BY <1>2, <1>4 DEF LeaveLoop, FuseBin, LeaveFuse, EndVertex, Goto
  <2>. QED BY <2>1 DEF EdgesOf, Working
<1>5. CASE Vote(t) \/ Single(t) \/ Reserve(t) \/ Copy(t)
  <2>1. pc'[t] \in {"voted", "reserve", "copy", "copied"}
    BY <1>2, <1>5 DEF Vote, Single, Reserve, Copy, Goto
  <2>. QED BY <2>1 DEF EdgesOf, Working
<1>6. CASE ReadOld(t) \/ ReadU(t) \/ CasDist(t) \/ Recheck(t)
  <2>1. pc[t] \in Working /\ pc[t] \in Relaxing /\ u' = u /\ edges[t] # <<>>
    <3>1. pc[t] \in Working /\ pc[t] \in Relaxing /\ u' = u
      BY <1>6 DEF ReadOld, ReadU, CasDist, Recheck, Relaxing, Working
    <3>2. CASE ReadOld(t)
      BY <3>1, <3>2 DEF ReadOld
    <3>3. CASE ReadU(t) \/ CasDist(t) \/ Recheck(t)
      BY <3>1, <3>3, RelaxingFacts DEF IInv, RelaxInv, ReadU, CasDist, Recheck
    <3>. QED BY <1>6, <3>1, <3>2, <3>3
  <2>2. edges' = edges \/ edges' = [edges EXCEPT ![t] = Tail(edges[t])]
    BY <1>6 DEF ReadOld, ReadU, CasDist, Recheck, LoopTest, NextEdge
  <2>3. Elems(edges'[t]) \subseteq Elems(edges[t])
    BY <1>1, <1>2, <2>1, <2>2, TailOfEdges
  <2>. QED BY <1>1, <2>1, <2>3 DEF EdgesOf
<1>. QED BY <1>3, <1>4, <1>5, <1>6 DEF ThreadStep, RelaxStep

LEMMA EdgesStep == IInv /\ EdgesInv /\ [Next]_vars => EdgesInv'
<1>. SUFFICES ASSUME IInv, EdgesInv, [Next]_vars PROVE EdgesInv'
  OBVIOUS
<1>1. ASSUME NEW t \in Threads, ThreadStep(t) PROVE EdgesInv'
  <2>1. TypeOK /\ g' = g
    BY <1>1, OneThread DEF IInv, PhaseInv
  <2>2. ASSUME NEW s \in Threads \ {t} PROVE EdgesOf(s)'
    BY <1>1, <2>1, OneThread DEF EdgesInv, EdgesOf
  <2>. QED BY <1>1, <2>1, <2>2, OwnEdges DEF EdgesInv
<1>2. CASE Barrier
  BY <1>2 DEF Barrier, OpenVoted, OpenCopied, locals, EdgesInv, EdgesOf, Working
<1>3. CASE UNCHANGED vars
  BY <1>3 DEF vars, EdgesInv, EdgesOf
<1>. QED BY <1>1, <1>2, <1>3 DEF Next, Terminated
-----------------------------------------------------------------------------
(***************************************************************************)
(* What every step taken while edges are relaxed does to the shared state: *)
(* labels drop, but not into a bin that is over; positions are handed out; *)
(* votes come down, but not below the current bin.                         *)
(***************************************************************************)
Descends ==
  /\ UNCHANGED <<g, delta, iter, frontier, tails>>
  /\ CurrBin' = CurrBin /\ todo' \subseteq todo
  /\ \A n \in V : \/ dist'[n] = dist[n]
                  \/ dist'[n] < dist[n] /\ CurrBin <= dist'[n] \div delta
  /\ NextBin' = NextBin \/ NextBin' \in CurrBin .. NextBin

LEMMA LabelsDescend ==
  ASSUME IInv, TypeOK', Descends
  PROVE  /\ \A n \in V : /\ dist[n] \in Nat /\ dist'[n] \in Nat
                         /\ dist'[n] <= dist[n] /\ dist'[n] <= DistInf
                         /\ Reached(n) => Reached(n)'
                         /\ CurrBin <= BinOf(n) => CurrBin <= BinOf(n)'
                         /\ dist'[n] = dist[n] => BinOf(n)' = BinOf(n)
         /\ CurrBin \in Int /\ NextBin \in Int /\ MaxBin \in Int
         /\ DistInf \in Nat /\ delta \in Nat \ {0}
<1>1. /\ dist \in [V -> Nat] /\ dist' \in [V -> Nat] /\ \A n \in V : dist[n] <= DistInf
      /\ delta \in Nat \ {0} /\ DistInf \in Nat /\ delta' = delta
      /\ CurrBin \in Int /\ NextBin \in Int /\ MaxBin \in Int
  <2>1. TypeOK /\ \A n \in V : dist[n] <= DistInf
    BY DEF IInv, PhaseInv
  <2>2. dist' \in [V -> Nat] /\ delta' = delta
    BY DEF TypeOK, Descends
  <2>3. dist \in [V -> Nat]
    BY <2>1 DEF TypeOK
  <2>. QED BY <2>1, <2>2, <2>3, Basics
<1>2. ASSUME NEW n \in V
      PROVE  /\ dist[n] \in Nat /\ dist'[n] \in Nat
             /\ dist'[n] <= dist[n] /\ dist'[n] <= DistInf
             /\ Reached(n) => Reached(n)'
             /\ CurrBin <= BinOf(n) => CurrBin <= BinOf(n)'
             /\ dist'[n] = dist[n] => BinOf(n)' = BinOf(n)
  <2>1. dist[n] \in Nat /\ dist'[n] \in Nat /\ dist[n] <= DistInf
    BY <1>1
  <2>2. \/ dist'[n] = dist[n]
        \/ dist'[n] < dist[n] /\ CurrBin <= dist'[n] \div delta
    BY DEF Descends
  <2>3. CurrBin <= BinOf(n) => CurrBin <= dist'[n] \div delta'
    BY <1>1, <2>2 DEF BinOf
  <2>. QED BY <1>1, <2>1, <2>2, <2>3 DEF Reached, BinOf
<1>. QED BY <1>1, <1>2

(* What holds of the other threads goes on holding of them.                *)
LEMMA OthersRelax ==
  ASSUME IInv, TypeOK', NEW t \in Threads, ThreadStep(t), pc[t] \in Relaxing, Descends,
         NEW s \in Threads \ {t}
  PROVE  /\ pc'[s] \in Relaxing /\ RelaxInv(s)'
         /\ \A n \in Elems(fused'[s]) : Reached(n)'
         /\ \A b \in Bins : \A n \in Elems(bins'[s][b]) : Reached(n)'
<1>1. PhaseInv /\ TypeOK /\ pc[s] \in Relaxing /\ RelaxInv(s) /\ CurrBin \in Bins
  BY RelaxingFacts DEF IInv, PhaseInv
<1>2. /\ pc'[s] = pc[s] /\ caller'[s] = caller[s] /\ bins'[s] = bins[s]
      /\ fused'[s] = fused[s] /\ u'[s] = u[s] /\ edges'[s] = edges[s]
      /\ old'[s] = old[s] /\ new'[s] = new[s] /\ delta' = delta
      /\ CurrBin' = CurrBin /\ todo' \subseteq todo
      /\ NextBin' = NextBin \/ NextBin' \in CurrBin .. NextBin
  BY <1>1, OneThread DEF Descends
<1>3. /\ u[s] \in V /\ fused[s] \in Seq(V) /\ new[s] \in Nat /\ old[s] \in Nat
      /\ \A b \in Bins : bins[s][b] \in Seq(V)
      /\ edges[s] # <<>> => Head(edges[s]).v \in V
  BY <1>1, LocalsType, HeadEdge
<1>4. Elems(fused[s]) \subseteq V /\ \A b \in Bins : Elems(bins[s][b]) \subseteq V
  BY <1>3, ElemsType
<1>5. /\ \A n \in Elems(fused'[s]) : Reached(n)'
      /\ \A b \in Bins : \A n \in Elems(bins'[s][b]) : Reached(n)'
  <2>1. /\ \A n \in Elems(fused[s]) : Reached(n)
        /\ \A b \in Bins : \A n \in Elems(bins[s][b]) : Reached(n)
    BY <1>1 DEF PhaseInv
  <2>2. \A n \in V : Reached(n) => Reached(n)'
    BY LabelsDescend
  <2>. QED BY <1>2, <1>4, <2>1, <2>2
<1>6. \A n \in Elems(fused[s]) \cup Elems(bins[s][CurrBin]) : CurrBin <= BinOf(n)'
  <2>1. \A n \in Elems(fused[s]) \cup Elems(bins[s][CurrBin]) : n \in V /\ CurrBin <= BinOf(n)
    BY <1>1, <1>4 DEF RelaxInv
  <2>. QED BY <2>1, LabelsDescend
<1>7. pc[s] \in Working => dist'[u[s]] < DistInf /\ CurrBin <= dist'[u[s]] \div delta
  <2>1. pc[s] \in Working => Reached(u[s]) /\ CurrBin <= BinOf(u[s])
    BY <1>1 DEF RelaxInv
  <2>2. \A n \in V : Reached(n) /\ CurrBin <= BinOf(n) =>
           dist'[n] < DistInf /\ CurrBin <= dist'[n] \div delta
    BY <1>2, LabelsDescend DEF Reached, BinOf
  <2>. QED BY <1>3, <2>1, <2>2
<1>8. pc[s] = "readU" => dist'[Head(edges[s]).v] <= old[s] /\ old[s] <= DistInf
  <2>1. pc[s] = "readU" => edges[s] # <<>> /\ dist[Head(edges[s]).v] <= old[s] /\ old[s] <= DistInf
    BY <1>1 DEF RelaxInv
  <2>2. \A n \in V : dist[n] \in Nat /\ dist'[n] \in Nat /\ dist'[n] <= dist[n]
    BY LabelsDescend
  <2>. QED BY <1>3, <2>1, <2>2
<1>9. pc[s] = "voted" =>
        \A b \in Bins : b >= CurrBin /\ bins[s][b] # <<>> => NextBin' <= b
  <2>1. pc[s] = "voted" =>
          \A b \in Bins : b >= CurrBin /\ bins[s][b] # <<>> => NextBin <= b
    BY <1>1 DEF RelaxInv
  <2>. QED BY <1>1, <1>2, <2>1, LabelsDescend DEF Bins
<1>10. pc[s] # "voted" \/ NextBin' \in CurrBin .. MaxBin
  <2>1. pc[s] # "voted" \/ NextBin \in CurrBin .. MaxBin
    BY <1>1 DEF RelaxInv
  <2>. QED BY <1>2, <2>1, LabelsDescend
<1>11. RelaxInv(s)'
  <2>1. /\ pc[s] = "frontier" => caller[s] = "frontier"
        /\ pc[s] \in {"vote", "voted"} => fused[s] = <<>>
        /\ caller[s] = "frontier" /\ pc[s] # "fuse" => fused[s] = <<>>
        /\ pc[s] \in {"readU", "cas", "recheck"} => edges[s] # <<>>
        /\ pc[s] = "cas" => new[s] < old[s]
        /\ pc[s] \in {"cas", "recheck"} => new[s] < DistInf /\ CurrBin <= new[s] \div delta
    BY <1>1, <1>2 DEF RelaxInv
  <2>. QED BY <1>2, <1>6, <1>7, <1>8, <1>9, <1>10, <2>1 DEF RelaxInv, Reached, BinOf
<1>. QED BY <1>1, <1>2, <1>5, <1>11

(* No thread leaves the loop over the shared bin before all its positions  *)
(* are handed out, unless another one is still in it.                      *)
LEMMA LoopHeld ==
  ASSUME IInv, NEW t \in Threads, ThreadStep(t), pc[t] \in Relaxing, todo' \subseteq todo
  PROVE  todo' = {} \/ \E s \in Threads : InLoop(s)'
<1>1. TypeOK /\ RelaxInv(t) /\ (todo = {} \/ \E s \in Threads : InLoop(s))
  BY RelaxingFacts DEF IInv, PhaseInv
<1>2. ASSUME NEW s \in Threads \ {t}, InLoop(s) PROVE InLoop(s)'
  BY <1>1, <1>2, OneThread DEF InLoop
<1>3. CASE InLoop(t)
  <2>1. DOMAIN pc = Threads /\ caller[t] = "frontier"
    BY <1>1, <1>3 DEF InLoop, RelaxInv, TypeOK, PerThread
  <2>2. CASE LeaveLoop(t)
    BY <1>2, <2>2 DEF LeaveLoop, shared
  <2>3. CASE Claim(t)
    BY <2>1, <2>3 DEF Claim, Goto, InLoop
  <2>4. CASE RelaxStep(t)
    BY <2>1, <2>4
    DEF RelaxStep, ReadOld, ReadU, CasDist, Recheck, EndVertex, LoopTest, NextEdge, Goto, InLoop
  <2>5. CASE \/ FuseBin(t) \/ NextFused(t) \/ LeaveFuse(t)
             \/ Vote(t) \/ Single(t) \/ Reserve(t) \/ Copy(t)
    BY <1>3, <2>5 DEF FuseBin, NextFused, LeaveFuse, Vote, Single, Reserve, Copy, InLoop
  <2>. QED BY <2>2, <2>3, <2>4, <2>5 DEF ThreadStep
<1>. QED BY <1>1, <1>2, <1>3

LEMMA RelaxPhase ==
  ASSUME IInv, TypeOK', NEW t \in Threads, ThreadStep(t), pc[t] \in Relaxing, Descends,
         pc'[t] \in Relaxing, RelaxInv(t)',
         \A n \in Elems(fused'[t]) : Reached(n)',
         \A b \in Bins : \A n \in Elems(bins'[t][b]) : Reached(n)',
         pc'[t] # "voted" => NextBin' = NextBin /\ pc[t] # "voted"
  PROVE  PhaseInv'
<1>1. /\ CurrBin \in Bins /\ tails[Other] = 0
      /\ todo \subseteq 1 .. tails[Curr] /\ \A i \in 1 .. tails[Curr] : Ready(i)
      /\ (\A s \in Threads : pc[s] # "voted") => NextBin = MaxBin
  BY RelaxingFacts DEF IInv
<1>2. TypeOK
  BY DEF IInv, PhaseInv
<1>3. /\ CurrBin' = CurrBin /\ tails' = tails /\ frontier' = frontier /\ todo' \subseteq todo
      /\ tails'[Other'] = tails[Other] /\ tails'[Curr'] = tails[Curr]
  BY DEF Descends, Curr, Other
<1>4. \A n \in V : dist'[n] <= DistInf
  BY LabelsDescend
<1>5. \A s \in Threads : pc'[s] \in Relaxing /\ RelaxInv(s)'
  BY OthersRelax
<1>6. \A s \in Threads : /\ \A n \in Elems(fused'[s]) : Reached(n)'
                         /\ \A b \in Bins : \A n \in Elems(bins'[s][b]) : Reached(n)'
  BY OthersRelax
<1>7. \A i \in 1 .. tails[Curr] : Ready(i)'
  <2>1. \A n \in V : dist[n] < DistInf => dist'[n] < DistInf
    BY LabelsDescend DEF Reached
  <2>. QED BY <1>1, <1>3, <2>1 DEF Ready, Reached
<1>8. (\A s \in Threads : pc'[s] # "voted") => NextBin' = MaxBin
  BY <1>1, <1>2, OneThread
<1>9. /\ \A s \in Threads : pc'[s] \in Relaxing /\ RelaxInv(s)'
      /\ CurrBin' \in Bins /\ tails'[Other'] = 0
      /\ todo' \subseteq 1 .. tails'[Curr'] /\ \A i \in 1 .. tails'[Curr'] : Ready(i)'
      /\ todo' = {} \/ \E s \in Threads : InLoop(s)'
      /\ (\A s \in Threads : pc'[s] # "voted") => NextBin' = MaxBin
  BY <1>1, <1>3, <1>5, <1>7, <1>8, LoopHeld
<1>. QED BY <1>4, <1>6, <1>9 DEF PhaseInv

(* A vertex with slack that keeps its label had it before.                 *)
At(t, n, e) == n \in Elems(bins[t][BinOf(n)]) \/ n \in Elems(fused[t]) \/ InHand(t, n, e)

LEMMA RelaxOwed ==
  ASSUME IInv, TypeOK', NEW t \in Threads, ThreadStep(t), pc[t] \in Relaxing, Descends,
         pc'[t] \in Relaxing,
         \A n \in V : dist'[n] # dist[n] => n \in Elems(bins'[t][BinOf(n)']),
         \A n \in V : \A e \in Elems(g.out[n]) :
           /\ Slack(n, e) /\ Slack(n, e)' /\ dist'[n] = dist[n] /\ CurrBin <= BinOf(n)
           /\ At(t, n, e) \/ \E i \in todo \ todo' : frontier[i] = n
           => At(t, n, e)'
  PROVE  OwedInv'
<1>1. TypeOK /\ g' = g /\ frontier' = frontier /\ CurrBin' = CurrBin /\ delta' = delta /\ todo' \subseteq todo
  BY DEF IInv, PhaseInv, Descends
<1>2. \A s \in Threads : pc'[s] \in Relaxing
  BY OthersRelax
<1>. SUFFICES ASSUME NEW n \in V, NEW e \in Elems(g.out[n]), Slack(n, e)'
              PROVE  /\ CurrBin <= BinOf(n)'
                     /\ \/ \E i \in todo' : frontier[i] = n
                        \/ \E s \in Threads : At(s, n, e)'
  BY <1>1, <1>2 DEF OwedInv, At, InBins
<1>3. /\ dist[n] \in Nat /\ dist'[n] \in Nat /\ delta \in Nat \ {0}
      /\ CurrBin <= BinOf(n) => CurrBin <= BinOf(n)'
      /\ dist'[n] = dist[n] => BinOf(n)' = BinOf(n)
  BY LabelsDescend
<1>4. CASE dist'[n] # dist[n]
  <2>1. CurrBin <= BinOf(n)'
    BY <1>1, <1>3, <1>4 DEF Descends, BinOf
  <2>. QED BY <1>4, <2>1 DEF At
<1>5. CASE dist'[n] = dist[n]
  <2>1. e.v \in V /\ e.w \in Nat
    <3>1. g.out[n] \in Seq(NodeWeight)
      BY <1>1 DEF TypeOK, IsWeightedGraph
    <3>2. Elems(g.out[n]) \subseteq NodeWeight
      BY <3>1, ElemsType
    <3>. QED BY <3>2 DEF NodeWeight
  <2>2. Slack(n, e)
    <3>1. dist[e.v] \in Nat /\ dist'[e.v] \in Nat /\ dist'[e.v] <= dist[e.v]
      BY <2>1, LabelsDescend
    <3>. QED BY <1>3, <1>5, <2>1, <3>1 DEF Slack, Reached
  <2>3. \A s \in Threads : pc[s] \in Relaxing /\ pc[s] \notin Moving
    BY RelaxingFacts DEF IInv, Relaxing, Working, Moving
  <2>4. /\ CurrBin <= BinOf(n)
        /\ \/ \E i \in todo : frontier[i] = n
           \/ \E s \in Threads : At(s, n, e)
    BY <2>2, <2>3 DEF IInv, OwedInv, At, InBins
  <2>5. ASSUME NEW s \in Threads \ {t}, At(s, n, e) PROVE At(s, n, e)'
    BY <1>1, <1>3, <1>5, <2>5, OneThread DEF At, InHand
  <2>6. CASE \E s \in Threads : At(s, n, e)
    BY <1>3, <1>5, <2>2, <2>4, <2>5, <2>6
  <2>7. CASE \E i \in todo : frontier[i] = n
    BY <1>3, <1>5, <2>2, <2>4, <2>7
  <2>. QED BY <2>4, <2>6, <2>7
<1>. QED BY <1>4, <1>5

(* Steps that write neither a label nor a vote.                            *)
LEMMA StillDescends ==
  ASSUME IInv, UNCHANGED <<g, delta, iter, frontier, tails, dist, indexes>>, todo' \subseteq todo
  PROVE  /\ Descends /\ CurrBin' = CurrBin /\ NextBin' = NextBin
         /\ \A n : BinOf(n)' = BinOf(n) /\ Reached(n)' = Reached(n)
BY DEF Descends, CurrBin, NextBin, Curr, Other, BinOf, Reached

(* What a step may count on while edges are relaxed.                       *)
LEMMA Relaxer ==
  ASSUME IInv, NEW t \in Threads, pc[t] \in Relaxing
  PROVE  /\ TypeOK /\ RelaxInv(t) /\ CurrBin \in Bins
         /\ \A n \in Elems(fused[t]) : n \in V /\ Reached(n) /\ CurrBin <= BinOf(n)
         /\ \A n \in Elems(bins[t][CurrBin]) : CurrBin <= BinOf(n)
         /\ \A b \in Bins : \A n \in Elems(bins[t][b]) : n \in V /\ Reached(n)
<1>1. TypeOK /\ RelaxInv(t) /\ CurrBin \in Bins
  BY RelaxingFacts DEF IInv, PhaseInv
<1>2. fused[t] \in Seq(V) /\ \A b \in Bins : bins[t][b] \in Seq(V)
  BY <1>1, LocalsType
<1>3. Elems(fused[t]) \subseteq V /\ \A b \in Bins : Elems(bins[t][b]) \subseteq V
  BY <1>2, ElemsType
<1>4. /\ \A n \in Elems(fused[t]) : Reached(n)
      /\ \A b \in Bins : \A n \in Elems(bins[t][b]) : Reached(n)
  BY DEF IInv, PhaseInv
<1>5. \A n \in Elems(fused[t]) \cup Elems(bins[t][CurrBin]) : CurrBin <= BinOf(n)
  BY <1>1 DEF RelaxInv
<1>. QED BY <1>1, <1>3, <1>4, <1>5

LEMMA ClaimStep ==
  ASSUME IInv, TypeOK', NEW t \in Threads, Claim(t)
  PROVE  IInv'
<1>1. /\ pc[t] = "frontier" /\ pc[t] \in Relaxing /\ ThreadStep(t)
      /\ UNCHANGED <<g, source, delta, dist, frontier, tails, indexes, iter, singled,
                     caller, bins, fused, old, new, pos>>
  BY DEF Claim, ThreadStep, Relaxing
<1>2. PICK i \in todo :
        /\ todo' = todo \ {i}
        /\ IF dist[frontier[i]] >= delta * CurrBin
             THEN /\ Goto(t, "edges")
                  /\ u' = [u EXCEPT ![t] = frontier[i]]
                  /\ edges' = [edges EXCEPT ![t] = g.out[frontier[i]]]
             ELSE UNCHANGED <<pc, u, edges>>
  BY DEF Claim
<1>3. /\ Descends /\ CurrBin' = CurrBin /\ NextBin' = NextBin
      /\ \A n : BinOf(n)' = BinOf(n) /\ Reached(n)' = Reached(n)
  BY <1>1, <1>2, StillDescends
<1>4. /\ TypeOK /\ RelaxInv(t) /\ caller[t] = "frontier" /\ fused[t] = <<>>
      /\ \A n \in Elems(bins[t][CurrBin]) : CurrBin <= BinOf(n)
      /\ \A b \in Bins : \A n \in Elems(bins[t][b]) : Reached(n)
  BY <1>1, Relaxer DEF RelaxInv
<1>5. Ready(i)
  BY <1>1, <1>2, RelaxingFacts DEF IInv
<1>. DEFINE n == frontier[i]
<1>6. n \in V /\ Reached(n) /\ (CurrBin <= BinOf(n) <=> dist[n] >= delta * CurrBin)
  <2>1. n \in V /\ Reached(n) /\ dist[n] \in Nat
    BY <1>4, <1>5 DEF Ready, TypeOK
  <2>2. delta \in Nat \ {0} /\ CurrBin \in Nat
    BY <1>4, Basics
  <2>3. CurrBin <= dist[n] \div delta <=> delta * CurrBin <= dist[n]
    BY <2>1, <2>2, DivBound
  <2>. QED BY <2>1, <2>2, <2>3 DEF BinOf
<1>7. CASE dist[n] >= delta * CurrBin
  <2>1. pc'[t] = "edges" /\ u'[t] = n /\ edges'[t] = g.out[n]
    BY <1>2, <1>4, <1>7 DEF Goto, TypeOK, PerThread
  <2>2. RelaxInv(t)'
    <3>1. dist'[u'[t]] < DistInf /\ CurrBin <= dist'[u'[t]] \div delta'
      BY <1>1, <1>6, <1>7, <2>1 DEF Reached, BinOf
    <3>2. \A m \in Elems(fused'[t]) \cup Elems(bins'[t][CurrBin']) : CurrBin <= BinOf(m)'
      BY <1>1, <1>3, <1>4, ElemsEmpty
    <3>. QED BY <1>1, <1>3, <1>4, <2>1, <3>1, <3>2 DEF RelaxInv, Reached, BinOf
  <2>3. PhaseInv'
    BY <1>1, <1>3, <1>4, <2>1, <2>2, RelaxPhase, ElemsEmpty DEF Relaxing, Working
  <2>4. ASSUME NEW m \in V, NEW e \in Elems(g.out[m]),
               At(t, m, e) \/ \E j \in todo \ todo' : frontier[j] = m
        PROVE  At(t, m, e)'
    <3>1. CASE At(t, m, e)
      BY <1>1, <1>3, <3>1 DEF At, InHand
    <3>2. CASE \E j \in todo \ todo' : frontier[j] = m
      <4>1. m = n
        BY <1>2, <3>2
      <4>. QED BY <2>1, <4>1 DEF At, InHand
    <3>. QED BY <2>4, <3>1, <3>2
  <2>5. OwedInv'
    BY <1>1, <1>3, <2>1, <2>4, RelaxOwed DEF Relaxing, Working
  <2>. QED BY <2>3, <2>5 DEF IInv
<1>8. CASE ~(dist[n] >= delta * CurrBin)
  <2>1. UNCHANGED <<pc, u, edges>>
    BY <1>2, <1>8
  <2>2. RelaxInv(t)'
    BY <1>1, <1>3, <1>4, <2>1, ElemsEmpty DEF RelaxInv, Working
  <2>3. PhaseInv'
    BY <1>1, <1>3, <1>4, <2>1, <2>2, RelaxPhase, ElemsEmpty
  <2>4. ASSUME NEW m \in V, NEW e \in Elems(g.out[m]), CurrBin <= BinOf(m),
               At(t, m, e) \/ \E j \in todo \ todo' : frontier[j] = m
        PROVE  At(t, m, e)'
    <3>1. CASE At(t, m, e)
      BY <1>1, <1>3, <2>1, <3>1 DEF At, InHand
    <3>2. CASE \E j \in todo \ todo' : frontier[j] = m
      BY <1>2, <1>6, <1>8, <2>4, <3>2
    <3>. QED BY <2>4, <3>1, <3>2
  <2>5. OwedInv'
    BY <1>1, <1>3, <2>1, <2>4, RelaxOwed
  <2>. QED BY <2>3, <2>5 DEF IInv
<1>. QED BY <1>7, <1>8

LEMMA LeaveStep ==
  ASSUME IInv, TypeOK', NEW t \in Threads, LeaveLoop(t) \/ LeaveFuse(t)
  PROVE  IInv'
<1>1. /\ pc[t] \in {"frontier", "fuse"} /\ pc[t] \in Relaxing /\ ThreadStep(t)
      /\ UNCHANGED <<g, source, delta, dist, frontier, tails, indexes, iter, todo, singled,
                     caller, bins, fused, u, edges, old, new, pos>>
      /\ \/ pc[t] = "frontier" /\ pc' = [pc EXCEPT ![t] = "fuse"]
         \/ pc[t] = "fuse" /\ fused[t] = <<>> /\ pc' = [pc EXCEPT ![t] = "vote"]
  BY DEF LeaveLoop, LeaveFuse, Goto, ThreadStep, Relaxing, shared, locals
<1>2. /\ Descends /\ CurrBin' = CurrBin /\ NextBin' = NextBin
      /\ \A n : BinOf(n)' = BinOf(n) /\ Reached(n)' = Reached(n)
  BY <1>1, StillDescends
<1>3. /\ TypeOK /\ RelaxInv(t)
      /\ \A n \in Elems(fused[t]) : Reached(n) /\ CurrBin <= BinOf(n)
      /\ \A n \in Elems(bins[t][CurrBin]) : CurrBin <= BinOf(n)
      /\ \A b \in Bins : \A n \in Elems(bins[t][b]) : Reached(n)
  BY <1>1, Relaxer
<1>4. pc'[t] \in {"fuse", "vote"}
  BY <1>1, <1>3 DEF TypeOK, PerThread
<1>5. pc'[t] = "vote" => pc[t] = "fuse"
  BY <1>1, <1>3 DEF TypeOK, PerThread
<1>6. RelaxInv(t)'
  BY <1>1, <1>2, <1>3, <1>4, <1>5 DEF RelaxInv, Working
<1>7. PhaseInv'
  BY <1>1, <1>2, <1>3, <1>4, <1>6, RelaxPhase DEF Relaxing
<1>8. ASSUME NEW m \in V, NEW e \in Elems(g.out[m]),
             At(t, m, e) \/ \E j \in todo \ todo' : frontier[j] = m
      PROVE  At(t, m, e)'
  BY <1>1, <1>2, <1>4, <1>8 DEF At, InHand
<1>9. OwedInv'
  BY <1>1, <1>2, <1>4, <1>8, RelaxOwed DEF Relaxing
<1>. QED BY <1>7, <1>9 DEF IInv

(* The current bin becomes the copy.                                       *)
LEMMA FuseBinStep ==
  ASSUME IInv, TypeOK', NEW t \in Threads, FuseBin(t)
  PROVE  IInv'
<1>1. /\ pc[t] = "fuse" /\ pc[t] \in Relaxing /\ ThreadStep(t) /\ fused[t] = <<>>
      /\ fused' = [fused EXCEPT ![t] = bins[t][CurrBin]]
      /\ bins' = [bins EXCEPT ![t] = [bins[t] EXCEPT ![CurrBin] = <<>>]]
      /\ UNCHANGED <<g, source, delta, dist, frontier, tails, indexes, iter, todo, singled,
                     pc, caller, u, edges, old, new, pos>>
  BY DEF FuseBin, ThreadStep, Relaxing, shared
<1>2. /\ Descends /\ CurrBin' = CurrBin /\ NextBin' = NextBin
      /\ \A n : BinOf(n)' = BinOf(n) /\ Reached(n)' = Reached(n)
  BY <1>1, StillDescends
<1>3. /\ TypeOK /\ RelaxInv(t) /\ CurrBin \in Bins
      /\ \A n \in Elems(bins[t][CurrBin]) : CurrBin <= BinOf(n)
      /\ \A b \in Bins : \A n \in Elems(bins[t][b]) : Reached(n)
  BY <1>1, Relaxer
<1>4. /\ fused'[t] = bins[t][CurrBin]
      /\ \A b \in Bins : bins'[t][b] = IF b = CurrBin THEN <<>> ELSE bins[t][b]
  BY <1>1, <1>3 DEF TypeOK, PerThread
<1>5. RelaxInv(t)'
  BY <1>1, <1>2, <1>3, <1>4, ElemsEmpty DEF RelaxInv, Working
<1>6. /\ \A n \in Elems(fused'[t]) : Reached(n)'
      /\ \A b \in Bins : \A n \in Elems(bins'[t][b]) : Reached(n)'
  BY <1>2, <1>3, <1>4, ElemsEmpty
<1>7. PhaseInv'
  BY <1>1, <1>2, <1>5, <1>6, RelaxPhase
<1>8. ASSUME NEW m \in V, NEW e \in Elems(g.out[m]), Reached(m),
             At(t, m, e) \/ \E j \in todo \ todo' : frontier[j] = m
      PROVE  At(t, m, e)'
  <2>1. BinOf(m) \in Bins
    <3>1. dist[m] \in Nat /\ dist[m] < DistInf /\ delta \in Deltas
      BY <1>3, <1>8 DEF TypeOK, Reached
    <3>. QED BY <3>1, InABin DEF BinOf
  <2>2. m \in Elems(bins[t][BinOf(m)])
    BY <1>1, <1>8, ElemsEmpty DEF At, InHand
  <2>3. m \in Elems(fused'[t]) \/ m \in Elems(bins'[t][BinOf(m)])
    BY <1>4, <2>1, <2>2
  <2>. QED BY <1>2, <2>3 DEF At
<1>9. OwedInv'
  BY <1>1, <1>2, <1>8, RelaxOwed DEF Slack
<1>. QED BY <1>7, <1>9 DEF IInv

(* The first vertex of the copy comes into hand.                           *)
LEMMA NextFusedStep ==
  ASSUME IInv, TypeOK', NEW t \in Threads, NextFused(t)
  PROVE  IInv'
<1>. DEFINE n == Head(fused[t])
<1>1. /\ pc[t] = "fuse" /\ pc[t] \in Relaxing /\ ThreadStep(t) /\ fused[t] # <<>>
      /\ u' = [u EXCEPT ![t] = n] /\ edges' = [edges EXCEPT ![t] = g.out[n]]
      /\ fused' = [fused EXCEPT ![t] = Tail(fused[t])]
      /\ pc' = [pc EXCEPT ![t] = "edges"] /\ caller' = [caller EXCEPT ![t] = "fuse"]
      /\ UNCHANGED <<g, source, delta, dist, frontier, tails, indexes, iter, todo, singled,
                     bins, old, new, pos>>
  BY DEF NextFused, ThreadStep, Relaxing, shared, Goto
<1>2. /\ Descends /\ CurrBin' = CurrBin /\ NextBin' = NextBin
      /\ \A m : BinOf(m)' = BinOf(m) /\ Reached(m)' = Reached(m)
  BY <1>1, StillDescends
<1>3. /\ TypeOK /\ RelaxInv(t)
      /\ \A m \in Elems(fused[t]) : m \in V /\ Reached(m) /\ CurrBin <= BinOf(m)
      /\ \A m \in Elems(bins[t][CurrBin]) : CurrBin <= BinOf(m)
      /\ \A b \in Bins : \A m \in Elems(bins[t][b]) : Reached(m)
  BY <1>1, Relaxer
<1>4. /\ pc'[t] = "edges" /\ caller'[t] = "fuse" /\ u'[t] = n /\ edges'[t] = g.out[n]
      /\ fused'[t] = Tail(fused[t])
  BY <1>1, <1>3 DEF TypeOK, PerThread
<1>5. \A m : m \in Elems(fused[t]) <=> m = n \/ m \in Elems(fused'[t])
  BY <1>1, <1>3, <1>4, LocalsType, ElemsHeadTail
<1>6. RelaxInv(t)'
  <2>1. dist'[u'[t]] < DistInf /\ CurrBin <= dist'[u'[t]] \div delta'
    BY <1>1, <1>3, <1>4, <1>5 DEF Reached, BinOf
  <2>2. \A m \in Elems(fused'[t]) \cup Elems(bins'[t][CurrBin']) : CurrBin <= BinOf(m)'
    BY <1>1, <1>2, <1>3, <1>5
  <2>. QED BY <1>1, <1>2, <1>3, <1>4, <2>1, <2>2 DEF RelaxInv, Reached, BinOf
<1>7. /\ \A m \in Elems(fused'[t]) : Reached(m)'
      /\ \A b \in Bins : \A m \in Elems(bins'[t][b]) : Reached(m)'
  BY <1>1, <1>2, <1>3, <1>5
<1>8. PhaseInv'
  BY <1>1, <1>2, <1>4, <1>6, <1>7, RelaxPhase DEF Relaxing, Working
<1>9. ASSUME NEW m \in V, NEW e \in Elems(g.out[m]),
             At(t, m, e) \/ \E j \in todo \ todo' : frontier[j] = m
      PROVE  At(t, m, e)'
  <2>1. m \in Elems(bins[t][BinOf(m)]) \/ m = n \/ m \in Elems(fused'[t])
    BY <1>1, <1>5, <1>9 DEF At, InHand
  <2>. QED BY <1>1, <1>2, <1>4, <1>9, <2>1 DEF At, InHand
<1>10. OwedInv'
  BY <1>1, <1>2, <1>4, <1>9, RelaxOwed DEF Relaxing, Working
<1>. QED BY <1>8, <1>10 DEF IInv

LEMMA EndVertexStep ==
  ASSUME IInv, TypeOK', NEW t \in Threads, EndVertex(t)
  PROVE  IInv'
<1>1. /\ pc[t] = "edges" /\ pc[t] \in Relaxing /\ ThreadStep(t) /\ edges[t] = <<>>
      /\ pc' = [pc EXCEPT ![t] = caller[t]]
      /\ UNCHANGED <<g, source, delta, dist, frontier, tails, indexes, iter, todo, singled,
                     caller, bins, fused, edges, old, new, pos>>
  BY DEF EndVertex, ThreadStep, RelaxStep, Relaxing, Working, shared, Goto
<1>2. /\ Descends /\ CurrBin' = CurrBin /\ NextBin' = NextBin
      /\ \A n : BinOf(n)' = BinOf(n) /\ Reached(n)' = Reached(n)
  BY <1>1, StillDescends
<1>3. /\ TypeOK /\ RelaxInv(t) /\ caller[t] \in {"frontier", "fuse"}
      /\ \A n \in Elems(fused[t]) : Reached(n) /\ CurrBin <= BinOf(n)
      /\ \A n \in Elems(bins[t][CurrBin]) : CurrBin <= BinOf(n)
      /\ \A b \in Bins : \A n \in Elems(bins[t][b]) : Reached(n)
  BY <1>1, Relaxer DEF TypeOK, PerThread
<1>4. pc'[t] = caller[t]
  BY <1>1, <1>3 DEF TypeOK, PerThread
<1>5. RelaxInv(t)'
  BY <1>1, <1>2, <1>3, <1>4 DEF RelaxInv, Working
<1>6. PhaseInv'
  BY <1>1, <1>2, <1>3, <1>4, <1>5, RelaxPhase DEF Relaxing
<1>7. ASSUME NEW m \in V, NEW e \in Elems(g.out[m]),
             At(t, m, e) \/ \E j \in todo \ todo' : frontier[j] = m
      PROVE  At(t, m, e)'
  BY <1>1, <1>2, <1>7, ElemsEmpty DEF At, InHand
<1>8. OwedInv'
  BY <1>1, <1>2, <1>3, <1>4, <1>7, RelaxOwed DEF Relaxing
<1>. QED BY <1>6, <1>8 DEF IInv

LEMMA ReadOldStep ==
  ASSUME IInv, TypeOK', NEW t \in Threads, ReadOld(t)
  PROVE  IInv'
<1>1. /\ pc[t] = "edges" /\ pc[t] \in Relaxing /\ ThreadStep(t) /\ edges[t] # <<>>
      /\ pc' = [pc EXCEPT ![t] = "readU"]
      /\ old' = [old EXCEPT ![t] = dist[Head(edges[t]).v]]
      /\ UNCHANGED <<g, source, delta, dist, frontier, tails, indexes, iter, todo, singled,
                     caller, bins, fused, u, edges, new, pos>>
  BY DEF ReadOld, ThreadStep, RelaxStep, Relaxing, Working, shared, Goto
<1>2. /\ Descends /\ CurrBin' = CurrBin /\ NextBin' = NextBin
      /\ \A n : BinOf(n)' = BinOf(n) /\ Reached(n)' = Reached(n)
  BY <1>1, StillDescends
<1>3. /\ TypeOK /\ RelaxInv(t)
      /\ \A n \in Elems(fused[t]) : Reached(n) /\ CurrBin <= BinOf(n)
      /\ \A n \in Elems(bins[t][CurrBin]) : CurrBin <= BinOf(n)
      /\ \A b \in Bins : \A n \in Elems(bins[t][b]) : Reached(n)
  BY <1>1, Relaxer
<1>4. pc'[t] = "readU" /\ old'[t] = dist[Head(edges[t]).v]
  BY <1>1, <1>3 DEF TypeOK, PerThread
<1>5. dist[Head(edges[t]).v] \in Nat /\ dist[Head(edges[t]).v] <= DistInf
  BY <1>1, <1>3, HeadEdge DEF IInv, PhaseInv
<1>6. Reached(u[t]) /\ CurrBin <= BinOf(u[t])
  BY <1>1, <1>3 DEF RelaxInv, Working
<1>7. RelaxInv(t)'
  BY <1>1, <1>2, <1>3, <1>4, <1>5, <1>6 DEF RelaxInv, Reached, BinOf
<1>8. PhaseInv'
  BY <1>1, <1>2, <1>3, <1>4, <1>7, RelaxPhase DEF Relaxing, Working
<1>9. ASSUME NEW m \in V, NEW e \in Elems(g.out[m]),
             At(t, m, e) \/ \E j \in todo \ todo' : frontier[j] = m
      PROVE  At(t, m, e)'
  BY <1>1, <1>2, <1>4, <1>9 DEF At, InHand
<1>10. OwedInv'
  BY <1>1, <1>2, <1>4, <1>9, RelaxOwed DEF Relaxing, Working
<1>. QED BY <1>8, <1>10 DEF IInv

(* The test of the while loop: if it fails, the current edge has no slack. *)
LEMMA TestStep ==
  ASSUME IInv, EdgesInv, TypeOK', NEW t \in Threads, ReadU(t) \/ Recheck(t)
  PROVE  IInv'
<1>. DEFINE m == Head(edges[t]).v
            a == IF pc[t] = "readU" THEN dist[u[t]] + Head(edges[t]).w ELSE new[t]
            b == IF pc[t] = "readU" THEN old[t] ELSE dist[m]
<1>1. /\ pc[t] \in {"readU", "recheck"} /\ pc[t] \in Relaxing /\ ThreadStep(t)
      /\ LoopTest(t, a, b)
      /\ UNCHANGED <<g, source, delta, dist, frontier, tails, indexes, iter, todo, singled,
                     caller, bins, fused, u, pos>>
  <2>1. CASE ReadU(t)
    BY <2>1, SumIs DEF ReadU, ThreadStep, RelaxStep, Relaxing, Working, shared
  <2>2. CASE Recheck(t)
    BY <2>2 DEF Recheck, ThreadStep, RelaxStep, Relaxing, Working, shared
  <2>. QED BY <2>1, <2>2
<1>2. /\ Descends /\ CurrBin' = CurrBin /\ NextBin' = NextBin
      /\ \A n : BinOf(n)' = BinOf(n) /\ Reached(n)' = Reached(n)
  BY <1>1, StillDescends
<1>3. /\ TypeOK /\ RelaxInv(t)
      /\ \A n \in Elems(fused[t]) : Reached(n) /\ CurrBin <= BinOf(n)
      /\ \A n \in Elems(bins[t][CurrBin]) : CurrBin <= BinOf(n)
      /\ \A n \in Bins : \A x \in Elems(bins[t][n]) : Reached(x)
  BY <1>1, Relaxer
<1>4. /\ edges[t] # <<>> /\ Reached(u[t]) /\ CurrBin <= BinOf(u[t])
      /\ pc[t] = "readU" => dist[m] <= old[t] /\ old[t] <= DistInf
      /\ pc[t] = "recheck" => new[t] < DistInf /\ CurrBin <= new[t] \div delta
  BY <1>1, <1>3 DEF RelaxInv, Working
<1>5. /\ u[t] \in V /\ dist[m] \in Nat /\ dist[u[t]] \in Nat /\ old[t] \in Nat /\ new[t] \in Nat
      /\ Head(edges[t]).w \in Nat /\ DistInf \in Nat /\ dist[m] <= DistInf
      /\ delta \in Nat \ {0} /\ CurrBin \in Nat
  <2>1. u[t] \in V /\ old[t] \in Nat /\ new[t] \in Nat
    BY <1>3, LocalsType
  <2>2. m \in V /\ dist[m] \in Nat /\ dist[u[t]] \in Nat /\ Head(edges[t]).w \in Nat
    BY <1>3, <1>4, HeadEdge
  <2>3. dist[m] <= DistInf
    BY <2>2 DEF IInv, PhaseInv
  <2>4. DistInf \in Nat /\ delta \in Nat \ {0} /\ CurrBin \in Nat
    BY <1>3, Basics
  <2>. QED BY <2>1, <2>2, <2>3, <2>4
<1>6. a \in Nat /\ b \in Nat /\ b <= DistInf /\ dist[m] <= b
  <2>1. CASE pc[t] = "readU"
    <3>1. a = dist[u[t]] + Head(edges[t]).w /\ b = old[t]
      BY <2>1
    <3>2. a \in Nat
      BY <1>5, <3>1
    <3>. QED BY <1>4, <1>5, <2>1, <3>1, <3>2
  <2>2. CASE pc[t] = "recheck"
    <3>1. a = new[t] /\ b = dist[m]
      BY <2>2
    <3>. QED BY <1>5, <3>1
  <2>. QED BY <1>1, <2>1, <2>2
<1>7. CurrBin <= a \div delta
  <2>1. CASE pc[t] = "readU"
    <3>1. dist[u[t]] \div delta <= a \div delta
      <4>1. a = dist[u[t]] + Head(edges[t]).w
        BY <2>1
      <4>. HIDE DEF a
      <4>2. dist[u[t]] <= a
        BY <1>5, <4>1
      <4>. QED BY <1>5, <1>6, <4>2, DivMonotone
    <3>2. dist[u[t]] \div delta \in Nat /\ a \div delta \in Nat
      BY <1>5, <1>6, DivType
    <3>. QED BY <1>4, <1>5, <3>1, <3>2 DEF BinOf
  <2>2. CASE pc[t] = "recheck"
    BY <1>4, <2>2
  <2>. QED BY <1>1, <2>1, <2>2
<1>8. \A x : x \in Elems(edges[t]) <=> x = Head(edges[t]) \/ x \in Elems(Tail(edges[t]))
  <2>1. edges[t] \in Seq(NodeWeight)
    BY <1>3, LocalsType
  <2>. QED BY <1>4, <2>1, ElemsHeadTail
<1>9. ASSUME NEW n \in V, NEW e, InHand(t, n, e)
      PROVE  /\ u[t] = n
             /\ \/ e \in Elems(Tail(edges[t]))
                \/ e = Head(edges[t]) /\ a = dist[n] + e.w
  BY <1>1, <1>8, <1>9 DEF InHand
<1>10. /\ \/ /\ a < b /\ pc' = [pc EXCEPT ![t] = "cas"] /\ UNCHANGED edges
             /\ new'[t] = a /\ old'[t] = b
          \/ /\ ~(a < b) /\ pc' = [pc EXCEPT ![t] = "edges"] /\ edges'[t] = Tail(edges[t])
  <2>. HIDE DEF a, b
  <2>. QED BY <1>1, <1>3, <1>4, <1>6, LoopTestType
<1>11. CASE a < b
  <2>1. pc'[t] = "cas" /\ edges'[t] = edges[t] /\ new'[t] = a /\ old'[t] = b
    BY <1>3, <1>10, <1>11 DEF TypeOK, PerThread
  <2>2. RelaxInv(t)'
    <3>. HIDE DEF a, b
    <3>1. a < DistInf
      BY <1>5, <1>6, <1>11
    <3>. QED BY <1>1, <1>2, <1>3, <1>4, <1>7, <1>11, <2>1, <3>1 DEF RelaxInv, Reached, BinOf, Working
  <2>3. PhaseInv'
    BY <1>1, <1>2, <1>3, <2>1, <2>2, RelaxPhase DEF Relaxing, Working
  <2>4. ASSUME NEW n \in V, NEW e \in Elems(g.out[n]),
               At(t, n, e) \/ \E j \in todo \ todo' : frontier[j] = n
        PROVE  At(t, n, e)'
    <3>. HIDE DEF a, b
    <3>1. CASE InHand(t, n, e)
      BY <1>1, <1>9, <2>1, <3>1 DEF At, InHand
    <3>. QED BY <1>1, <1>2, <2>4, <3>1 DEF At
  <2>5. OwedInv'
    BY <1>1, <1>2, <2>1, <2>4, RelaxOwed DEF Relaxing, Working
  <2>. QED BY <2>3, <2>5 DEF IInv
<1>12. CASE ~(a < b)
  <2>1. pc'[t] = "edges" /\ edges'[t] = Tail(edges[t])
    BY <1>3, <1>10, <1>12 DEF TypeOK, PerThread
  <2>2. RelaxInv(t)'
    BY <1>1, <1>2, <1>3, <1>4, <2>1 DEF RelaxInv, Reached, BinOf, Working
  <2>3. PhaseInv'
    BY <1>1, <1>2, <1>3, <2>1, <2>2, RelaxPhase DEF Relaxing, Working
  <2>4. ASSUME NEW n \in V, NEW e \in Elems(g.out[n]), Slack(n, e),
               At(t, n, e) \/ \E j \in todo \ todo' : frontier[j] = n
        PROVE  At(t, n, e)'
    <3>. HIDE DEF a, b
    <3>1. CASE InHand(t, n, e)
      <4>1. e # Head(edges[t]) \/ a # dist[n] + e.w
        BY <1>5, <1>6, <1>12, <2>4 DEF Slack
      <4>. QED BY <1>1, <1>9, <2>1, <3>1, <4>1 DEF At, InHand
    <3>. QED BY <1>1, <1>2, <2>4, <3>1 DEF At
  <2>5. OwedInv'
    BY <1>1, <1>2, <2>1, <2>4, RelaxOwed DEF Relaxing, Working
  <2>. QED BY <2>3, <2>5 DEF IInv
<1>. QED BY <1>11, <1>12

(* The compare and swap that wins: the vertex is in the bin of its label,  *)
(* and the current edge has no slack.                                      *)
LEMMA CasWinsStep ==
  ASSUME IInv, TypeOK', NEW t \in Threads, CasDist(t), dist[Head(edges[t]).v] = old[t]
  PROVE  IInv'
<1>. DEFINE m == Head(edges[t]).v
            k == new[t] \div delta
<1>1. /\ pc[t] = "cas" /\ pc[t] \in Relaxing /\ ThreadStep(t)
      /\ dist' = [dist EXCEPT ![m] = new[t]]
      /\ bins' = [bins EXCEPT ![t] = [bins[t] EXCEPT ![k] = Append(bins[t][k], m)]]
      /\ NextEdge(t)
      /\ UNCHANGED <<g, source, delta, frontier, tails, indexes, iter, todo, singled,
                     caller, fused, u, pos>>
  BY DEF CasDist, ThreadStep, RelaxStep, Relaxing, Working
<1>2. /\ TypeOK /\ RelaxInv(t) /\ CurrBin \in Bins
      /\ \A n \in Elems(fused[t]) : n \in V /\ Reached(n) /\ CurrBin <= BinOf(n)
      /\ \A n \in Elems(bins[t][CurrBin]) : CurrBin <= BinOf(n)
      /\ \A b \in Bins : \A n \in Elems(bins[t][b]) : n \in V /\ Reached(n)
  BY <1>1, Relaxer
<1>3. /\ edges[t] # <<>> /\ Reached(u[t]) /\ CurrBin <= BinOf(u[t])
      /\ new[t] < old[t] /\ new[t] < DistInf /\ CurrBin <= k
  BY <1>1, <1>2 DEF RelaxInv, Working
<1>4. /\ u[t] \in V /\ m \in V /\ new[t] \in Nat /\ old[t] \in Nat /\ k \in Bins
      /\ dist \in [V -> Nat]
  <2>1. u[t] \in V /\ new[t] \in Nat /\ old[t] \in Nat /\ delta \in Deltas
    BY <1>2, LocalsType, Basics
  <2>2. m \in V
    BY <1>2, <1>3, HeadEdge
  <2>3. k \in Bins
    BY <1>3, <2>1, InABin
  <2>. QED BY <1>2, <2>1, <2>2, <2>3 DEF TypeOK
<1>5. dist'[m] = new[t] /\ \A n \in V \ {m} : dist'[n] = dist[n]
  BY <1>1, <1>4
<1>6. Descends /\ CurrBin' = CurrBin /\ NextBin' = NextBin
  <2>1. CurrBin' = CurrBin /\ NextBin' = NextBin
    BY <1>1 DEF CurrBin, NextBin, Curr, Other
  <2>. HIDE DEF m, k
  <2>2. ASSUME NEW n \in V
        PROVE  \/ dist'[n] = dist[n]
               \/ dist'[n] < dist[n] /\ CurrBin <= dist'[n] \div delta
    BY <1>3, <1>4, <1>5 DEF k, m
  <2>. QED BY <1>1, <2>1, <2>2 DEF Descends
<1>7. /\ pc'[t] = "edges" /\ edges'[t] = Tail(edges[t])
      /\ fused'[t] = fused[t] /\ u'[t] = u[t] /\ caller'[t] = caller[t]
  <2>1. pc' = [pc EXCEPT ![t] = "edges"] /\ edges'[t] = Tail(edges[t])
    BY <1>1, <1>2, <1>3, NextEdgeType
  <2>. QED BY <1>1, <1>2, <2>1 DEF TypeOK, PerThread
<1>8. /\ \A b \in Bins : b # k => bins'[t][b] = bins[t][b]
      /\ \A n : n \in Elems(bins'[t][k]) <=> n \in Elems(bins[t][k]) \/ n = m
  <2>1. bins[t] \in [Bins -> Seq(V)] /\ DOMAIN bins = Threads
    BY <1>2 DEF TypeOK, PerThread
  <2>. HIDE DEF m, k
  <2>2. bins'[t] = [bins[t] EXCEPT ![k] = Append(bins[t][k], m)]
    BY <1>1, <2>1
  <2>3. bins'[t][k] = Append(bins[t][k], m) /\ \A b \in Bins : b # k => bins'[t][b] = bins[t][b]
    BY <1>4, <2>1, <2>2
  <2>4. bins[t][k] \in Seq(V)
    BY <1>4, <2>1
  <2>. QED BY <1>4, <2>3, <2>4, ElemsAppend
<1>9. \A n \in V : n = m => BinOf(n)' = k /\ Reached(n)'
  BY <1>1, <1>3, <1>5 DEF BinOf, Reached
<1>10. \A n \in V : /\ Reached(n) => Reached(n)'
                    /\ CurrBin <= BinOf(n) => CurrBin <= BinOf(n)'
                    /\ dist'[n] = dist[n] => BinOf(n)' = BinOf(n)
  BY <1>6, LabelsDescend
<1>11. /\ \A n \in Elems(fused'[t]) : Reached(n)' /\ CurrBin <= BinOf(n)'
       /\ \A b \in Bins : \A n \in Elems(bins'[t][b]) : Reached(n)'
       /\ \A n \in Elems(bins'[t][CurrBin]) : CurrBin <= BinOf(n)'
  <2>. HIDE DEF m, k
  <2>1. \A n \in Elems(fused'[t]) : Reached(n)' /\ CurrBin <= BinOf(n)'
    BY <1>2, <1>7, <1>10
  <2>2. \A b \in Bins : \A n \in Elems(bins'[t][b]) : Reached(n)'
    BY <1>2, <1>4, <1>8, <1>9, <1>10
  <2>3. \A n \in Elems(bins'[t][CurrBin]) : CurrBin <= BinOf(n)'
    BY <1>2, <1>3, <1>4, <1>8, <1>9, <1>10
  <2>. QED BY <2>1, <2>2, <2>3
<1>12. RelaxInv(t)'
  <2>1. dist'[u'[t]] < DistInf /\ CurrBin <= dist'[u'[t]] \div delta'
    <3>1. \A n \in V : Reached(n) /\ CurrBin <= BinOf(n) =>
             dist'[n] < DistInf /\ CurrBin <= dist'[n] \div delta'
      BY <1>10 DEF Reached, BinOf
    <3>. QED BY <1>3, <1>4, <1>7, <3>1
  <2>. QED BY <1>1, <1>2, <1>6, <1>7, <1>11, <2>1 DEF RelaxInv, Reached, BinOf, Working
<1>13. PhaseInv'
  BY <1>1, <1>6, <1>7, <1>11, <1>12, RelaxPhase DEF Relaxing, Working
<1>14. ASSUME NEW n \in V, NEW e \in Elems(g.out[n]), Slack(n, e), Slack(n, e)', dist'[n] = dist[n],
              At(t, n, e) \/ \E j \in todo \ todo' : frontier[j] = n
       PROVE  At(t, n, e)'
  <2>1. BinOf(n) \in Bins /\ dist[n] \in Nat
    <3>1. dist[n] \in Nat /\ dist[n] < DistInf /\ delta \in Deltas
      BY <1>2, <1>4, <1>14 DEF TypeOK, Slack, Reached
    <3>. QED BY <3>1, InABin DEF BinOf
  <2>2. CASE InHand(t, n, e)
    <3>1. e # Head(edges[t]) \/ new[t] # dist[n] + e.w
      <4>1. ASSUME e = Head(edges[t]), new[t] = dist[n] + e.w PROVE FALSE
        <5>1. dist'[e.v] = dist[n] + e.w
          BY <1>5, <4>1
        <5>2. dist'[e.v] > dist[n] + e.w
          BY <1>14 DEF Slack
        <5>3. dist[n] + e.w \in Nat
          BY <1>4, <4>1
        <5>. QED BY <5>1, <5>2, <5>3
      <4>. QED BY <4>1
    <3>. QED BY <1>1, <1>7, <2>2, <3>1 DEF At, InHand
  <2>3. CASE n \in Elems(bins[t][BinOf(n)])
    <3>. HIDE DEF m, k
    <3>1. n \in Elems(bins'[t][BinOf(n)])
      BY <1>8, <2>1, <2>3
    <3>. QED BY <1>10, <1>14, <3>1 DEF At
  <2>. QED BY <1>1, <1>7, <1>14, <2>2, <2>3 DEF At
<1>15. \A n \in V : dist'[n] # dist[n] => n \in Elems(bins'[t][BinOf(n)'])
  BY <1>5, <1>8, <1>9
<1>16. OwedInv'
  BY <1>1, <1>6, <1>7, <1>14, <1>15, RelaxOwed DEF Relaxing, Working
<1>. QED BY <1>13, <1>16 DEF IInv

(* The one that loses goes on with what it has.                            *)
LEMMA CasLosesStep ==
  ASSUME IInv, TypeOK', NEW t \in Threads, CasDist(t), dist[Head(edges[t]).v] # old[t]
  PROVE  IInv'
<1>1. /\ pc[t] = "cas" /\ pc[t] \in Relaxing /\ ThreadStep(t)
      /\ pc' = [pc EXCEPT ![t] = "recheck"]
      /\ UNCHANGED <<g, source, delta, dist, frontier, tails, indexes, iter, todo, singled,
                     caller, bins, fused, u, edges, old, new, pos>>
  BY DEF CasDist, ThreadStep, RelaxStep, Relaxing, Working, Goto
<1>2. /\ Descends /\ CurrBin' = CurrBin /\ NextBin' = NextBin
      /\ \A n : BinOf(n)' = BinOf(n) /\ Reached(n)' = Reached(n)
  BY <1>1, StillDescends
<1>3. /\ TypeOK /\ RelaxInv(t)
      /\ \A n \in Elems(fused[t]) : Reached(n) /\ CurrBin <= BinOf(n)
      /\ \A n \in Elems(bins[t][CurrBin]) : CurrBin <= BinOf(n)
      /\ \A b \in Bins : \A n \in Elems(bins[t][b]) : Reached(n)
  BY <1>1, Relaxer
<1>4. pc'[t] = "recheck"
  BY <1>1, <1>3 DEF TypeOK, PerThread
<1>5. Reached(u[t]) /\ CurrBin <= BinOf(u[t])
  BY <1>1, <1>3 DEF RelaxInv, Working
<1>6. RelaxInv(t)'
  BY <1>1, <1>2, <1>3, <1>4, <1>5 DEF RelaxInv, Reached, BinOf
<1>7. PhaseInv'
  BY <1>1, <1>2, <1>3, <1>4, <1>6, RelaxPhase DEF Relaxing, Working
<1>8. ASSUME NEW m \in V, NEW e \in Elems(g.out[m]),
             At(t, m, e) \/ \E j \in todo \ todo' : frontier[j] = m
      PROVE  At(t, m, e)'
  BY <1>1, <1>2, <1>4, <1>8 DEF At, InHand
<1>9. OwedInv'
  BY <1>1, <1>2, <1>4, <1>8, RelaxOwed DEF Relaxing, Working
<1>. QED BY <1>7, <1>9 DEF IInv

LEMMA VoteStep ==
  ASSUME IInv, TypeOK', NEW t \in Threads, Vote(t)
  PROVE  IInv'
<1>1. /\ pc[t] = "vote" /\ pc[t] \in Relaxing /\ ThreadStep(t)
      /\ pc' = [pc EXCEPT ![t] = "voted"]
      /\ UNCHANGED <<g, source, delta, dist, frontier, tails, iter, todo, singled,
                     caller, bins, fused, u, edges, old, new, pos>>
  BY DEF Vote, ThreadStep, Relaxing, locals, Goto
<1>2. /\ TypeOK /\ RelaxInv(t) /\ CurrBin \in Bins
      /\ \A n \in Elems(fused[t]) : Reached(n) /\ CurrBin <= BinOf(n)
      /\ \A n \in Elems(bins[t][CurrBin]) : CurrBin <= BinOf(n)
      /\ \A b \in Bins : \A n \in Elems(bins[t][b]) : Reached(n)
  BY <1>1, Relaxer
<1>3. PICK b \in 0 .. MaxBin :
        /\ indexes' = [indexes EXCEPT ![Other] = b] /\ b <= NextBin
        /\ b = NextBin \/ (b \in Bins /\ CurrBin <= b)
        /\ \A c \in Bins : c >= CurrBin /\ bins[t][c] # <<>> => b <= c
  BY <1>2, VoteChoice
<1>4. CurrBin' = CurrBin /\ NextBin' = b
  <2>1. indexes \in [{0, 1} -> 0 .. MaxBin] /\ Curr \in {0, 1} /\ Other \in {0, 1} /\ Curr # Other
    BY <1>2, Basics DEF TypeOK, Sides
  <2>2. indexes'[Curr] = indexes[Curr] /\ indexes'[Other] = b
    BY <1>3, <2>1
  <2>. QED BY <1>1, <2>2 DEF CurrBin, NextBin, Curr, Other
<1>5. /\ CurrBin \in Nat /\ NextBin \in 0 .. MaxBin /\ MaxBin \in Nat
  BY <1>2, Basics
<1>6. CurrBin <= NextBin
  <2>1. CASE \E s \in Threads : pc[s] = "voted"
    <3>1. \A s \in Threads : pc[s] # "voted" \/ NextBin \in CurrBin .. MaxBin
      BY <1>1, RelaxingFacts DEF IInv, RelaxInv
    <3>. QED BY <1>5, <2>1, <3>1
  <2>2. CASE \A s \in Threads : pc[s] # "voted"
    <3>1. NextBin = MaxBin
      BY <1>1, <2>2, RelaxingFacts DEF IInv
    <3>. QED BY <1>2, <1>5, <3>1 DEF Bins
  <2>. QED BY <2>1, <2>2
<1>7. /\ NextBin' \in CurrBin .. NextBin
      /\ NextBin' \in CurrBin .. MaxBin
  BY <1>3, <1>4, <1>5, <1>6
<1>8. /\ Descends
      /\ \A n : BinOf(n)' = BinOf(n) /\ Reached(n)' = Reached(n)
  BY <1>1, <1>4, <1>7 DEF Descends, BinOf, Reached
<1>9. pc'[t] = "voted"
  BY <1>1, <1>2 DEF TypeOK, PerThread
<1>10. RelaxInv(t)'
  <2>1. \A c \in Bins : c >= CurrBin /\ bins[t][c] # <<>> => NextBin' <= c
    BY <1>3, <1>4
  <2>2. fused[t] = <<>>
    BY <1>1, <1>2 DEF RelaxInv
  <2>. QED BY <1>1, <1>2, <1>4, <1>7, <1>8, <1>9, <2>1, <2>2, ElemsEmpty DEF RelaxInv, Working
<1>11. PhaseInv'
  BY <1>1, <1>2, <1>8, <1>9, <1>10, RelaxPhase DEF Relaxing
<1>12. ASSUME NEW m \in V, NEW e \in Elems(g.out[m]),
              At(t, m, e) \/ \E j \in todo \ todo' : frontier[j] = m
       PROVE  At(t, m, e)'
  BY <1>1, <1>8, <1>12 DEF At, InHand
<1>13. OwedInv'
  BY <1>1, <1>8, <1>9, <1>12, RelaxOwed DEF Relaxing
<1>. QED BY <1>11, <1>13 DEF IInv
-----------------------------------------------------------------------------
(* What a step may count on while the bins are copied.                     *)
LEMMA Mover ==
  ASSUME IInv, NEW t \in Threads, pc[t] \in Moving
  PROVE  /\ TypeOK /\ MoveInv(t)
         /\ \A n \in V : \A e \in Elems(g.out[n]) : Slack(n, e) =>
              /\ NextBin <= BinOf(n)
              /\ \/ InBins(n)
                 \/ \E i \in Nat : Written(i) /\ frontier[i] = n
<1>1. TypeOK /\ MoveInv(t)
  BY MovingFacts DEF IInv, PhaseInv
<1>2. pc[t] \notin Relaxing
  BY DEF Moving, Relaxing, Working
<1>. QED BY <1>1, <1>2 DEF IInv, OwedInv

(* Every step between the barriers leaves the labels alone.                *)
LEMMA MoveOwed ==
  ASSUME IInv, NEW t \in Threads, pc[t] \in Moving,
         UNCHANGED <<g, delta, dist>>, NextBin' = NextBin,
         \A s \in Threads : pc'[s] \in Moving,
         \A n \in V :
           Reached(n) /\ (InBins(n) \/ \E i \in Nat : Written(i) /\ frontier[i] = n)
             => InBins(n)' \/ \E i \in Nat : Written(i)' /\ frontier'[i] = n
  PROVE  OwedInv'
<1>. SUFFICES ASSUME NEW n \in V, NEW e \in Elems(g.out[n]), Slack(n, e)'
              PROVE  /\ NextBin <= BinOf(n)
                     /\ \/ InBins(n)'
                        \/ \E i \in Nat : Written(i)' /\ frontier'[i] = n
  BY DEF OwedInv, BinOf
<1>1. Slack(n, e) /\ Reached(n)
  BY DEF Slack, Reached
<1>. QED BY <1>1, Mover

LEMMA SingleStep ==
  ASSUME IInv, TypeOK', NEW t \in Threads, Single(t)
  PROVE  IInv'
<1>1. /\ pc[t] = "single" /\ pc[t] \in Moving /\ ThreadStep(t) /\ singled' = TRUE
      /\ pc' = [pc EXCEPT ![t] = "reserve"]
      /\ IF singled
           THEN UNCHANGED <<indexes, tails>>
           ELSE /\ indexes' = [indexes EXCEPT ![Curr] = MaxBin]
                /\ tails' = [tails EXCEPT ![Curr] = 0]
      /\ UNCHANGED <<g, source, delta, dist, frontier, iter, todo,
                     caller, bins, fused, u, edges, old, new, pos>>
  BY DEF Single, ThreadStep, Moving, locals, Goto
<1>2. /\ TypeOK /\ \A s \in Threads : pc[s] \in Moving /\ MoveInv(s)
      /\ todo = {} /\ \A i \in 1 .. tails[Other] : Written(i) => Ready(i)
      /\ \A r, s \in Threads : \A i \in Nat : Copying(r, i) /\ Copying(s, i) => r = s
      /\ singled => indexes[Curr] = MaxBin /\ tails[Curr] = 0
  BY <1>1, MovingFacts DEF IInv, PhaseInv
<1>3. /\ NextBin' = NextBin /\ tails'[Other'] = tails[Other]
      /\ indexes'[Curr'] = MaxBin /\ tails'[Curr'] = 0
  <2>1. /\ DOMAIN indexes = {0, 1} /\ DOMAIN tails = {0, 1}
        /\ Curr \in {0, 1} /\ Other \in {0, 1} /\ Curr # Other
    BY <1>2, Basics DEF TypeOK, Sides
  <2>2. Curr' = Curr /\ Other' = Other
    BY <1>1 DEF Curr, Other
  <2>. QED BY <1>1, <1>2, <2>1, <2>2 DEF NextBin
<1>4. /\ pc'[t] = "reserve" /\ \A s \in Threads \ {t} : pc'[s] = pc[s]
      /\ \A s \in Threads : pc'[s] \in Moving
  BY <1>1, <1>2 DEF TypeOK, PerThread, Moving
<1>5. \A s \in Threads : Selected(s)' = Selected(s)
  BY <1>1, <1>3 DEF Selected
<1>6. \A s \in Threads : \A i : Copying(s, i)' <=> Copying(s, i)
  BY <1>1, <1>4, <1>5 DEF Copying
<1>7. \A i : (Written(i)' <=> Written(i)) /\ (Ready(i)' <=> Ready(i))
  BY <1>1, <1>3, <1>6 DEF Written, Ready, Reached
<1>8. \A s \in Threads : MoveInv(s)'
  BY <1>1, <1>2, <1>3, <1>4, <1>5 DEF MoveInv
<1>9. PhaseInv'
  <2>1. /\ \A n \in V : dist'[n] <= DistInf
        /\ \A s \in Threads :
             /\ \A n \in Elems(fused'[s]) : Reached(n)'
             /\ \A b \in Bins : \A n \in Elems(bins'[s][b]) : Reached(n)'
    BY <1>1 DEF IInv, PhaseInv, Reached
  <2>2. /\ \A s \in Threads : pc'[s] \in Moving /\ MoveInv(s)'
        /\ todo' = {} /\ \A i \in 1 .. tails'[Other'] : Written(i)' => Ready(i)'
        /\ \A r, s \in Threads : \A i \in Nat : Copying(r, i)' /\ Copying(s, i)' => r = s
        /\ singled' => indexes'[Curr'] = MaxBin /\ tails'[Curr'] = 0
    BY <1>1, <1>2, <1>3, <1>4, <1>6, <1>7, <1>8
  <2>. QED BY <2>1, <2>2 DEF PhaseInv
<1>10. \A n : InBins(n)' <=> InBins(n)
  BY <1>1 DEF InBins, BinOf
<1>11. OwedInv'
  BY <1>1, <1>3, <1>4, <1>7, <1>10, MoveOwed
<1>. QED BY <1>9, <1>11 DEF IInv

(* The slots reserved lie beyond all that were reserved before.            *)
LEMMA ReserveStep ==
  ASSUME IInv, TypeOK', NEW t \in Threads, Reserve(t)
  PROVE  IInv'
<1>1. /\ pc[t] = "reserve" /\ pc[t] \in Moving
      /\ IF Selected(t) = <<>>
           THEN pc' = [pc EXCEPT ![t] = "copied"] /\ UNCHANGED <<tails, pos>>
           ELSE /\ pos' = [pos EXCEPT ![t] = tails[Other]]
                /\ tails' = [tails EXCEPT ![Other] = @ + Len(Selected(t))]
                /\ pc' = [pc EXCEPT ![t] = "copy"]
      /\ UNCHANGED <<g, source, delta, dist, frontier, indexes, iter, todo, singled,
                     caller, bins, fused, u, edges, old, new>>
  BY DEF Reserve, Moving, Goto
<1>2. /\ TypeOK /\ \A s \in Threads : pc[s] \in Moving /\ MoveInv(s)
      /\ todo = {} /\ \A i \in 1 .. tails[Other] : Written(i) => Ready(i)
      /\ \A r, s \in Threads : \A i \in Nat : Copying(r, i) /\ Copying(s, i) => r = s
      /\ singled => indexes[Curr] = MaxBin /\ tails[Curr] = 0
  BY <1>1, MovingFacts DEF IInv, PhaseInv
<1>. DEFINE len == Len(Selected(t))
<1>3. /\ NextBin' = NextBin /\ indexes'[Curr'] = indexes[Curr]
      /\ \A s \in Threads : Selected(s)' = Selected(s) /\ Len(Selected(s)) \in Nat /\ pos[s] \in Nat
      /\ Curr' = Curr /\ Other' = Other /\ tails[Other] \in Nat
  <2>1. Curr' = Curr /\ Other' = Other /\ NextBin' = NextBin
    BY <1>1 DEF Curr, Other, NextBin
  <2>2. \A s \in Threads : Len(Selected(s)) \in Nat /\ pos[s] \in Nat
    BY <1>2, LocalsType
  <2>. QED BY <1>1, <1>2, <2>1, <2>2, Basics DEF Selected
<1>4. /\ \/ /\ Selected(t) = <<>> /\ pc'[t] = "copied" /\ tails' = tails /\ pos' = pos
         \/ /\ Selected(t) # <<>> /\ pc'[t] = "copy" /\ pos'[t] = tails[Other]
            /\ tails'[Other] = tails[Other] + len /\ tails'[Curr] = tails[Curr]
      /\ \A s \in Threads \ {t} : pc'[s] = pc[s] /\ pos'[s] = pos[s]
  <2>1. DOMAIN tails = {0, 1} /\ Curr \in {0, 1} /\ Other \in {0, 1} /\ Curr # Other
    BY <1>2, Basics DEF TypeOK, Sides
  <2>. QED BY <1>1, <1>2, <2>1 DEF TypeOK, PerThread
<1>5. /\ \A s \in Threads : pc'[s] \in Moving
      /\ tails[Other] <= tails'[Other] /\ tails'[Other] \in Nat
      /\ tails'[Curr] = tails[Curr]
  BY <1>2, <1>3, <1>4 DEF Moving
<1>6. \A s \in Threads \ {t} : \A i : Copying(s, i)' <=> Copying(s, i)
  BY <1>3, <1>4 DEF Copying
<1>7. \A i \in Nat : ~Copying(t, i) /\ (Copying(t, i)' => i > tails[Other])
  BY <1>1, <1>3, <1>4 DEF Copying
<1>8. \A s \in Threads \ {t} : \A i \in Nat : Copying(s, i) => i <= tails[Other]
  BY <1>2, <1>3 DEF Copying, MoveInv
<1>9. \A i \in Nat : Written(i)' <=> Written(i)
  <2>1. ASSUME NEW i \in Nat, Written(i) PROVE Written(i)'
    <3>1. i \in 1 .. tails[Other] /\ \A s \in Threads : ~Copying(s, i)
      BY <2>1 DEF Written
    <3>2. i \in 1 .. tails'[Other] /\ \A s \in Threads : ~Copying(s, i)'
      BY <1>3, <1>5, <1>6, <1>7, <3>1
    <3>. QED BY <1>3, <3>2 DEF Written
  <2>2. ASSUME NEW i \in Nat, Written(i)' PROVE Written(i)
    <3>1. i \in 1 .. tails'[Other] /\ \A s \in Threads : ~Copying(s, i)'
      BY <1>3, <2>2 DEF Written
    <3>2. i <= tails[Other]
      BY <1>3, <1>4, <3>1 DEF Copying
    <3>. QED BY <1>3, <1>6, <1>7, <3>1, <3>2 DEF Written
  <2>. QED BY <2>1, <2>2
<1>10. \A i : Ready(i)' <=> Ready(i)
  BY <1>1 DEF Ready, Reached
<1>11. \A s \in Threads : MoveInv(s)'
  <2>1. ASSUME NEW s \in Threads, s # t PROVE MoveInv(s)'
    <3>1. /\ MoveInv(s) /\ pc'[s] = pc[s] /\ pos'[s] = pos[s] /\ Selected(s)' = Selected(s)
          /\ Len(Selected(s)) \in Nat /\ pos[s] \in Nat
      BY <1>2, <1>3, <1>4, <2>1
    <3>. QED BY <1>1, <1>3, <1>5, <3>1 DEF MoveInv
  <2>2. MoveInv(t)'
    <3>1. MoveInv(t) /\ singled /\ Selected(t)' = Selected(t)
      BY <1>1, <1>2, <1>3 DEF MoveInv
    <3>. QED BY <1>1, <1>3, <1>4, <3>1 DEF MoveInv
  <2>. QED BY <2>1, <2>2
<1>12. PhaseInv'
  <2>1. /\ \A n \in V : dist'[n] <= DistInf
        /\ \A s \in Threads :
             /\ \A n \in Elems(fused'[s]) : Reached(n)'
             /\ \A b \in Bins : \A n \in Elems(bins'[s][b]) : Reached(n)'
    BY <1>1 DEF IInv, PhaseInv, Reached
  <2>2. \A r, s \in Threads : \A i \in Nat : Copying(r, i)' /\ Copying(s, i)' => r = s
    BY <1>2, <1>3, <1>6, <1>7, <1>8
  <2>3. \A i \in 1 .. tails'[Other'] : Written(i)' => Ready(i)'
    <3>1. ASSUME NEW i \in 1 .. tails'[Other], Written(i)' PROVE Ready(i)'
      <4>1. Written(i)
        BY <1>5, <1>9, <3>1
      <4>2. i \in 1 .. tails[Other]
        BY <4>1 DEF Written
      <4>. QED BY <1>2, <1>10, <4>1, <4>2
    <3>. QED BY <1>3, <3>1
  <2>4. /\ todo' = {} /\ (singled' => indexes'[Curr'] = MaxBin /\ tails'[Curr'] = 0)
    BY <1>1, <1>2, <1>3, <1>5
  <2>. QED BY <1>5, <1>11, <2>1, <2>2, <2>3, <2>4 DEF PhaseInv
<1>13. \A n : InBins(n)' <=> InBins(n)
  BY <1>1 DEF InBins, BinOf
<1>14. OwedInv'
  BY <1>1, <1>3, <1>5, <1>9, <1>13, MoveOwed
<1>. QED BY <1>12, <1>14 DEF IInv

(* The slots a thread has reserved become ready when it writes them; a     *)
(* vertex that leaves its bin is in one of them.                           *)
LEMMA CopyStep ==
  ASSUME IInv, TypeOK', NEW t \in Threads, Copy(t)
  PROVE  IInv'
<1>1. /\ pc[t] = "copy" /\ pc[t] \in Moving
      /\ pc' = [pc EXCEPT ![t] = "copied"] /\ pos' = [pos EXCEPT ![t] = 0]
      /\ UNCHANGED <<g, source, delta, dist, tails, indexes, iter, todo, singled,
                     caller, fused, u, edges, old, new>>
  BY DEF Copy, Moving, Goto
<1>2. /\ TypeOK /\ \A s \in Threads : pc[s] \in Moving /\ MoveInv(s)
      /\ todo = {} /\ \A i \in 1 .. tails[Other] : Written(i) => Ready(i)
      /\ \A r, s \in Threads : \A i \in Nat : Copying(r, i) /\ Copying(s, i) => r = s
      /\ singled => indexes[Curr] = MaxBin /\ tails[Curr] = 0
  BY <1>1, MovingFacts DEF IInv, PhaseInv
<1>3. /\ NextBin \in Bins /\ Selected(t) = bins[t][NextBin]
      /\ bins' = [bins EXCEPT ![t] = [bins[t] EXCEPT ![NextBin] = <<>>]]
      /\ frontier \in Seq(V \cup {Unwritten}) /\ frontier' \in Seq(V \cup {Unwritten})
      /\ Len(frontier) <= Len(frontier')
      /\ \A i \in 1 .. Len(frontier') :
           frontier'[i] = IF Copying(t, i) THEN Selected(t)[i - pos[t]]
                          ELSE IF i <= Len(frontier) THEN frontier[i] ELSE Unwritten
      /\ \A i : Copying(t, i) => i \in 1 .. Len(frontier') /\ i - pos[t] \in DOMAIN Selected(t)
  BY <1>2, CopyWrites DEF TypeOK
<1>4. /\ NextBin' = NextBin /\ tails'[Other'] = tails[Other]
      /\ indexes'[Curr'] = indexes[Curr] /\ tails'[Curr'] = tails[Curr]
      /\ pos[t] \in Nat /\ Len(Selected(t)) \in Nat /\ tails[Other] \in Nat
      /\ pos[t] + Len(Selected(t)) <= tails[Other]
  <2>1. Curr' = Curr /\ Other' = Other /\ NextBin' = NextBin
    BY <1>1 DEF Curr, Other, NextBin
  <2>2. pos[t] \in Nat /\ Len(Selected(t)) \in Nat /\ tails[Other] \in Nat
    BY <1>2, LocalsType, Basics
  <2>. QED BY <1>1, <1>2, <2>1, <2>2 DEF MoveInv
<1>5. /\ pc'[t] = "copied"
      /\ \A s \in Threads \ {t} : pc'[s] = pc[s] /\ pos'[s] = pos[s] /\ bins'[s] = bins[s]
      /\ \A b \in Bins : bins'[t][b] = IF b = NextBin THEN <<>> ELSE bins[t][b]
  BY <1>1, <1>2, <1>3 DEF TypeOK, PerThread
<1>6. /\ \A s \in Threads \ {t} : Selected(s)' = Selected(s)
      /\ Selected(t)' = <<>>
  BY <1>3, <1>4, <1>5 DEF Selected
<1>7. /\ \A s \in Threads \ {t} : \A i : Copying(s, i)' <=> Copying(s, i)
      /\ \A i : ~Copying(t, i)'
  BY <1>5, <1>6 DEF Copying
<1>8. \A i \in Nat : Written(i)' <=> Written(i) \/ Copying(t, i)
  <2>1. ASSUME NEW i \in Nat, Written(i)' PROVE Written(i) \/ Copying(t, i)
    BY <1>4, <1>7, <2>1 DEF Written
  <2>2. ASSUME NEW i \in Nat, Written(i) PROVE Written(i)'
    BY <1>4, <1>7, <2>2 DEF Written
  <2>3. ASSUME NEW i \in Nat, Copying(t, i) PROVE Written(i)'
    <3>1. i \in 1 .. tails[Other]
      BY <1>4, <2>3 DEF Copying
    <3>2. \A s \in Threads : ~Copying(s, i)'
      BY <1>2, <1>7, <2>3
    <3>. QED BY <1>4, <3>1, <3>2 DEF Written
  <2>. QED BY <2>1, <2>2, <2>3
<1>9. ASSUME NEW i \in Nat, Written(i)
      PROVE  frontier'[i] = frontier[i] /\ i \in DOMAIN frontier' /\ Ready(i)
  <2>1. Ready(i) /\ ~Copying(t, i)
    BY <1>2, <1>9 DEF Written
  <2>2. i \in 1 .. Len(frontier) /\ i \in 1 .. Len(frontier') /\ DOMAIN frontier' = 1 .. Len(frontier')
    BY <1>3, <2>1 DEF Ready
  <2>. QED BY <1>3, <2>1, <2>2
<1>10. \A n \in Elems(Selected(t)) : n \in V /\ Reached(n)
  <2>1. Selected(t) \in Seq(V)
    BY <1>2, LocalsType
  <2>2. Elems(Selected(t)) \subseteq V
    BY <2>1, ElemsType
  <2>. QED BY <1>3, <2>2 DEF IInv, PhaseInv
<1>11. \A i \in Nat : Written(i)' => Ready(i)'
  <2>. SUFFICES ASSUME NEW i \in Nat, Written(i)'
                PROVE  i \in DOMAIN frontier' /\ frontier'[i] \in V /\ Reached(frontier'[i])
    BY <1>1 DEF Ready, Reached
  <2>1. CASE Written(i)
    BY <1>9, <2>1 DEF Ready
  <2>2. CASE Copying(t, i)
    <3>1. i \in 1 .. Len(frontier') /\ frontier'[i] = Selected(t)[i - pos[t]]
          /\ i - pos[t] \in DOMAIN Selected(t)
      BY <1>3, <2>2
    <3>2. frontier'[i] \in Elems(Selected(t)) /\ i \in DOMAIN frontier'
      BY <1>3, <3>1 DEF Elems
    <3>. QED BY <1>10, <3>2
  <2>. QED BY <1>8, <2>1, <2>2
<1>12. \A s \in Threads : pc'[s] \in Moving /\ MoveInv(s)'
  <2>1. ASSUME NEW s \in Threads, s # t PROVE pc'[s] \in Moving /\ MoveInv(s)'
    <3>1. /\ MoveInv(s) /\ pc[s] \in Moving /\ pc'[s] = pc[s] /\ pos'[s] = pos[s]
          /\ Selected(s)' = Selected(s)
      BY <1>2, <1>5, <1>6, <2>1
    <3>. QED BY <1>1, <1>4, <3>1 DEF MoveInv
  <2>2. pc'[t] \in Moving /\ MoveInv(t)'
    <3>1. MoveInv(t) /\ singled
      BY <1>1, <1>2 DEF MoveInv
    <3>. QED BY <1>1, <1>5, <1>6, <3>1 DEF MoveInv, Moving
  <2>. QED BY <2>1, <2>2
<1>13. PhaseInv'
  <2>1. \A n \in V : dist'[n] <= DistInf
    BY <1>1 DEF IInv, PhaseInv
  <2>2. \A s \in Threads :
          /\ \A n \in Elems(fused'[s]) : Reached(n)'
          /\ \A b \in Bins : \A n \in Elems(bins'[s][b]) : Reached(n)'
    BY <1>1, <1>5, ElemsEmpty DEF IInv, PhaseInv, Reached
  <2>3. \A r, s \in Threads : \A i \in Nat : Copying(r, i)' /\ Copying(s, i)' => r = s
    BY <1>2, <1>7
  <2>4. /\ todo' = {} /\ (singled' => indexes'[Curr'] = MaxBin /\ tails'[Curr'] = 0)
    BY <1>1, <1>2, <1>4
  <2>5. \A i \in 1 .. tails'[Other'] : Written(i)' => Ready(i)'
    BY <1>4, <1>11
  <2>. QED BY <1>12, <2>1, <2>2, <2>3, <2>4, <2>5 DEF PhaseInv
<1>14. ASSUME NEW n \in V, Reached(n), InBins(n)
       PROVE  InBins(n)' \/ \E i \in Nat : Written(i)' /\ frontier'[i] = n
  <2>1. PICK s \in Threads : n \in Elems(bins[s][BinOf(n)])
    BY <1>14 DEF InBins
  <2>2. BinOf(n)' = BinOf(n) /\ BinOf(n) \in Bins
    <3>1. dist[n] \in Nat /\ dist[n] < DistInf /\ delta \in Deltas
      BY <1>2, <1>14 DEF TypeOK, Reached
    <3>. QED BY <1>1, <3>1, InABin DEF BinOf
  <2>3. CASE s # t \/ BinOf(n) # NextBin
    <3>1. bins'[s][BinOf(n)] = bins[s][BinOf(n)]
      BY <1>5, <2>2, <2>3
    <3>. QED BY <2>1, <2>2, <3>1 DEF InBins
  <2>4. CASE s = t /\ BinOf(n) = NextBin
    <3>1. PICK j \in DOMAIN Selected(t) : Selected(t)[j] = n
      BY <1>3, <2>1, <2>4 DEF Elems
    <3>2. j \in 1 .. Len(Selected(t))
      <4>1. Selected(t) \in Seq(V)
        BY <1>2, LocalsType
      <4>. QED BY <4>1
    <3>3. PICK i \in Nat : i = pos[t] + j
      BY <1>4, <3>2
    <3>4. Copying(t, i) /\ i - pos[t] = j
      BY <1>1, <1>4, <3>2, <3>3 DEF Copying
    <3>5. Written(i)' /\ frontier'[i] = n
      BY <1>3, <1>8, <3>1, <3>4
    <3>. QED BY <3>5
  <2>. QED BY <2>3, <2>4
<1>15. OwedInv'
  BY <1>1, <1>4, <1>8, <1>9, <1>12, <1>14, MoveOwed
<1>. QED BY <1>13, <1>15 DEF IInv

(* The first barrier: whoever is owed is in a bin of its thread, and the   *)
(* bin voted for is not behind it.                                         *)
LEMMA OpenVotedStep ==
  ASSUME IInv, TypeOK', OpenVoted
  PROVE  IInv'
<1>1. /\ AllAt("voted") /\ \A t \in Threads : pc[t] = "voted" /\ pc'[t] = "single"
      /\ singled' = FALSE
      /\ UNCHANGED <<g, source, delta, dist, frontier, tails, indexes, iter, todo,
                     caller, bins, fused, u, edges, old, new, pos>>
  BY DEF OpenVoted, AllAt, locals
<1>2. /\ \A t \in Threads : fused[t] = <<>>
      /\ todo = {} /\ tails[Other] = 0 /\ NextBin \in CurrBin .. MaxBin
      /\ \A t \in Threads : \A b \in Bins : b >= CurrBin /\ bins[t][b] # <<>> => NextBin <= b
  BY <1>1, AllVoted
<1>3. TypeOK
  BY DEF IInv, PhaseInv
<1>4. NextBin' = NextBin /\ tails'[Other'] = 0
  BY <1>1, <1>2 DEF NextBin, Curr, Other
<1>5. PhaseInv'
  <2>1. \A t \in Threads : pc'[t] \in Moving /\ MoveInv(t)'
    BY <1>1, <1>2 DEF MoveInv, Moving
  <2>2. /\ \A n \in V : dist'[n] <= DistInf
        /\ \A t \in Threads :
             /\ \A n \in Elems(fused'[t]) : Reached(n)'
             /\ \A b \in Bins : \A n \in Elems(bins'[t][b]) : Reached(n)'
    BY <1>1 DEF IInv, PhaseInv, Reached
  <2>3. /\ todo' = {} /\ \A i \in 1 .. tails'[Other'] : Written(i)' => Ready(i)'
        /\ \A r, s \in Threads : \A i \in Nat : Copying(r, i)' /\ Copying(s, i)' => r = s
        /\ singled' => indexes'[Curr'] = MaxBin /\ tails'[Curr'] = 0
    BY <1>1, <1>2, <1>4 DEF Copying
  <2>. QED BY <2>1, <2>2, <2>3 DEF PhaseInv
<1>6. ASSUME NEW n \in V, NEW e \in Elems(g.out[n]), Slack(n, e)'
      PROVE  NextBin <= BinOf(n)' /\ InBins(n)'
  <2>1. Slack(n, e) /\ Reached(n)
    BY <1>1, <1>6 DEF Slack, Reached
  <2>2. BinOf(n) \in Bins
    <3>1. dist[n] \in Nat /\ dist[n] < DistInf /\ delta \in Deltas
      BY <1>3, <2>1 DEF TypeOK, Reached
    <3>. QED BY <3>1, InABin DEF BinOf
  <2>3. PICK s \in Threads : TRUE
    BY ThreadsAssumption
  <2>4. \A t \in Threads : pc[t] \notin Moving /\ ~InHand(t, n, e) /\ n \notin Elems(fused[t])
    BY <1>1, <1>2, ElemsEmpty DEF Moving, InHand
  <2>5. CurrBin <= BinOf(n) /\ InBins(n)
    BY <1>2, <2>1, <2>3, <2>4 DEF IInv, OwedInv
  <2>6. PICK t \in Threads : n \in Elems(bins[t][BinOf(n)])
    BY <2>5 DEF InBins
  <2>7. NextBin <= BinOf(n)
    BY <1>2, <2>2, <2>5, <2>6, ElemsEmpty
  <2>. QED BY <1>1, <2>5, <2>7 DEF InBins, BinOf
<1>7. OwedInv'
  BY <1>1, <1>4, <1>6 DEF OwedInv, Moving
<1>. QED BY <1>5, <1>7 DEF IInv

(* The second barrier: the sides change over.  If no bin was voted for,    *)
(* nobody is owed, as every label that is reached has a bin.               *)
LEMMA OpenCopiedStep ==
  ASSUME IInv, TypeOK', OpenCopied
  PROVE  IInv'
<1>1. /\ AllAt("copied") /\ \A t \in Threads : pc[t] = "copied"
      /\ iter' = Other
      /\ UNCHANGED <<g, source, delta, dist, frontier, tails, indexes, singled,
                     bins, fused, u, edges, old, new, pos>>
  BY DEF OpenCopied, AllAt
<1>2. /\ \A t \in Threads : Selected(t) = <<>> /\ fused[t] = <<>>
      /\ todo = {} /\ indexes[Curr] = MaxBin /\ tails[Curr] = 0
      /\ \A i \in 1 .. tails[Other] : Written(i) /\ Ready(i)
  BY <1>1, AllCopied
<1>3. /\ TypeOK /\ iter \in {0, 1} /\ NextBin \in 0 .. MaxBin /\ MaxBin \in Nat
      /\ tails[Other] \in Nat
  BY Basics DEF IInv, PhaseInv, TypeOK
<1>4. /\ CurrBin' = NextBin /\ NextBin' = MaxBin
      /\ tails'[Curr'] = tails[Other] /\ tails'[Other'] = 0
  BY <1>1, <1>2, <1>3 DEF CurrBin, NextBin, Curr, Other
<1>5. /\ \A n \in V : dist'[n] <= DistInf
      /\ \A t \in Threads :
           /\ \A n \in Elems(fused'[t]) : Reached(n)'
           /\ \A b \in Bins : \A n \in Elems(bins'[t][b]) : Reached(n)'
  BY <1>1 DEF IInv, PhaseInv, Reached
<1>6. \A n \in V : \A e \in Elems(g.out[n]) : Slack(n, e)' =>
        /\ NextBin <= BinOf(n)' /\ BinOf(n)' = BinOf(n) /\ BinOf(n) \in Bins
        /\ InBins(n)' \/ \E i \in 1 .. tails[Other] : frontier[i] = n
  <2>. SUFFICES ASSUME NEW n \in V, NEW e \in Elems(g.out[n]), Slack(n, e)'
                PROVE  /\ NextBin <= BinOf(n)' /\ BinOf(n)' = BinOf(n) /\ BinOf(n) \in Bins
                       /\ InBins(n)' \/ \E i \in 1 .. tails[Other] : frontier[i] = n
    OBVIOUS
  <2>1. Slack(n, e) /\ Reached(n) /\ BinOf(n)' = BinOf(n)
    BY <1>1 DEF Slack, Reached, BinOf
  <2>2. BinOf(n) \in Bins
    <3>1. dist[n] \in Nat /\ dist[n] < DistInf /\ delta \in Deltas
      BY <1>3, <2>1 DEF TypeOK, Reached
    <3>. QED BY <3>1, InABin DEF BinOf
  <2>3. PICK s \in Threads : TRUE
    BY ThreadsAssumption
  <2>4. pc[s] \in Moving
    BY <1>1 DEF Moving
  <2>5. /\ NextBin <= BinOf(n)
        /\ \/ InBins(n)
           \/ \E i \in Nat : Written(i) /\ frontier[i] = n
    BY <2>1, <2>4, Mover
  <2>6. InBins(n)' <=> InBins(n)
    BY <1>1, <2>1 DEF InBins
  <2>. QED BY <2>1, <2>2, <2>5, <2>6 DEF Written
<1>7. CASE indexes[Other] = MaxBin
  <2>1. \A t \in Threads : pc'[t] = "done"
    BY <1>1, <1>7 DEF OpenCopied
  <2>2. PhaseInv'
    BY <1>5, <2>1 DEF PhaseInv
  <2>3. NextBin = MaxBin
    BY <1>7 DEF NextBin
  <2>4. \A n \in V : \A e \in Elems(g.out[n]) : ~Slack(n, e)'
    BY <1>3, <1>6, <2>3 DEF Bins
  <2>5. OwedInv'
    BY <1>1, <2>4 DEF OwedInv
  <2>. QED BY <2>2, <2>5 DEF IInv
<1>8. CASE indexes[Other] # MaxBin
  <2>1. /\ todo' = 1 .. tails[Other]
        /\ \A t \in Threads : pc'[t] = "frontier" /\ caller'[t] = "frontier"
    BY <1>1, <1>8 DEF OpenCopied
  <2>2. NextBin \in Bins /\ \A t \in Threads : bins[t][NextBin] = <<>>
    BY <1>2, <1>3, <1>8 DEF NextBin, Bins, Selected
  <2>3. \A t \in Threads : pc'[t] \in Relaxing /\ RelaxInv(t)'
    BY <1>1, <1>2, <1>4, <2>1, <2>2, ElemsEmpty DEF RelaxInv, Relaxing, Working
  <2>4. \A i \in 1 .. tails[Other] : Ready(i)'
    BY <1>1, <1>2 DEF Ready, Reached
  <2>5. PhaseInv'
    <3>1. \E t \in Threads : InLoop(t)'
      BY <2>1, ThreadsAssumption DEF InLoop
    <3>. QED BY <1>4, <1>5, <2>1, <2>2, <2>3, <2>4, <3>1 DEF PhaseInv
  <2>6. OwedInv'
    BY <1>1, <1>4, <1>6, <2>1, <2>3 DEF OwedInv
  <2>. QED BY <2>5, <2>6 DEF IInv
<1>. QED BY <1>7, <1>8
-----------------------------------------------------------------------------
LEMMA InvStep == IInv /\ EdgesInv /\ [Next]_vars => IInv'
<1>. SUFFICES ASSUME IInv, EdgesInv, [Next]_vars PROVE IInv'
  OBVIOUS
<1>1. TypeOK'
  BY TypeStep
<1>2. ASSUME NEW t \in Threads, ThreadStep(t) PROVE IInv'
  <2>1. CASE Claim(t) \/ LeaveLoop(t) \/ FuseBin(t) \/ NextFused(t) \/ LeaveFuse(t)
    BY <1>1, <2>1, ClaimStep, LeaveStep, FuseBinStep, NextFusedStep
  <2>2. CASE RelaxStep(t)
    BY <1>1, <2>2, ReadOldStep, TestStep, CasWinsStep, CasLosesStep, EndVertexStep DEF RelaxStep
  <2>3. CASE Vote(t) \/ Single(t) \/ Reserve(t) \/ Copy(t)
    BY <1>1, <2>3, VoteStep, SingleStep, ReserveStep, CopyStep
  <2>. QED BY <1>2, <2>1, <2>2, <2>3 DEF ThreadStep
<1>3. CASE Barrier
  BY <1>1, <1>3, OpenVotedStep, OpenCopiedStep DEF Barrier
<1>4. CASE UNCHANGED vars
  <2>. USE <1>4 DEF vars
  <2>1. /\ CurrBin' = CurrBin /\ NextBin' = NextBin /\ Curr' = Curr /\ Other' = Other
        /\ \A t : Selected(t)' = Selected(t)
        /\ \A n : (Reached(n)' <=> Reached(n)) /\ BinOf(n)' = BinOf(n)
    BY DEF CurrBin, NextBin, Curr, Other, Selected, Reached, BinOf
  <2>2. /\ \A t : RelaxInv(t)' <=> RelaxInv(t)
        /\ \A t : MoveInv(t)' <=> MoveInv(t)
        /\ \A t : InLoop(t)' <=> InLoop(t)
    BY <2>1 DEF RelaxInv, MoveInv, InLoop, Reached, BinOf
  <2>3. \A t, i : Copying(t, i)' <=> Copying(t, i)
    BY <2>1 DEF Copying
  <2>4. \A i : (Written(i)' <=> Written(i)) /\ (Ready(i)' <=> Ready(i))
    BY <2>1, <2>3 DEF Written, Ready, Reached
  <2>5. PhaseInv'
    BY <1>1, <2>1, <2>2, <2>3, <2>4 DEF IInv, PhaseInv
  <2>6. /\ \A n, e : Slack(n, e)' <=> Slack(n, e)
        /\ \A n : InBins(n)' <=> InBins(n)
        /\ \A t, n, e : InHand(t, n, e)' <=> InHand(t, n, e)
    BY <2>1 DEF Slack, InBins, InHand
  <2>7. OwedInv'
    BY <2>1, <2>4, <2>6 DEF IInv, OwedInv
  <2>. QED BY <2>5, <2>7 DEF IInv
<1>. QED BY <1>2, <1>3, <1>4 DEF Next, Terminated

(* The inductive invariant of the parallel DeltaStep.                      *)
THEOREM Invariance == Spec => [](IInv /\ EdgesInv)
<1>1. Init => IInv /\ EdgesInv
  BY InitInv, InitEdges
<1>2. IInv /\ EdgesInv /\ [Next]_vars => IInv' /\ EdgesInv'
  BY InvStep, EdgesStep
<1>. QED BY <1>1, <1>2, PTL DEF Spec

(* Whatever CASes fail, and however the threads are scheduled, a vertex    *)
(* with an edge still to relax is in the shared bin or in a thread's bin   *)
(* of its distance when an iteration starts (src/src/sssp.cc:102).         *)
THEOREM NothingIsLost == Spec => []NothingLost
<1>1. IInv => NothingLost
  <2>. SUFFICES ASSUME IInv, AllAt("frontier"),
                       NEW n \in V, dist[n] # DistInf,
                       NEW e \in Elems(g.out[n]), dist[e.v] > dist[n] + e.w
                PROVE  /\ dist[n] \div delta >= CurrBin
                       /\ \/ \E i \in todo : frontier[i] = n
                          \/ \E t \in Threads : n \in Elems(bins[t][dist[n] \div delta])
    BY DEF NothingLost
  <2>1. PICK s \in Threads : TRUE
    BY ThreadsAssumption
  <2>2. \A t \in Threads : pc[t] = "frontier" /\ pc[t] \in Relaxing /\ pc[t] \notin Moving
    BY DEF AllAt, Relaxing, Moving
  <2>3. \A t \in Threads : n \notin Elems(fused[t]) /\ ~InHand(t, n, e)
    BY <2>2, RelaxingFacts, ElemsEmpty DEF IInv, RelaxInv, InHand
  <2>4. Slack(n, e) /\ CurrBin \in Int /\ dist[n] \div delta \in Int
    <3>1. TypeOK /\ dist[n] \in Nat /\ dist[n] <= DistInf
      BY DEF IInv, PhaseInv, TypeOK
    <3>2. DistInf \in Nat /\ delta \in Nat \ {0} /\ CurrBin \in Int
      BY <3>1, Basics
    <3>3. dist[n] \div delta \in Nat
      BY <3>1, <3>2, DivType
    <3>. QED BY <3>1, <3>2, <3>3 DEF Slack, Reached
  <2>. QED BY <2>1, <2>2, <2>3, <2>4 DEF IInv, OwedInv, InBins, BinOf
<1>. QED BY <1>1, Invariance, PTL

(* Every slot handed out has been written by the thread that reserved it,  *)
(* and the buffers of the other side are ready (src/src/sssp.cc:135-146).  *)
THEOREM FrontierIsWritten == Spec => []FrontierInv
<1>1. IInv => FrontierInv
  <2>. SUFFICES ASSUME IInv, AllAt("frontier")
                PROVE  /\ \A i \in 1 .. tails[Curr] : frontier[i] # Unwritten
                       /\ tails[Other] = 0 /\ indexes[Other] = MaxBin
    BY DEF FrontierInv, FrontierWritten, IInv, PhaseInv
  <2>1. PICK s \in Threads : TRUE
    BY ThreadsAssumption
  <2>2. \A t \in Threads : pc[t] = "frontier" /\ pc[t] \in Relaxing
    BY DEF AllAt, Relaxing
  <2>3. /\ tails[Other] = 0 /\ NextBin = MaxBin
        /\ \A i \in 1 .. tails[Curr] : Ready(i)
    BY <2>1, <2>2, RelaxingFacts DEF IInv
  <2>. QED BY <2>3 DEF NextBin, Ready, Unwritten, V
<1>. QED BY <1>1, Invariance, PTL

(* DeltaStep returns only when no edge can improve a label any more.       *)
Relaxed == AllAt("done") => \A n \in V : \A e \in Elems(g.out[n]) : ~Slack(n, e)

THEOREM ReturnsRelaxed == Spec => []Relaxed
<1>1. IInv => Relaxed
  <2>. SUFFICES ASSUME IInv, AllAt("done"),
                       NEW n \in V, NEW e \in Elems(g.out[n]), Slack(n, e)
                PROVE  FALSE
    BY DEF Relaxed
  <2>1. PICK t \in Threads : TRUE
    BY ThreadsAssumption
  <2>2. pc[t] = "done" /\ pc[t] \notin Relaxing /\ pc[t] \notin Moving
    BY DEF AllAt, Relaxing, Working, Moving
  <2>. QED BY <2>2 DEF IInv, OwedInv
<1>. QED BY <1>1, Invariance, PTL
-----------------------------------------------------------------------------
(***************************************************************************)
(* The refinement.  A label is always the length of a trace, a path all of *)
(* whose vertices have labels at most the lengths to them; so is a label a *)
(* thread has read and adds an edge to, however old it is.                 *)
(***************************************************************************)
WalkOf(t) ==
  pc[t] \in {"cas", "recheck"} =>
    \E d \in Nat : /\ Traced(g, source, dist, u[t], d)
                   /\ new[t] = d + Head(edges[t]).w

WalkInv ==
  /\ dist[source] = 0
  /\ \A n \in V : Reached(n) => Traced(g, source, dist, n, dist[n])
  /\ \A t \in Threads : WalkOf(t)

LEMMA InitWalks == Init => WalkInv
<1>. SUFFICES ASSUME Init PROVE WalkInv
  OBVIOUS
<1>1. /\ source \in V /\ dist[source] = 0 /\ \A n \in V : n # source => dist[n] = DistInf
      /\ \A t \in Threads : pc[t] = "frontier"
  BY DEF Init
<1>2. Traced(g, source, dist, source, 0)
  BY <1>1, TraceStart
<1>3. DistInf \in Nat
  BY LimitsAssumption
<1>4. ASSUME NEW n \in V, Reached(n) PROVE Traced(g, source, dist, n, dist[n])
  <2>1. n = source
    BY <1>1, <1>3, <1>4 DEF Reached
  <2>. QED BY <1>1, <1>2, <2>1
<1>. QED BY <1>1, <1>4 DEF WalkInv, WalkOf

(* No step but a successful CAS writes a label.                            *)
CasWins(t) == CasDist(t) /\ dist[Head(edges[t]).v] = old[t]

LEMMA OnlyCasWrites ==
  ASSUME IInv, NEW t \in Threads, ThreadStep(t), ~CasWins(t)
  PROVE  dist' = dist
<1>1. CASE Claim(t) \/ LeaveLoop(t) \/ FuseBin(t) \/ NextFused(t) \/ LeaveFuse(t)
  BY <1>1 DEF Claim, LeaveLoop, FuseBin, NextFused, LeaveFuse, shared
<1>2. CASE ReadOld(t) \/ ReadU(t) \/ Recheck(t) \/ EndVertex(t)
  BY <1>2 DEF ReadOld, ReadU, Recheck, EndVertex, shared
<1>3. CASE CasDist(t)
  BY <1>3 DEF CasDist, CasWins
<1>4. CASE Vote(t) \/ Single(t) \/ Reserve(t) \/ Copy(t)
  BY <1>4 DEF Vote, Single, Reserve, Copy
<1>. QED BY <1>1, <1>2, <1>3, <1>4 DEF ThreadStep, RelaxStep

(* What a thread itself is at after a step that writes no label.           *)
LEMMA OwnWalk ==
  ASSUME IInv, EdgesInv, TypeOK', WalkInv, NEW t \in Threads, ThreadStep(t), dist' = dist
  PROVE  WalkOf(t)'
<1>1. TypeOK /\ WalkOf(t) /\ g' = g /\ source' = source
  BY OneThread DEF IInv, PhaseInv, WalkInv
<1>2. DOMAIN pc = Threads /\ DOMAIN u = Threads /\ DOMAIN edges = Threads
  BY <1>1 DEF TypeOK, PerThread
<1>3. caller[t] \in {"frontier", "fuse"}
  BY <1>1 DEF TypeOK, PerThread
<1>4. CASE Claim(t) \/ NextFused(t)
  <2>1. pc'[t] \in {"edges", "frontier"}
    BY <1>2, <1>4 DEF Claim, NextFused, Goto
  <2>. QED BY <2>1 DEF WalkOf
<1>5. CASE LeaveLoop(t) \/ FuseBin(t) \/ LeaveFuse(t) \/ EndVertex(t)
  <2>1. pc'[t] \in {"frontier", "fuse", "vote"}
    BY <1>2, <1>3, <1>5 DEF LeaveLoop, FuseBin, LeaveFuse, EndVertex, Goto
  <2>. QED BY <2>1 DEF WalkOf
<1>6. CASE Vote(t) \/ Single(t) \/ Reserve(t) \/ Copy(t)
  <2>1. pc'[t] \in {"voted", "reserve", "copy", "copied"}
    BY <1>2, <1>6 DEF Vote, Single, Reserve, Copy, Goto
  <2>. QED BY <2>1 DEF WalkOf
<1>7. CASE ReadOld(t)
  <2>1. pc'[t] = "readU"
    BY <1>2, <1>7 DEF ReadOld, Goto
  <2>. QED BY <2>1 DEF WalkOf
<1>8. CASE ReadU(t) \/ Recheck(t)
  <2>1. pc[t] \in {"readU", "recheck"} /\ pc[t] \in Relaxing /\ u' = u
    BY <1>8 DEF ReadU, Recheck, Relaxing, Working
  <2>2. edges[t] # <<>> /\ Reached(u[t])
    BY <2>1, RelaxingFacts DEF IInv, RelaxInv, Working
  <2>3. /\ Head(edges[t]).v \in V /\ Head(edges[t]).w \in Nat /\ u[t] \in V
        /\ dist[Head(edges[t]).v] \in Nat /\ dist[u[t]] \in Nat
        /\ old[t] \in Nat /\ new[t] \in Nat
    BY <1>1, <2>2, HeadEdge, LocalsType
  <2>4. \E d \in Nat : /\ Traced(g, source, dist, u[t], d)
                       /\ LoopTest(t, d + Head(edges[t]).w,
                                   IF pc[t] = "readU" THEN old[t] ELSE dist[Head(edges[t]).v])
    <3>1. CASE ReadU(t)
      <4>1. Traced(g, source, dist, u[t], dist[u[t]])
        BY <2>2, <2>3 DEF WalkInv
      <4>2. pc[t] = "readU" /\ LoopTest(t, dist[u[t]] + Head(edges[t]).w, old[t])
        BY <3>1, SumIs DEF ReadU
      <4>. QED BY <2>3, <4>1, <4>2
    <3>2. CASE Recheck(t)
      <4>1. pc[t] = "recheck" /\ LoopTest(t, new[t], dist[Head(edges[t]).v])
        BY <3>2 DEF Recheck
      <4>2. PICK d \in Nat : /\ Traced(g, source, dist, u[t], d)
                             /\ new[t] = d + Head(edges[t]).w
        BY <1>1, <4>1 DEF WalkOf
      <4>. QED BY <4>1, <4>2
    <3>. QED BY <1>8, <3>1, <3>2
  <2>5. PICK d \in Nat : /\ Traced(g, source, dist, u[t], d)
                         /\ LoopTest(t, d + Head(edges[t]).w,
                                     IF pc[t] = "readU" THEN old[t] ELSE dist[Head(edges[t]).v])
    BY <2>4
  <2>6. PICK b \in Nat : LoopTest(t, d + Head(edges[t]).w, b)
    BY <2>3, <2>5
  <2>. DEFINE a == d + Head(edges[t]).w
  <2>7. a \in Nat /\ LoopTest(t, a, b)
    BY <2>3, <2>6
  <2>. HIDE DEF a
  <2>8. \/ /\ pc' = [pc EXCEPT ![t] = "cas"] /\ edges' = edges /\ new'[t] = a
        \/ /\ pc' = [pc EXCEPT ![t] = "edges"] /\ edges'[t] = Tail(edges[t])
    BY <1>1, <2>2, <2>7, LoopTestType
  <2>9. CASE pc' = [pc EXCEPT ![t] = "cas"] /\ edges' = edges /\ new'[t] = a
    <3>1. pc'[t] = "cas" /\ new'[t] = d + Head(edges'[t]).w
      BY <1>2, <2>9 DEF a
    <3>2. Traced(g', source', dist', u'[t], d)
      BY <1>1, <2>1, <2>5
    <3>. QED BY <3>1, <3>2 DEF WalkOf
  <2>10. CASE pc' = [pc EXCEPT ![t] = "edges"] /\ edges'[t] = Tail(edges[t])
    <3>1. pc'[t] = "edges"
      BY <1>2, <2>10
    <3>. QED BY <3>1 DEF WalkOf
  <2>. QED BY <2>8, <2>9, <2>10
<1>9. CASE CasDist(t)
  <2>1. pc[t] = "cas" /\ u' = u
    BY <1>9 DEF CasDist
  <2>2. \/ pc'[t] = "edges"
        \/ pc'[t] = "recheck" /\ edges' = edges /\ new' = new
    BY <1>2, <1>9 DEF CasDist, NextEdge, Goto
  <2>. QED BY <1>1, <2>1, <2>2 DEF WalkOf
<1>. QED BY <1>4, <1>5, <1>6, <1>7, <1>8, <1>9 DEF ThreadStep, RelaxStep

(* A step that writes no label changes no thread but its own.              *)
LEMMA QuietWalk ==
  ASSUME IInv, EdgesInv, TypeOK', WalkInv, NEW t \in Threads, ThreadStep(t), dist' = dist
  PROVE  WalkInv'
<1>1. TypeOK /\ g' = g /\ source' = source
  BY OneThread DEF IInv, PhaseInv
<1>2. ASSUME NEW s \in Threads \ {t} PROVE WalkOf(s)'
  <2>1. pc'[s] = pc[s] /\ u'[s] = u[s] /\ edges'[s] = edges[s] /\ new'[s] = new[s]
    BY <1>1, OneThread
  <2>2. WalkOf(s)
    BY DEF WalkInv
  <2>. QED BY <1>1, <2>1, <2>2 DEF WalkOf
<1>3. WalkOf(t)'
  BY OwnWalk
<1>. QED BY <1>1, <1>2, <1>3 DEF WalkInv, Reached

(***************************************************************************)
(* The label that a successful CAS writes: the edge in hand makes a trace  *)
(* longer, and breaks none of the others.                                  *)
(***************************************************************************)
LEMMA CasWalk ==
  ASSUME IInv, EdgesInv, TypeOK', WalkInv, NEW t \in Threads, CasWins(t)
  PROVE  /\ WalkInv'
         /\ \E n \in V : /\ dist' = [dist EXCEPT ![n] = new[t]]
                         /\ new[t] < dist[n] /\ Traced(g, source, dist', n, new[t])
<1>. DEFINE e == Head(edges[t])
            n == e.v
<1>1. /\ pc[t] = "cas" /\ pc[t] \in Relaxing /\ ThreadStep(t) /\ CasDist(t)
      /\ dist[n] = old[t]
  BY DEF CasWins, CasDist, Relaxing, Working, ThreadStep, RelaxStep
<1>2. TypeOK /\ g' = g /\ source' = source /\ IsWeightedGraph(g) /\ source \in V
  BY <1>1, OneThread DEF IInv, PhaseInv, TypeOK
<1>3. edges[t] # <<>> /\ new[t] < old[t] /\ new[t] < DistInf
  BY <1>1, RelaxingFacts DEF IInv, RelaxInv
<1>4. dist \in [V -> Nat] /\ dist' \in [V -> Nat]
  BY <1>2 DEF TypeOK
<1>5. e.v \in V /\ e.w \in Nat /\ u[t] \in V /\ new[t] \in Nat
  BY <1>2, <1>3, HeadEdge, LocalsType
<1>6. /\ dist' = [dist EXCEPT ![n] = new[t]] /\ u' = u
      /\ edges'[t] = Tail(edges[t]) /\ pc'[t] = "edges"
  <2>1. dist' = [dist EXCEPT ![n] = new[t]] /\ NextEdge(t) /\ u' = u
    BY <1>1 DEF CasDist
  <2>2. pc' = [pc EXCEPT ![t] = "edges"] /\ edges'[t] = Tail(edges[t])
    BY <1>2, <1>3, <2>1, NextEdgeType
  <2>3. pc \in [Threads -> {"frontier", "edges", "readU", "cas", "recheck", "fuse", "vote",
                            "voted", "single", "reserve", "copy", "copied", "done"}]
    BY <1>2 DEF TypeOK, PerThread
  <2>4. pc'[t] = "edges"
    BY <2>2, <2>3
  <2>. QED BY <2>1, <2>2, <2>4
<1>7. PICK d \in Nat : Traced(g, source, dist, u[t], d) /\ new[t] = d + e.w
  BY <1>1 DEF WalkInv, WalkOf
<1>8. e \in Elems(g.out[u[t]])
  BY <1>1, <1>2, <1>3, TailOfEdges DEF EdgesInv, EdgesOf, Working
<1>9. new[t] < dist[n] /\ \A m \in V : dist'[m] <= dist[m]
  <2>1. PICK x \in V : x = n
    BY <1>5
  <2>2. dist' = [dist EXCEPT ![x] = new[t]] /\ new[t] < dist[x]
    BY <1>1, <1>3, <1>6, <2>1
  <2>3. \A m \in V : dist'[m] <= dist[m]
    BY <1>4, <1>5, <2>2
  <2>. QED BY <2>1, <2>2, <2>3
<1>. HIDE DEF e, n
<1>10. Traced(g, source, dist', n, new[t])
  <2>1. d + e.w < dist[e.v] /\ dist'[e.v] <= d + e.w
    <3>1. dist'[n] = new[t]
      BY <1>4, <1>5, <1>6 DEF n
    <3>. QED BY <1>5, <1>7, <1>9, <3>1 DEF n
  <2>2. Traced(g, source, dist', e.v, d + e.w)
    BY <1>2, <1>4, <1>5, <1>7, <1>8, <1>9, <2>1, TraceExtends
  <2>. QED BY <1>7, <2>2 DEF n
<1>11. dist'[source] = 0
  <2>1. dist[source] = 0 /\ dist[source] \in Nat /\ dist'[source] \in Nat
    BY <1>2, <1>4 DEF WalkInv
  <2>. QED BY <1>2, <1>9, <2>1
<1>12. ASSUME NEW m \in V, Reached(m)' PROVE Traced(g, source, dist', m, dist'[m])
  <2>1. CASE m = n
    <3>1. dist'[m] = new[t]
      BY <1>4, <1>6, <2>1
    <3>. QED BY <1>10, <2>1, <3>1
  <2>2. CASE m # n
    <3>1. dist'[m] = dist[m]
      BY <1>4, <1>6, <2>2
    <3>2. Traced(g, source, dist, m, dist[m])
      BY <1>12, <3>1 DEF WalkInv, Reached
    <3>. QED BY <1>4, <1>9, <3>1, <3>2, TraceStays
  <2>. QED BY <2>1, <2>2
<1>13. ASSUME NEW s \in Threads PROVE WalkOf(s)'
  <2>1. CASE s = t
    BY <1>6, <2>1 DEF WalkOf
  <2>2. CASE s # t
    <3>1. /\ pc'[s] = pc[s] /\ u'[s] = u[s] /\ edges'[s] = edges[s] /\ new'[s] = new[s]
      BY <1>1, <1>2, <2>2, OneThread
    <3>2. WalkOf(s)
      BY DEF WalkInv
    <3>3. ASSUME pc[s] \in {"cas", "recheck"}
          PROVE  \E c \in Nat : /\ Traced(g, source, dist', u[s], c)
                                /\ new[s] = c + Head(edges[s]).w
      <4>1. PICK c \in Nat : /\ Traced(g, source, dist, u[s], c)
                             /\ new[s] = c + Head(edges[s]).w
        BY <3>2, <3>3 DEF WalkOf
      <4>2. Traced(g, source, dist', u[s], c)
        BY <1>4, <1>9, <4>1, TraceStays
      <4>. QED BY <4>1, <4>2
    <3>. QED BY <1>2, <3>1, <3>2, <3>3 DEF WalkOf
  <2>. QED BY <2>1, <2>2
<1>14. WalkInv'
  BY <1>2, <1>11, <1>12, <1>13 DEF WalkInv
<1>15. n \in V
  BY <1>5 DEF n
<1>. QED BY <1>6, <1>9, <1>10, <1>14, <1>15 DEF n, e

(* The barriers leave nobody at work.                                      *)
LEMMA BarrierWalk ==
  ASSUME IInv, WalkInv, Barrier
  PROVE  WalkInv' /\ dist' = dist /\ g' = g /\ source' = source
<1>1. UNCHANGED <<g, source, dist>>
  BY DEF Barrier, OpenVoted, OpenCopied, locals
<1>2. \A t \in Threads : pc'[t] \notin {"cas", "recheck"}
  BY DEF Barrier, OpenVoted, OpenCopied
<1>3. \A t \in Threads : WalkOf(t)'
  BY <1>2 DEF WalkOf
<1>. QED BY <1>1, <1>3 DEF WalkInv, Reached

LEMMA WalkStep == IInv /\ EdgesInv /\ WalkInv /\ [Next]_vars => WalkInv'
<1>. SUFFICES ASSUME IInv, EdgesInv, WalkInv, [Next]_vars PROVE WalkInv'
  OBVIOUS
<1>1. TypeOK'
  BY TypeStep
<1>2. ASSUME NEW t \in Threads, ThreadStep(t) PROVE WalkInv'
  <2>1. CASE CasWins(t)
    BY <1>1, <2>1, CasWalk
  <2>2. CASE ~CasWins(t)
    BY <1>1, <1>2, <2>2, OnlyCasWrites, QuietWalk
  <2>. QED BY <2>1, <2>2
<1>3. CASE Barrier
  BY <1>3, BarrierWalk
<1>4. CASE UNCHANGED vars
  <2>1. \A t \in Threads : WalkOf(t)' <=> WalkOf(t)
    BY <1>4 DEF vars, WalkOf
  <2>. QED BY <1>4, <2>1 DEF vars, WalkInv, Reached
<1>. QED BY <1>2, <1>3, <1>4 DEF Next, Terminated

(* Every label is the length of a walk, and DeltaStep returns labels that  *)
(* are exact.                                                              *)
LEMMA ReturnsExact ==
  ASSUME IInv, EdgesInv, WalkInv, \A n \in V : \A e \in Elems(g.out[n]) : ~Slack(n, e)
  PROVE  dist = ShortestLengths(g, source, DistInf)
<1>1. IsWeightedGraph(g) /\ source \in V /\ dist \in [V -> Nat] /\ DistInf \in Nat
  BY LimitsAssumption DEF IInv, PhaseInv, TypeOK
<1>2. dist[source] = 0 /\ \A n \in V : dist[n] <= DistInf
  BY DEF IInv, PhaseInv, WalkInv
<1>3. \A n \in V : ShortestLengths(g, source, DistInf)[n] <= DistInf
  BY <1>1, PathsAssumption DEF EdgesInv
<1>4. \A n \in V : dist[n] = DistInf \/ <<n, dist[n]>> \in Walks(g, source)
  <2>. SUFFICES ASSUME NEW n \in V, dist[n] # DistInf
                PROVE  <<n, dist[n]>> \in Walks(g, source)
    OBVIOUS
  <2>1. Reached(n)
    BY <1>1, <1>2 DEF Reached
  <2>2. Traced(g, source, dist, n, dist[n])
    BY <2>1 DEF WalkInv
  <2>. QED BY <1>1, <2>2, TraceIsWalk
<1>5. ASSUME NEW n \in V, NEW e \in Elems(g.out[n]), dist[n] < DistInf
      PROVE  dist[e.v] <= dist[n] + e.w
  <2>1. e.v \in V /\ e.w \in Nat
    BY <1>1, EdgesType
  <2>2. dist[e.v] \in Nat /\ dist[n] \in Nat /\ ~(dist[e.v] > dist[n] + e.w)
    BY <1>1, <1>5, <2>1 DEF Slack, Reached
  <2>. QED BY <2>1, <2>2
<1>. QED BY <1>1, <1>2, <1>3, <1>4, <1>5, RelaxedLabelsExact

(* What ShortestPaths calls a graph and its walks is what is meant here.   *)
LEMMA AbstractPaths ==
  /\ Abstract!V = V
  /\ \A gr : Abstract!IsWeightedGraph(gr) <=> IsWeightedGraph(gr)
  /\ \A gr, s : Abstract!Walks(gr, s) = Walks(gr, s)
  /\ \A gr, s, far : Abstract!ShortestLengths(gr, s, far) = ShortestLengths(gr, s, far)
<1>1. Abstract!V = V
  BY DEF Abstract!V, V
<1>2. \A gr : Abstract!IsWeightedGraph(gr) <=> IsWeightedGraph(gr)
  BY <1>1 DEF Abstract!IsWeightedGraph, IsWeightedGraph, Abstract!NodeWeight, NodeWeight
<1>3. \A gr, s : Abstract!Walks(gr, s) = Walks(gr, s)
  BY Zenon DEF Abstract!Walks, Walks, Abstract!Elems, Elems
<1>4. \A gr, s, far : Abstract!ShortestLengths(gr, s, far) = ShortestLengths(gr, s, far)
  BY Zenon DEF Abstract!ShortestLengths, ShortestLengths, Abstract!Walks, Walks,
               Abstract!Elems, Elems, Abstract!V, V
<1>. QED BY <1>1, <1>2, <1>3, <1>4

LEMMA InitPaths == Init => Abstract!Init
<1>. SUFFICES ASSUME Init PROVE Abstract!Init
  OBVIOUS
<1>1. AllAt("done") = FALSE
  BY ThreadsAssumption DEF Init, AllAt
<1>2. IsWeightedGraph(g) /\ source \in V
  BY GraphsAssumption DEF Init
<1>. QED BY <1>1, <1>2, AbstractPaths DEF Init, Abstract!Init

LEMMA StepPaths ==
  ASSUME IInv, EdgesInv, WalkInv, [Next]_vars
  PROVE  [Abstract!Next]_<<g, source, dist, AllAt("done")>>
<1>1. TypeOK' /\ TypeOK
  BY TypeStep DEF IInv, PhaseInv
<1>2. ASSUME NEW t \in Threads, ThreadStep(t)
      PROVE  [Abstract!Next]_<<g, source, dist, AllAt("done")>>
  <2>1. pc[t] # "done" /\ pc'[t] # "done"
    <3>1. DOMAIN pc = Threads /\ caller[t] \in {"frontier", "fuse"}
      BY <1>1 DEF TypeOK, PerThread
    <3>2. CASE Claim(t) \/ LeaveLoop(t) \/ FuseBin(t) \/ NextFused(t) \/ LeaveFuse(t)
      BY <3>1, <3>2 DEF Claim, LeaveLoop, FuseBin, NextFused, LeaveFuse, Goto
    <3>3. CASE RelaxStep(t)
      BY <3>1, <3>3
      DEF RelaxStep, ReadOld, ReadU, CasDist, Recheck, EndVertex, LoopTest, NextEdge, Goto
    <3>4. CASE Vote(t) \/ Single(t) \/ Reserve(t) \/ Copy(t)
      BY <3>1, <3>4 DEF Vote, Single, Reserve, Copy, Goto
    <3>. QED BY <1>2, <3>2, <3>3, <3>4 DEF ThreadStep
  <2>2. AllAt("done") = FALSE /\ AllAt("done")' = FALSE
    BY <2>1 DEF AllAt
  <2>3. g' = g /\ source' = source
    BY <1>1, <1>2, OneThread
  <2>4. CASE ~CasWins(t)
    BY <1>2, <2>2, <2>3, <2>4, OnlyCasWrites
  <2>5. CASE CasWins(t)
    <3>1. PICK n \in V : /\ dist' = [dist EXCEPT ![n] = new[t]]
                         /\ new[t] < dist[n] /\ Traced(g, source, dist', n, new[t])
      BY <1>1, <2>5, CasWalk
    <3>2. dist'[n] = new[t]
      BY <1>1, <3>1 DEF TypeOK
    <3>3. <<n, dist'[n]>> \in Walks(g, source)
      <4>1. IsWeightedGraph(g) /\ source \in V
        BY <1>1 DEF TypeOK
      <4>. QED BY <3>1, <3>2, <4>1, TraceIsWalk
    <3>4. Abstract!Improve(n)
      BY <2>2, <2>3, <3>1, <3>2, <3>3, AbstractPaths DEF Abstract!Improve
    <3>. QED BY <3>1, <3>4, AbstractPaths DEF Abstract!Next
  <2>. QED BY <2>4, <2>5
<1>3. CASE Barrier
  <2>1. UNCHANGED <<g, source, dist>>
    BY <1>3, BarrierWalk
  <2>2. AllAt("done") = FALSE
    BY <1>3, ThreadsAssumption DEF Barrier, OpenVoted, OpenCopied, AllAt
  <2>3. CASE AllAt("done")'
    <3>1. \A n \in V : \A e \in Elems(g.out[n]) : ~Slack(n, e)
      <4>1. IInv'
        BY InvStep
      <4>2. PICK t \in Threads : TRUE
        BY ThreadsAssumption
      <4>3. pc'[t] = "done" /\ pc'[t] \notin Relaxing /\ pc'[t] \notin Moving
        BY <2>3 DEF AllAt, Relaxing, Working, Moving
      <4>4. \A n \in V : \A e \in Elems(g'.out[n]) : ~Slack(n, e)'
        BY <4>1, <4>3 DEF IInv, OwedInv
      <4>. QED BY <2>1, <4>4 DEF Slack, Reached
    <3>2. dist = ShortestLengths(g, source, DistInf)
      BY <3>1, ReturnsExact
    <3>3. AllAt("done")' = TRUE
      BY <2>3 DEF AllAt
    <3>4. Abstract!Finish
      BY <2>1, <2>2, <3>2, <3>3, AbstractPaths DEF Abstract!Finish
    <3>. QED BY <3>4 DEF Abstract!Next
  <2>4. CASE ~AllAt("done")'
    <3>1. AllAt("done")' = FALSE
      BY <2>4 DEF AllAt
    <3>. QED BY <2>1, <2>2, <3>1
  <2>. QED BY <2>3, <2>4
<1>4. CASE UNCHANGED vars
  BY <1>4 DEF vars, AllAt
<1>. QED BY <1>2, <1>3, <1>4 DEF Next, Terminated

(***************************************************************************)
(* The parallel DeltaStep implements ShortestPaths: whatever the threads   *)
(* read and whichever CASes fail, labels only drop, to lengths of walks,   *)
(* and those returned are the lengths of shortest paths                    *)
(* (src/src/sssp.cc:62-83, 86-154).                                        *)
(***************************************************************************)
THEOREM RefinesShortestPaths == Spec => FindsShortestPaths
<1>1. Init => Abstract!Init
  BY InitPaths
<1>2. Init => IInv /\ EdgesInv /\ WalkInv
  BY InitInv, InitEdges, InitWalks
<1>3. IInv /\ EdgesInv /\ WalkInv /\ [Next]_vars => IInv' /\ EdgesInv' /\ WalkInv'
  BY InvStep, EdgesStep, WalkStep
<1>4. IInv /\ EdgesInv /\ WalkInv /\ [Next]_vars => [Abstract!Next]_<<g, source, dist, AllAt("done")>>
  BY StepPaths
<1>. QED BY <1>1, <1>2, <1>3, <1>4, PTL DEF Spec, FindsShortestPaths, Abstract!Spec
==============================================================================
