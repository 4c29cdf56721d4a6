--------------------------- MODULE DeltaStepProofs ---------------------------
(***************************************************************************)
(* DeltaStep of the C port and the search of its verifier, for every graph *)
(* whose weights are not negative, every delta and every width of WeightT: *)
(* what they do with an infinity longer than any path, which is what the   *)
(* code means, and what they do with the one the C port has.               *)
(***************************************************************************)
EXTENDS DeltaStep, CSRGraphProofs

(***************************************************************************)
(* With an infinity above 0 the program finds shortest paths; with one     *)
(* that is not, as kDistInf of the C port is not, it relaxes no edge.      *)
(***************************************************************************)
ProperInfinity == WeightsFit /\ DistInf > 0

IdleInfinity == WeightsFit /\ ~(DistInf > 0)

LEMMA HalfRange == WeightRange \div 2 \in Int
BY WeightRangeAssumption

LEMMA InfinityIs ==
  ASSUME ProperInfinity
  PROVE  DistInf \in Nat \ {0} /\ DistInf <= WeightRange \div 2
BY DistInfAssumption DEF ProperInfinity, WeightsFit

(* All ones shifted right by two are all ones again in the lower word: the *)
(* infinity of the C port is -1, whatever the width of WeightT.            *)
THEOREM DistInfIsNegative == kDistInf = -1
<1>. DEFINE M == WeightRange
            n == (M * M - 1) \div 4
<1>1. PICK k \in Nat \ {0} : M = 4 * k
  <2>1. M \in Nat \ {0} /\ M = 4 * (M \div 4) /\ M \div 4 \in Nat \ {0}
    BY WeightRangeAssumption
  <2>. QED BY <2>1
<1>. HIDE DEF M
<1>2. /\ k * M \in Nat /\ M * M = 4 * (k * M) /\ (k - 1) * M \in Nat
      /\ k * M = M * (k - 1) + M
  BY <1>1
<1>3. n = M * (k - 1) + (M - 1) /\ n \in Nat /\ k - 1 \in Nat /\ M - 1 \in 0 .. M - 1
  BY <1>1, <1>2
<1>. HIDE DEF n
<1>4. n % M = M - 1
  <2>. DEFINE q == k - 1
              r == M - 1
  <2>1. n = M * q + r /\ n \in Nat /\ q \in Nat /\ r \in 0 .. M - 1 /\ M \in Nat \ {0}
    BY <1>1, <1>3
  <2>. HIDE DEF q, r
  <2>2. n % M = r
    BY <2>1, RemainderIs
  <2>. QED BY <2>2 DEF r
<1>5. M \div 2 = 2 * k /\ M - 1 >= M \div 2 /\ M - 1 - M = -1
  BY <1>1
<1>6. Truncate(n) = -1
  BY <1>4, <1>5 DEF Truncate, M
<1>. QED BY <1>6 DEF kDistInf, n, M

(* New bins are empty and the others stay as they are.                     *)
LEMMA EnsuredBins ==
  ASSUME NEW bs \in Seq(Seq(V)), NEW b \in Nat
  PROVE  LET es == EnsureBin(bs, b) IN
           /\ es \in Seq(Seq(V))
           /\ Len(bs) <= Len(es) /\ b < Len(es) /\ (Len(es) = Len(bs) \/ Len(es) = b + 1)
           /\ \A i \in 1 .. Len(es) : es[i] = IF i <= Len(bs) THEN bs[i] ELSE <<>>
<1>1. Len(bs) \in Nat
  OBVIOUS
<1>2. CASE b < Len(bs)
  BY <1>1, <1>2 DEF EnsureBin
<1>3. CASE ~(b < Len(bs))
  <2>. DEFINE k == b + 1 - Len(bs)
              more == [i \in 1 .. k |-> <<>>]
  <2>1. k \in Nat /\ Len(bs) + k = b + 1 /\ k # 0
    BY <1>1, <1>3
  <2>2. more \in [1 .. k -> Seq(V)]
    OBVIOUS
  <2>. HIDE DEF k
  <2>3. more \in Seq(Seq(V)) /\ Len(more) = k /\ \A i \in 1 .. k : more[i] = <<>>
    BY <2>1, <2>2
  <2>4. EnsureBin(bs, b) = bs \o more
    BY <1>3 DEF EnsureBin, k
  <2>. HIDE DEF more
  <2>5. /\ bs \o more \in Seq(Seq(V)) /\ Len(bs \o more) = Len(bs) + Len(more)
        /\ \A i \in 1 .. Len(bs) + Len(more) :
             (bs \o more)[i] = IF i <= Len(bs) THEN bs[i] ELSE more[i - Len(bs)]
    BY <2>3, ConcatProperties
  <2>6. PICK es : es = bs \o more
    OBVIOUS
  <2>7. \A i \in 1 .. Len(es) : es[i] = IF i <= Len(bs) THEN bs[i] ELSE <<>>
    <3>. SUFFICES ASSUME NEW i \in 1 .. Len(es)
                  PROVE  es[i] = IF i <= Len(bs) THEN bs[i] ELSE <<>>
      OBVIOUS
    <3>1. i \in 1 .. Len(bs) + k
      BY <2>3, <2>5, <2>6
    <3>2. ~(i <= Len(bs)) => i - Len(bs) \in 1 .. k
      BY <1>1, <2>1, <3>1
    <3>. QED BY <2>3, <2>5, <2>6, <3>1, <3>2
  <2>. QED BY <1>1, <2>1, <2>3, <2>4, <2>5, <2>6, <2>7
<1>. QED BY <1>2, <1>3

(* Products keep the order of their factors.                               *)
LEMMA TimesMonotone ==
  ASSUME NEW a \in Nat, NEW b \in Nat, NEW d \in Nat, a <= b
  PROVE  a * d <= b * d /\ a * d \in Nat /\ b * d \in Nat
<1>1. PICK r \in Nat : b = a + r
  <2>1. b - a \in Nat /\ b = a + (b - a)
    OBVIOUS
  <2>. QED BY <2>1
<1>2. b * d = a * d + r * d /\ r * d \in Nat /\ a * d \in Nat /\ b * d \in Nat
  BY <1>1
<1>. QED BY <1>2
-----------------------------------------------------------------------------
(***************************************************************************)
(* The invariant of DeltaStep: types; the bins reach no further than the   *)
(* distances, and hold only vertices that have one; what the loops have    *)
(* established; every distance is the length of a path.                    *)
(***************************************************************************)
Reached(n) == dist[n] < DistInf

KernelType ==
  /\ g \in Graphs /\ IsWeightedGraph(g) /\ source \in V /\ delta \in Deltas
  /\ dist \in [V -> Nat] /\ dist[source] = 0 /\ \A n \in V : dist[n] <= DistInf
  /\ bins \in Seq(Seq(V)) /\ current \in 0 .. Size
  /\ bag \in Seq(V) /\ idx \in 1 .. Len(bag) + 1
  /\ u \in V /\ edges \in Seq(NodeWeight)
  /\ stage \in {"bins", "bag", "done", "heap", "accepted", "rejected"}

BinsHold ==
  /\ Size # 0 /\ (Size - 1) * delta < DistInf
  /\ \A b \in 1 .. Size : \A n \in Elems(bins[b]) : Reached(n)
  /\ \A n \in Elems(bag) : Reached(n)

LoopInv ==
  /\ stage # "bag" => bag = <<>> /\ edges = <<>>
  /\ stage = "bag" => current < Size
  /\ Returned => current = Size
  /\ edges # <<>> => /\ Reached(u) /\ current * delta <= dist[u]
                     /\ Elems(edges) \subseteq Elems(g.out[u])

PathsInv == \A n \in V : Reached(n) => Traced(g, source, dist, n, dist[n])

KernelInv == KernelType /\ BinsHold /\ LoopInv /\ PathsInv /\ NothingLost

(* The numbers of a state.                                                 *)
LEMMA KernelNumbers ==
  ASSUME ProperInfinity, KernelInv
  PROVE  /\ delta \in Nat \ {0} /\ DistInf \in Nat \ {0} /\ Size \in Nat \ {0} /\ current \in Nat
         /\ Len(bag) \in Nat /\ idx \in Nat \ {0} /\ idx <= Len(bag) + 1
         /\ \A n \in V : dist[n] \in Nat
         /\ \A i \in 1 .. Len(bag) : bag[i] \in V
         /\ \A b \in 1 .. Size : bins[b] \in Seq(V)
<1>1. delta \in Nat \ {0} /\ DistInf \in Nat \ {0} /\ \A n \in V : dist[n] \in Nat
  BY DeltasAssumption, InfinityIs DEF KernelInv, KernelType
<1>2. bins \in Seq(Seq(V)) /\ bag \in Seq(V) /\ current \in 0 .. Size /\ idx \in 1 .. Len(bag) + 1
  BY DEF KernelInv, KernelType
<1>3. /\ Size \in Nat /\ Len(bag) \in Nat /\ \A i \in 1 .. Len(bag) : bag[i] \in V
      /\ \A b \in 1 .. Size : bins[b] \in Seq(V)
  BY <1>2 DEF Size
<1>4. Size # 0
  BY DEF KernelInv, BinsHold
<1>. QED BY <1>1, <1>2, <1>3, <1>4

(* The lower bound of the current bin does not overflow.                   *)
LEMMA StaleIs ==
  ASSUME ProperInfinity, KernelInv, current < Size, NEW n \in V
  PROVE  /\ IsStale(n) <=> current * delta > dist[n]
         /\ current * delta > dist[n] <=> dist[n] \div delta < current
         /\ current * delta \in Nat /\ dist[n] \div delta \in Nat
<1>1. /\ delta \in Nat \ {0} /\ DistInf \in Nat /\ Size \in Nat \ {0} /\ current \in Nat
      /\ dist[n] \in Nat
  BY KernelNumbers
<1>2. Size - 1 \in Nat /\ current <= Size - 1
  BY <1>1
<1>3. current * delta <= (Size - 1) * delta /\ current * delta \in Nat /\ (Size - 1) * delta \in Nat
  BY <1>1, <1>2, TimesMonotone
<1>4. (Size - 1) * delta < DistInf /\ DistInf <= WeightRange \div 2
  BY InfinityIs DEF KernelInv, BinsHold
<1>5. PICK c \in Nat : c = current * delta
  BY <1>3
<1>6. c < WeightRange \div 2
  <2>1. WeightRange \div 2 \in Int
    BY HalfRange
  <2>. QED BY <1>1, <1>3, <1>4, <1>5, <2>1
<1>7. Truncate(c) = c
  BY <1>6, NoOverflow
<1>8. current <= dist[n] \div delta <=> delta * current <= dist[n]
  BY <1>1, DivBound
<1>9. delta * current = current * delta
  BY <1>1
<1>10. dist[n] \div delta \in Nat
  BY <1>1, DivType
<1>11. IsStale(n) <=> c > dist[n]
  BY <1>5, <1>7 DEF IsStale
<1>. QED BY <1>1, <1>3, <1>5, <1>8, <1>9, <1>10, <1>11

LEMMA InitKernel == ASSUME ProperInfinity, Init PROVE KernelInv
<1>1. /\ g \in Graphs /\ source \in V /\ delta \in Deltas /\ delta \in Nat \ {0}
      /\ dist = [n \in V |-> IF n = source THEN 0 ELSE DistInf]
      /\ bins = <<<<source>>>> /\ current = 0
      /\ bag = <<>> /\ idx = 1 /\ u = source /\ edges = <<>> /\ stage = "bins"
  BY DeltasAssumption DEF Init
<1>2. DistInf \in Nat \ {0} /\ IsWeightedGraph(g)
  BY <1>1, GraphsAssumption, InfinityIs
<1>3. /\ dist \in [V -> Nat] /\ dist[source] = 0 /\ \A n \in V : dist[n] <= DistInf
      /\ \A n \in V : dist[n] < DistInf => n = source
  BY <1>1, <1>2
<1>4. /\ bins \in Seq(Seq(V)) /\ Size = 1 /\ bins[1] = <<source>> /\ Elems(<<source>>) = {source}
  BY <1>1 DEF Size, Elems
<1>5. KernelType
  BY <1>1, <1>2, <1>3, <1>4 DEF KernelType
<1>6. BinsHold
  <2>1. (Size - 1) * delta = 0 /\ Reached(source)
    BY <1>1, <1>2, <1>3, <1>4 DEF Reached
  <2>. QED BY <1>1, <1>2, <1>4, <2>1, ElemsEmpty DEF BinsHold
<1>7. LoopInv
  BY <1>1 DEF LoopInv, Returned
<1>8. PathsInv
  BY <1>1, <1>3, TraceStart DEF PathsInv, Reached
<1>9. NothingLost
  <2>. SUFFICES ASSUME NEW n \in V, dist[n] # DistInf PROVE Pending(n)
    BY DEF NothingLost
  <2>1. n = source /\ dist[n] = 0
    BY <1>1, <1>3
  <2>2. dist[n] \div delta = 0
    BY <1>1, <2>1
  <2>3. Bin(0) = <<source>> /\ 0 \in current .. Size - 1
    BY <1>1, <1>4 DEF Bin
  <2>. QED BY <1>4, <2>1, <2>2, <2>3 DEF Pending
<1>. QED BY <1>5, <1>6, <1>7, <1>8, <1>9 DEF KernelInv

(* What a vertex waits for, when nothing but places in the bag and the     *)
(* bins has changed.                                                       *)
LEMMA StillPending ==
  ASSUME UNCHANGED <<g, source, delta, dist>>,
         \A n \in V : Pending(n) => Pending(n)' \/ (n = u' /\ edges' = g.out[n])
                                    \/ \A e \in Elems(g.out[n]) : ~(dist[e.v] > dist[n] + e.w),
         (u' = u /\ edges' = edges) \/ edges = <<>>,
         NothingLost
  PROVE  NothingLost'
<1>. SUFFICES ASSUME NEW n \in V, dist[n] # DistInf, NEW e \in Elems(g.out[n]),
                     dist[e.v] > dist[n] + e.w
              PROVE  Pending(n)' \/ (n = u' /\ e \in Elems(edges'))
  BY DEF NothingLost
<1>1. Pending(n) \/ (n = u /\ e \in Elems(edges))
  BY DEF NothingLost
<1>2. CASE Pending(n)
  BY <1>2
<1>3. CASE ~Pending(n)
  BY <1>1, <1>3, ElemsEmpty
<1>. QED BY <1>2, <1>3

LEMMA SkipKernel == ASSUME ProperInfinity, KernelInv, SkipEmptyBin PROVE KernelInv'
<1>1. /\ stage = "bins" /\ current < Size /\ Bin(current) = <<>> /\ current' = current + 1
      /\ UNCHANGED <<g, source, delta, dist, bins, bag, idx, u, edges, stage>>
  BY DEF SkipEmptyBin, verifier
<1>2. /\ delta \in Nat \ {0} /\ Size \in Nat \ {0} /\ current \in Nat
      /\ \A n \in V : dist[n] \in Nat
  BY KernelNumbers
<1>3. Size' = Size /\ bag = <<>> /\ edges = <<>>
  BY <1>1 DEF Size, KernelInv, LoopInv
<1>4. KernelType'
  BY <1>1, <1>2, <1>3 DEF KernelInv, KernelType
<1>5. BinsHold' /\ PathsInv'
  BY <1>1, <1>3 DEF KernelInv, BinsHold, PathsInv, Reached
<1>6. LoopInv'
  BY <1>1, <1>3 DEF LoopInv, Returned
<1>7. ASSUME NEW n \in V, Pending(n) PROVE Pending(n)'
  <2>1. PICK b \in Nat : b = dist[n] \div delta
    BY <1>2, DivType
  <2>2. b \in current .. Size - 1 /\ n \in Elems(Bin(b))
    BY <1>1, <1>2, <1>3, <1>7, <2>1 DEF Pending, KernelInv, KernelType
  <2>3. b # current
    BY <1>1, <2>2, ElemsEmpty
  <2>4. b \in current' .. Size' - 1 /\ n \in Elems(Bin(b))'
    BY <1>1, <1>2, <1>3, <2>1, <2>2, <2>3 DEF Bin
  <2>5. b = (dist[n] \div delta)'
    BY <1>1, <2>1
  <2>. QED BY <2>4, <2>5 DEF Pending
<1>8. NothingLost'
  BY <1>1, <1>7, StillPending DEF KernelInv
<1>. QED BY <1>4, <1>5, <1>6, <1>8 DEF KernelInv

LEMMA TakeBinKernel == ASSUME ProperInfinity, KernelInv, TakeBin PROVE KernelInv'
<1>1. /\ stage = "bins" /\ current < Size /\ bag' = Bin(current) /\ idx' = 1
      /\ bins' = [bins EXCEPT ![current + 1] = <<>>] /\ stage' = "bag"
      /\ UNCHANGED <<g, source, delta, dist, current, u, edges>>
  BY DEF TakeBin, verifier
<1>2. /\ delta \in Nat \ {0} /\ Size \in Nat \ {0} /\ current \in Nat
      /\ \A n \in V : dist[n] \in Nat
  BY KernelNumbers
<1>3. bag = <<>> /\ edges = <<>> /\ bins \in Seq(Seq(V)) /\ current + 1 \in 1 .. Size
  BY <1>1, <1>2 DEF Size, KernelInv, KernelType, LoopInv
<1>4. /\ bins' \in Seq(Seq(V)) /\ Size' = Size /\ bag' \in Seq(V)
      /\ bins'[current + 1] = <<>> /\ \A b \in 1 .. Size : b # current + 1 => bins'[b] = bins[b]
  BY <1>1, <1>2, <1>3 DEF Size, Bin
<1>5. KernelType'
  <2>1. idx' \in 1 .. Len(bag') + 1
    BY <1>1, <1>4
  <2>. QED BY <1>1, <1>4, <2>1 DEF KernelInv, KernelType
<1>6. BinsHold'
  <2>1. \A b \in 1 .. Size : \A n \in Elems(bins'[b]) : n \in Elems(bins[b])
    BY <1>3, <1>4, ElemsEmpty
  <2>2. \A n \in Elems(bag') : n \in Elems(bins[current + 1])
    BY <1>1 DEF Bin
  <2>. QED BY <1>1, <1>3, <1>4, <2>1, <2>2 DEF KernelInv, BinsHold, Reached
<1>7. PathsInv' /\ LoopInv'
  BY <1>1, <1>3, <1>4 DEF KernelInv, PathsInv, Reached, LoopInv, Returned
<1>8. ASSUME NEW n \in V, Pending(n) PROVE Pending(n)'
  <2>1. PICK b \in Nat : b = dist[n] \div delta
    BY <1>2, DivType
  <2>2. b \in current .. Size - 1 /\ n \in Elems(Bin(b))
    BY <1>1, <1>2, <1>3, <1>8, <2>1 DEF Pending, KernelInv, KernelType
  <2>3. b \in current' .. Size' - 1 /\ b = (dist[n] \div delta)'
    BY <1>1, <1>4, <2>1, <2>2
  <2>4. CASE b = current
    <3>1. n \in Elems(bag') /\ Len(bag') \in Nat /\ DOMAIN bag' = 1 .. Len(bag')
      BY <1>1, <1>4, <2>2, <2>4
    <3>2. \E i \in idx' .. Len(bag') : bag'[i] = n
      BY <1>1, <3>1 DEF Elems
    <3>. QED BY <2>3, <3>2 DEF Pending
  <2>5. CASE b # current
    <3>1. n \in Elems(Bin(b))'
      BY <1>2, <1>4, <2>2, <2>5 DEF Bin
    <3>. QED BY <2>3, <3>1 DEF Pending
  <2>. QED BY <2>4, <2>5
<1>9. NothingLost'
  BY <1>1, <1>8, StillPending DEF KernelInv
<1>. QED BY <1>5, <1>6, <1>7, <1>9 DEF KernelInv

LEMMA TakeEntryKernel == ASSUME ProperInfinity, KernelInv, TakeEntry PROVE KernelInv'
<1>1. /\ stage = "bag" /\ edges = <<>> /\ idx <= Len(bag)
      /\ u' = bag[idx] /\ idx' = idx + 1
      /\ edges' = IF IsStale(u') THEN <<>> ELSE g.out[u']
      /\ UNCHANGED <<g, source, delta, dist, bins, current, bag, stage>>
  BY DEF TakeEntry, verifier
<1>2. /\ delta \in Nat \ {0} /\ Size \in Nat \ {0} /\ current \in Nat /\ Len(bag) \in Nat
      /\ idx \in Nat \ {0} /\ \A n \in V : dist[n] \in Nat
      /\ \A i \in 1 .. Len(bag) : bag[i] \in V
  BY KernelNumbers
<1>3. PICK x \in V : x = u' /\ x = bag[idx]
  BY <1>1, <1>2
<1>4. current < Size /\ bag \in Seq(V) /\ IsWeightedGraph(g)
  BY <1>1 DEF KernelInv, LoopInv, KernelType
<1>5. x \in Elems(bag) /\ Reached(x)
  <2>1. DOMAIN bag = 1 .. Len(bag) /\ idx \in 1 .. Len(bag)
    BY <1>1, <1>2, <1>4
  <2>. QED BY <1>3, <2>1 DEF Elems, KernelInv, BinsHold
<1>6. /\ IsStale(x) <=> current * delta > dist[x]
      /\ current * delta > dist[x] <=> dist[x] \div delta < current
      /\ current * delta \in Nat /\ dist[x] \div delta \in Nat
  BY <1>4, StaleIs
<1>7. edges' = IF IsStale(x) THEN <<>> ELSE g.out[x]
  BY <1>1, <1>3
<1>8. KernelType'
  <2>1. edges' \in Seq(NodeWeight)
    BY <1>3, <1>4, <1>7, EdgesType
  <2>2. idx' \in 1 .. Len(bag') + 1 /\ u' \in V
    BY <1>1, <1>2, <1>3
  <2>3. Size' = Size
    BY <1>1 DEF Size
  <2>. QED BY <1>1, <2>1, <2>2, <2>3 DEF KernelInv, KernelType
<1>9. BinsHold' /\ PathsInv'
  BY <1>1 DEF KernelInv, BinsHold, PathsInv, Reached, Size
<1>10. LoopInv'
  <2>1. edges' # <<>> => ~IsStale(x) /\ edges' = g.out[x]
    BY <1>7
  <2>2. edges' # <<>> => Reached(x) /\ current * delta <= dist[x]
    BY <1>2, <1>5, <1>6, <2>1
  <2>. QED BY <1>1, <1>3, <1>4, <2>1, <2>2 DEF LoopInv, Reached, Returned, Size
<1>11. ASSUME NEW n \in V, Pending(n) PROVE Pending(n)' \/ (n = u' /\ edges' = g.out[n])
  <2>1. CASE n = x
    <3>1. ~IsStale(x)
      BY <1>2, <1>6, <1>11, <2>1 DEF Pending
    <3>. QED BY <1>3, <1>7, <2>1, <3>1
  <2>2. CASE n # x
    <3>1. dist[n] \div delta \in current .. Size - 1
          /\ (\E i \in idx .. Len(bag) : bag[i] = n) => \E i \in idx + 1 .. Len(bag) : bag[i] = n
      BY <1>2, <1>3, <1>11, <2>2 DEF Pending
    <3>. QED BY <1>1, <1>11, <3>1 DEF Pending, Size, Bin
  <2>. QED BY <2>1, <2>2
<1>12. NothingLost'
  BY <1>1, <1>11, StillPending DEF KernelInv
<1>. QED BY <1>8, <1>9, <1>10, <1>12 DEF KernelInv

LEMMA EndBagKernel == ASSUME ProperInfinity, KernelInv, EndBag PROVE KernelInv'
<1>1. /\ stage = "bag" /\ edges = <<>> /\ idx > Len(bag)
      /\ bag' = <<>> /\ idx' = 1 /\ stage' = "bins"
      /\ UNCHANGED <<g, source, delta, dist, bins, current, u, edges>>
  BY DEF EndBag, verifier
<1>2. Len(bag) \in Nat /\ idx \in Nat \ {0} /\ Size' = Size
  BY <1>1, KernelNumbers DEF Size
<1>3. KernelType' /\ PathsInv' /\ LoopInv'
  BY <1>1, <1>2 DEF KernelInv, KernelType, PathsInv, LoopInv, Reached, Returned
<1>4. BinsHold'
  BY <1>1, <1>2, ElemsEmpty DEF KernelInv, BinsHold, Reached
<1>5. ASSUME NEW n \in V, Pending(n) PROVE Pending(n)'
  <2>1. dist[n] \div delta \in current .. Size - 1 /\ n \in Elems(Bin(dist[n] \div delta))
    BY <1>1, <1>2, <1>5 DEF Pending
  <2>. QED BY <1>1, <1>2, <2>1 DEF Pending, Bin
<1>6. NothingLost'
  BY <1>1, <1>5, StillPending DEF KernelInv
<1>. QED BY <1>3, <1>4, <1>6 DEF KernelInv

(* Steps that leave the kernel's variables alone.                          *)
LEMMA QuietKernel ==
  ASSUME KernelInv, UNCHANGED <<g, source, delta, kernel>>,
         stage' = stage \/ (stage' \in {"done", "heap", "accepted", "rejected"}
                            /\ stage # "bag" /\ current = Size)
  PROVE  KernelInv'
<1>1. UNCHANGED <<g, source, delta, dist, bins, current, bag, idx, u, edges>> /\ Size' = Size
  BY DEF kernel, Size
<1>2. KernelType' /\ BinsHold' /\ PathsInv'
  BY <1>1 DEF KernelInv, KernelType, BinsHold, PathsInv, Reached
<1>3. LoopInv'
  BY <1>1 DEF KernelInv, LoopInv, Reached, Returned
<1>4. NothingLost'
  BY <1>1 DEF KernelInv, NothingLost, Pending, Bin
<1>. QED BY <1>2, <1>3, <1>4 DEF KernelInv

(* What Insert does: n joins the bag or its bin, and nobody leaves.        *)
LEMMA Inserted ==
  ASSUME bins \in Seq(Seq(V)), bag \in Seq(V), current \in Nat,
         NEW dest \in Nat, NEW n \in V, Insert(dest, n)
  PROVE  /\ bins' \in Seq(Seq(V)) /\ bag' \in Seq(V)
         /\ Size <= Size' /\ dest < Size' /\ (Size' = Size \/ Size' = dest + 1)
         /\ \A b \in 1 .. Size : Elems(bins[b]) \subseteq Elems(bins'[b])
         /\ \A b \in 1 .. Size' : \A m \in Elems(bins'[b]) :
              m = n \/ (b \in 1 .. Size /\ m \in Elems(bins[b]))
         /\ Len(bag) <= Len(bag') /\ \A i \in 1 .. Len(bag) : bag'[i] = bag[i]
         /\ \A m \in Elems(bag') : m = n \/ m \in Elems(bag)
         /\ dest = current => \E i \in Len(bag) + 1 .. Len(bag') : bag'[i] = n
         /\ dest # current => n \in Elems(bins'[dest + 1])
<1>1. PICK es : es = EnsureBin(bins, dest)
  OBVIOUS
<1>2. /\ es \in Seq(Seq(V)) /\ Len(es) \in Nat
      /\ Len(bins) <= Len(es) /\ dest < Len(es) /\ (Len(es) = Len(bins) \/ Len(es) = dest + 1)
      /\ \A i \in 1 .. Len(es) : es[i] = IF i <= Len(bins) THEN bins[i] ELSE <<>>
  BY <1>1, EnsuredBins
<1>3. Len(bins) \in Nat /\ Len(bag) \in Nat /\ DOMAIN bag = 1 .. Len(bag) /\ Size = Len(bins)
  BY DEF Size
<1>4. \A b \in 1 .. Size : b \in 1 .. Len(es) /\ es[b] = bins[b]
  BY <1>2, <1>3
<1>5. \A b \in 1 .. Len(es) : \A m \in Elems(es[b]) : b \in 1 .. Size /\ m \in Elems(bins[b])
  <2>. SUFFICES ASSUME NEW b \in 1 .. Len(es), NEW m \in Elems(es[b])
                PROVE  b \in 1 .. Size /\ m \in Elems(bins[b])
    OBVIOUS
  <2>1. b <= Len(bins)
    BY <1>2, ElemsEmpty
  <2>. QED BY <1>2, <1>3, <2>1
<1>6. CASE dest = current
  <2>1. bins' = es /\ bag' = Append(bag, n)
    BY <1>1, <1>6 DEF Insert
  <2>2. /\ bag' \in Seq(V) /\ Len(bag') = Len(bag) + 1 /\ bag'[Len(bag) + 1] = n
        /\ \A i \in 1 .. Len(bag) : bag'[i] = bag[i]
    BY <2>1
  <2>3. \A m \in Elems(bag') : m = n \/ m \in Elems(bag)
    BY <2>1, ElemsAppend
  <2>4. Size' = Len(es)
    BY <2>1 DEF Size
  <2>5. \E i \in Len(bag) + 1 .. Len(bag') : bag'[i] = n
    BY <1>3, <2>2
  <2>6. \A b \in 1 .. Size : Elems(bins[b]) \subseteq Elems(bins'[b])
    BY <1>4, <2>1
  <2>7. \A b \in 1 .. Size' : \A m \in Elems(bins'[b]) : b \in 1 .. Size /\ m \in Elems(bins[b])
    BY <1>5, <2>1, <2>4
  <2>8. bins' \in Seq(Seq(V)) /\ Size <= Size' /\ dest < Size' /\ (Size' = Size \/ Size' = dest + 1)
    BY <1>2, <1>3, <2>1, <2>4
  <2>9. Len(bag) <= Len(bag')
    BY <1>3, <2>2
  <2>. QED BY <1>6, <2>2, <2>3, <2>5, <2>6, <2>7, <2>8, <2>9, Zenon
<1>7. CASE dest # current
  <2>. DEFINE k == dest + 1
  <2>1. bins' = [es EXCEPT ![k] = Append(@, n)] /\ bag' = bag
    BY <1>1, <1>7 DEF Insert
  <2>2. k \in 1 .. Len(es) /\ es[k] \in Seq(V) /\ DOMAIN es = 1 .. Len(es)
    BY <1>2
  <2>3. PICK a : a = Append(es[k], n)
    OBVIOUS
  <2>4. a \in Seq(V) /\ \A m : m \in Elems(a) <=> m \in Elems(es[k]) \/ m = n
    BY <2>2, <2>3, ElemsAppend
  <2>. HIDE DEF k
  <2>0. bins' = [es EXCEPT ![k] = a]
    BY <2>1, <2>3
  <2>5. /\ bins' \in Seq(Seq(V)) /\ Size' = Len(es)
        /\ bins'[k] = a /\ \A b \in 1 .. Len(es) : b # k => bins'[b] = es[b]
    <3>. DEFINE T == Seq(V)
    <3>1. es \in Seq(T) /\ a \in T /\ Len(es) \in Nat
      BY <1>2, <2>4
    <3>. HIDE DEF T
    <3>2. /\ bins' \in Seq(T) /\ Len(bins') = Len(es)
          /\ bins'[k] = a /\ \A b \in 1 .. Len(es) : b # k => bins'[b] = es[b]
      BY <2>0, <2>2, <3>1
    <3>. QED BY <3>2 DEF Size, T
  <2>6. \A b \in 1 .. Size : Elems(bins[b]) \subseteq Elems(bins'[b])
    BY <1>4, <2>4, <2>5
  <2>7. \A b \in 1 .. Size' : \A m \in Elems(bins'[b]) :
          m = n \/ (b \in 1 .. Size /\ m \in Elems(bins[b]))
    BY <1>5, <2>4, <2>5
  <2>8. n \in Elems(bins'[dest + 1])
    BY <2>4, <2>5 DEF k
  <2>9. bins' \in Seq(Seq(V)) /\ Size <= Size' /\ dest < Size' /\ (Size' = Size \/ Size' = dest + 1)
    BY <1>2, <1>3, <2>5
  <2>10. bag' = bag /\ Len(bag) <= Len(bag') /\ bag' \in Seq(V)
    BY <1>3, <2>1
  <2>11. \A i \in 1 .. Len(bag) : bag'[i] = bag[i]
    BY <2>10
  <2>. QED BY <1>7, <2>6, <2>7, <2>8, <2>9, <2>10, <2>11, Zenon
<1>. QED BY <1>6, <1>7

(* The edge about to be relaxed.                                           *)
LEMMA EdgeFacts ==
  ASSUME ProperInfinity, KernelInv, edges # <<>>
  PROVE  LET e == Head(edges) IN
           /\ stage = "bag" /\ current < Size
           /\ Reached(u) /\ current * delta <= dist[u] /\ current * delta \in Nat
           /\ e \in Elems(g.out[u]) /\ e.v \in V /\ e.w \in Nat
           /\ Truncate(dist[u] + e.w) = dist[u] + e.w
           /\ Tail(edges) \in Seq(NodeWeight)
           /\ \A f : f \in Elems(edges) <=> f = e \/ f \in Elems(Tail(edges))
<1>1. /\ stage = "bag" /\ current < Size /\ Reached(u) /\ current * delta <= dist[u]
      /\ Elems(edges) \subseteq Elems(g.out[u])
  BY DEF KernelInv, LoopInv
<1>2. edges \in Seq(NodeWeight) /\ u \in V /\ IsWeightedGraph(g) /\ g \in Graphs
  BY DEF KernelInv, KernelType
<1>3. PICK e : e = Head(edges)
  OBVIOUS
<1>4. Tail(edges) \in Seq(NodeWeight) /\ \A f : f \in Elems(edges) <=> f = e \/ f \in Elems(Tail(edges))
  BY <1>2, <1>3, ElemsHeadTail
<1>5. e \in Elems(g.out[u]) /\ e.v \in V /\ e.w \in Nat
  <2>1. e \in Elems(g.out[u])
    BY <1>1, <1>4
  <2>. QED BY <1>2, <2>1, EdgesType
<1>6. current * delta \in Nat /\ dist[u] \in Nat /\ DistInf \in Nat
  BY <1>1, <1>2, StaleIs, KernelNumbers
<1>7. Truncate(dist[u] + e.w) = dist[u] + e.w
  <2>1. DistInf + e.w <= WeightRange \div 2
    BY <1>2, <1>5 DEF ProperInfinity, WeightsFit
  <2>2. WeightRange \div 2 \in Int
    BY HalfRange
  <2>3. dist[u] + e.w \in Nat /\ dist[u] + e.w < WeightRange \div 2
    BY <1>1, <1>5, <1>6, <2>1, <2>2 DEF Reached
  <2>. QED BY <2>3, NoOverflow
<1>. QED BY <1>1, <1>3, <1>4, <1>5, <1>6, <1>7

(* An edge that is no shorter way.                                         *)
LEMMA KeepKernel ==
  ASSUME ProperInfinity, KernelInv, Relax, ~(dist[u] + Head(edges).w < dist[Head(edges).v])
  PROVE  KernelInv'
<1>1. /\ edges # <<>> /\ edges' = Tail(edges)
      /\ UNCHANGED <<g, source, delta, current, idx, u, stage>>
  BY DEF Relax, verifier
<1>2. PICK e : e = Head(edges)
  OBVIOUS
<1>3. /\ stage = "bag" /\ current < Size
      /\ Reached(u) /\ current * delta <= dist[u]
      /\ e \in Elems(g.out[u]) /\ e.v \in V /\ e.w \in Nat
      /\ Truncate(dist[u] + e.w) = dist[u] + e.w
      /\ Tail(edges) \in Seq(NodeWeight)
      /\ \A f : f \in Elems(edges) <=> f = e \/ f \in Elems(Tail(edges))
  BY <1>1, <1>2, EdgeFacts
<1>4. UNCHANGED <<dist, bins, bag>>
  BY <1>2, <1>3 DEF Relax
<1>5. dist[u] \in Nat /\ dist[e.v] \in Nat
  BY <1>3, KernelNumbers DEF KernelInv, KernelType
<1>6. KernelType' /\ BinsHold' /\ PathsInv'
  BY <1>1, <1>3, <1>4 DEF KernelInv, KernelType, BinsHold, PathsInv, Reached, Size
<1>7. LoopInv'
  BY <1>1, <1>3, <1>4 DEF KernelInv, LoopInv, Reached, Returned, Size
<1>8. NothingLost'
  <2>. SUFFICES ASSUME NEW n \in V, dist[n] # DistInf, NEW f \in Elems(g.out[n]),
                       dist[f.v] > dist[n] + f.w
                PROVE  Pending(n) \/ (n = u /\ f \in Elems(Tail(edges)))
    BY <1>1, <1>4 DEF NothingLost, Pending, Bin, Size
  <2>1. Pending(n) \/ (n = u /\ f \in Elems(edges))
    BY DEF KernelInv, NothingLost
  <2>2. ~(n = u /\ f = e)
    BY <1>2, <1>3, <1>5
  <2>. QED BY <1>3, <2>1, <2>2
<1>. QED BY <1>6, <1>7, <1>8 DEF KernelInv

(* A shorter way found.                                                    *)
LEMMA ImproveKernel ==
  ASSUME ProperInfinity, KernelInv, Relax, dist[u] + Head(edges).w < dist[Head(edges).v]
  PROVE  KernelInv'
<1>1. /\ edges # <<>> /\ edges' = Tail(edges)
      /\ UNCHANGED <<g, source, delta, current, idx, u, stage>>
  BY DEF Relax, verifier
<1>2. PICK e : e = Head(edges)
  OBVIOUS
<1>3. /\ stage = "bag" /\ current < Size
      /\ Reached(u) /\ current * delta <= dist[u] /\ current * delta \in Nat
      /\ e \in Elems(g.out[u]) /\ e.v \in V /\ e.w \in Nat
      /\ Truncate(dist[u] + e.w) = dist[u] + e.w
      /\ Tail(edges) \in Seq(NodeWeight)
      /\ \A f : f \in Elems(edges) <=> f = e \/ f \in Elems(Tail(edges))
  BY <1>1, <1>2, EdgeFacts
<1>4. PICK v \in V : v = e.v
  BY <1>3
<1>5. /\ delta \in Nat \ {0} /\ DistInf \in Nat \ {0} /\ Size \in Nat \ {0} /\ current \in Nat
      /\ Len(bag) \in Nat /\ idx \in Nat \ {0} /\ idx <= Len(bag) + 1
      /\ \A n \in V : dist[n] \in Nat
  BY KernelNumbers
<1>6. /\ g \in Graphs /\ IsWeightedGraph(g) /\ source \in V /\ u \in V
      /\ dist \in [V -> Nat] /\ dist[source] = 0 /\ \A n \in V : dist[n] <= DistInf
      /\ bins \in Seq(Seq(V)) /\ bag \in Seq(V)
  BY DEF KernelInv, KernelType
<1>7. PICK new \in Nat : new = dist[u] + e.w
  BY <1>3, <1>5, <1>6
<1>8. new < dist[v] /\ dist[u] <= new /\ v # u /\ new < DistInf
  <2>1. new < dist[v]
    BY <1>2, <1>4, <1>7
  <2>2. dist[u] <= new /\ dist[u] \in Nat /\ dist[v] \in Nat /\ dist[v] <= DistInf
    BY <1>3, <1>5, <1>6, <1>7
  <2>. QED BY <1>5, <2>1, <2>2
<1>9. PICK dest \in Nat : dest = new \div delta
  BY <1>5, DivType
<1>10. dist' = [dist EXCEPT ![v] = new] /\ Insert(dest, v)
  <2>1. dist' = [dist EXCEPT ![Head(edges).v] = Truncate(dist[u] + Head(edges).w)]
        /\ Insert(Truncate(dist[u] + Head(edges).w) \div delta, Head(edges).v)
    BY <1>2, <1>3, <1>4, <1>7, <1>8 DEF Relax
  <2>. QED BY <1>2, <1>3, <1>4, <1>7, <1>9, <2>1
<1>11. /\ dist' \in [V -> Nat] /\ dist'[v] = new /\ \A n \in V : n # v => dist'[n] = dist[n]
       /\ \A n \in V : dist'[n] <= dist[n]
  BY <1>6, <1>8, <1>10
<1>12. /\ bins' \in Seq(Seq(V)) /\ bag' \in Seq(V)
       /\ Size <= Size' /\ dest < Size' /\ (Size' = Size \/ Size' = dest + 1)
       /\ \A b \in 1 .. Size : Elems(bins[b]) \subseteq Elems(bins'[b])
       /\ \A b \in 1 .. Size' : \A m \in Elems(bins'[b]) :
            m = v \/ (b \in 1 .. Size /\ m \in Elems(bins[b]))
       /\ Len(bag) <= Len(bag') /\ \A i \in 1 .. Len(bag) : bag'[i] = bag[i]
       /\ \A m \in Elems(bag') : m = v \/ m \in Elems(bag)
       /\ dest = current => \E i \in Len(bag) + 1 .. Len(bag') : bag'[i] = v
       /\ dest # current => v \in Elems(bins'[dest + 1])
  BY <1>5, <1>6, <1>10, Inserted
<1>13. Size' \in Nat /\ Len(bag') \in Nat
  BY <1>12 DEF Size
<1>14. KernelType'
  <2>1. dist'[source] = 0 /\ \A n \in V : dist'[n] <= DistInf
    BY <1>5, <1>6, <1>8, <1>11
  <2>2. current' \in 0 .. Size' /\ idx' \in 1 .. Len(bag') + 1
    <3>1. /\ Size \in Nat /\ Size' \in Nat /\ Size <= Size' /\ current' = current
          /\ current \in Nat /\ current < Size
      BY <1>1, <1>3, <1>5, <1>12, <1>13
    <3>2. /\ Len(bag) \in Nat /\ Len(bag') \in Nat /\ Len(bag) <= Len(bag') /\ idx' = idx
          /\ idx \in Nat \ {0} /\ idx <= Len(bag) + 1
      BY <1>1, <1>5, <1>12, <1>13
    <3>. QED BY <3>1, <3>2
  <2>. QED BY <1>1, <1>3, <1>6, <1>11, <1>12, <2>1, <2>2 DEF KernelInv, KernelType
<1>15. BinsHold'
  <2>1. (Size' - 1) * delta < DistInf
    <3>1. CASE Size' = Size
      BY <3>1 DEF KernelInv, BinsHold
    <3>2. CASE Size' = dest + 1
      <4>1. Size' - 1 = dest /\ delta * dest <= new /\ delta * dest = dest * delta
        <5>1. delta * (new \div delta) <= new
          BY <1>5, DivType
        <5>. QED BY <1>5, <1>9, <3>2, <5>1
      <4>2. dest * delta \in Nat
        BY <1>5
      <4>. QED BY <1>5, <1>8, <4>1, <4>2
    <3>. QED BY <1>12, <3>1, <3>2
  <2>2. Reached(v)' /\ \A n \in V : Reached(n) => Reached(n)'
    BY <1>5, <1>8, <1>11 DEF Reached
  <2>3. \A b \in 1 .. Size' : \A n \in Elems(bins'[b]) : Reached(n)'
    <3>. SUFFICES ASSUME NEW b \in 1 .. Size', NEW n \in Elems(bins'[b]) PROVE Reached(n)'
      OBVIOUS
    <3>1. CASE n = v
      BY <2>2, <3>1
    <3>2. CASE b \in 1 .. Size /\ n \in Elems(bins[b])
      <4>1. Reached(n)
        BY <3>2 DEF KernelInv, BinsHold
      <4>2. bins[b] \in Seq(V)
        BY <1>6, <3>2 DEF Size
      <4>3. n \in V
        BY <3>2, <4>2, ElemsType
      <4>. QED BY <2>2, <4>1, <4>3
    <3>. QED BY <1>12, <3>1, <3>2
  <2>4. \A n \in Elems(bag') : Reached(n)'
    <3>. SUFFICES ASSUME NEW n \in Elems(bag') PROVE Reached(n)'
      OBVIOUS
    <3>1. CASE n = v
      BY <2>2, <3>1
    <3>2. CASE n \in Elems(bag)
      <4>1. Reached(n) /\ n \in V
        BY <1>6, <3>2, ElemsType DEF KernelInv, BinsHold
      <4>. QED BY <2>2, <4>1
    <3>. QED BY <1>12, <3>1, <3>2
  <2>5. Size' # 0
    BY <1>5, <1>12, <1>13
  <2>. QED BY <1>1, <2>1, <2>3, <2>4, <2>5 DEF BinsHold
<1>16. LoopInv'
  <2>1. dist'[u] = dist[u] /\ Reached(u)'
    <3>1. dist'[u] = dist[u]
      BY <1>6, <1>8, <1>11
    <3>. QED BY <1>1, <1>3, <3>1 DEF Reached
  <2>2. Elems(edges') \subseteq Elems(g.out[u])
    BY <1>1, <1>3 DEF KernelInv, LoopInv
  <2>3. current < Size'
    BY <1>3, <1>5, <1>12, <1>13
  <2>. QED BY <1>1, <1>3, <2>1, <2>2, <2>3 DEF LoopInv, Returned
<1>17. PathsInv'
  <2>. SUFFICES ASSUME NEW n \in V, Reached(n)' PROVE Traced(g, source, dist', n, dist'[n])
    BY <1>1 DEF PathsInv
  <2>1. CASE n = v
    <3>1. Traced(g, source, dist, u, dist[u])
      BY <1>3, <1>6 DEF KernelInv, PathsInv
    <3>2. dist[u] + e.w < dist[e.v] /\ dist'[e.v] <= dist[u] + e.w /\ dist[u] \in Nat
      BY <1>4, <1>5, <1>6, <1>7, <1>8, <1>11
    <3>3. Traced(g, source, dist', e.v, dist[u] + e.w)
      BY <1>3, <1>6, <1>11, <3>1, <3>2, TraceExtends
    <3>. QED BY <1>4, <1>7, <1>11, <2>1, <3>3
  <2>2. CASE n # v
    <3>1. dist'[n] = dist[n] /\ Traced(g, source, dist, n, dist[n])
      BY <1>11, <2>2 DEF KernelInv, PathsInv, Reached
    <3>. QED BY <1>6, <1>11, <3>1, TraceStays
  <2>. QED BY <2>1, <2>2
<1>18. Pending(v)'
  <2>1. current <= dest
    <3>1. current <= dest <=> delta * current <= new
      BY <1>5, <1>9, DivBound
    <3>2. delta * current = current * delta
      BY <1>5
    <3>3. current * delta <= new
      BY <1>3, <1>5, <1>6, <1>8
    <3>. QED BY <3>1, <3>2, <3>3
  <2>2. dest \in current .. Size' - 1 /\ dist'[v] \div delta = dest
    BY <1>5, <1>9, <1>11, <1>12, <1>13, <2>1
  <2>3. CASE dest = current
    <3>1. PICK i \in Len(bag) + 1 .. Len(bag') : bag'[i] = v
      BY <1>12, <2>3
    <3>2. i \in idx .. Len(bag')
      BY <1>5, <1>13
    <3>. QED BY <1>1, <2>2, <3>1, <3>2 DEF Pending
  <2>4. CASE dest # current
    BY <1>1, <1>12, <2>2, <2>4 DEF Pending, Bin
  <2>. QED BY <2>3, <2>4
<1>19. ASSUME NEW n \in V, n # v, Pending(n) PROVE Pending(n)'
  <2>1. PICK b \in Nat : b = dist[n] \div delta
    BY <1>5, DivType
  <2>2. b \in current .. Size - 1 /\ b = dist'[n] \div delta /\ b \in current .. Size' - 1
        /\ b + 1 \in 1 .. Size
    <3>1. b \in current .. Size - 1 /\ b = dist'[n] \div delta
      BY <1>11, <1>19, <2>1 DEF Pending
    <3>2. Size \in Nat /\ Size' \in Nat /\ Size <= Size' /\ current \in Nat
      BY <1>5, <1>12, <1>13
    <3>. QED BY <3>1, <3>2
  <2>3. CASE \E i \in idx .. Len(bag) : bag[i] = n
    <3>1. PICK i \in idx .. Len(bag) : bag[i] = n
      BY <2>3
    <3>2. i \in 1 .. Len(bag) /\ i \in idx .. Len(bag')
      <4>1. i \in Int /\ idx <= i /\ i <= Len(bag) /\ idx \in Nat \ {0}
        BY <1>5
      <4>2. Len(bag) \in Nat /\ Len(bag') \in Nat /\ Len(bag) <= Len(bag')
        BY <1>5, <1>12, <1>13
      <4>. QED BY <4>1, <4>2
    <3>3. bag'[i] = n
      BY <1>12, <3>1, <3>2
    <3>. QED BY <1>1, <2>2, <3>2, <3>3 DEF Pending
  <2>4. CASE n \in Elems(bins[b + 1])
    <3>1. n \in Elems(bins'[b + 1])
      BY <1>12, <2>2, <2>4
    <3>. QED BY <1>1, <2>2, <3>1 DEF Pending, Bin
  <2>. QED BY <1>19, <2>1, <2>3, <2>4 DEF Pending, Bin
<1>20. NothingLost'
  <2>. SUFFICES ASSUME NEW n \in V, n # v, dist'[n] # DistInf, NEW f \in Elems(g.out[n]),
                       dist'[f.v] > dist'[n] + f.w
                PROVE  Pending(n)' \/ (n = u /\ f \in Elems(Tail(edges)))
    BY <1>1, <1>18 DEF NothingLost
  <2>1. f.v \in V /\ f.w \in Nat
    BY <1>6, EdgesType
  <2>2. dist'[n] = dist[n] /\ dist[f.v] > dist[n] + f.w
    BY <1>5, <1>11, <2>1
  <2>3. Pending(n) \/ (n = u /\ f \in Elems(edges))
    BY <2>2 DEF KernelInv, NothingLost
  <2>4. ~(n = u /\ f = e)
    <3>. SUFFICES ASSUME n = u, f = e PROVE FALSE
      OBVIOUS
    <3>1. dist'[v] > dist[u] + e.w
      BY <1>4, <2>2
    <3>. QED BY <1>7, <1>11, <3>1
  <2>. QED BY <1>3, <1>19, <2>3, <2>4
<1>. QED BY <1>14, <1>15, <1>16, <1>17, <1>20 DEF KernelInv

LEMMA KernelStep == ASSUME ProperInfinity, KernelInv, [Next]_vars PROVE KernelInv'
<1>1. CASE SkipEmptyBin
  BY <1>1, SkipKernel
<1>2. CASE TakeBin
  BY <1>2, TakeBinKernel
<1>3. CASE TakeEntry
  BY <1>3, TakeEntryKernel
<1>4. CASE Relax
  BY <1>4, KeepKernel, ImproveKernel
<1>5. CASE EndBag
  BY <1>5, EndBagKernel
<1>6. current \in Nat /\ Size \in Nat /\ current <= Size
  BY KernelNumbers DEF KernelInv, KernelType
<1>7. CASE Return
  <2>1. UNCHANGED <<g, source, delta, kernel>> /\ stage' = "done" /\ stage # "bag" /\ current = Size
    BY <1>6, <1>7 DEF Return
  <2>. QED BY <2>1, QuietKernel
<1>8. CASE StartVerifier \/ Judge
  <2>1. /\ UNCHANGED <<g, source, delta, kernel>> /\ stage \in {"done", "heap"}
        /\ stage' \in {"heap", "accepted", "rejected"}
    BY <1>8 DEF StartVerifier, Judge
  <2>2. current = Size
    BY <2>1 DEF KernelInv, LoopInv, Returned
  <2>. QED BY <2>1, <2>2, QuietKernel
<1>9. CASE PopNearest \/ RelaxFirst \/ UNCHANGED vars
  <2>1. UNCHANGED <<g, source, delta, kernel, stage>>
    BY <1>9 DEF PopNearest, RelaxFirst, vars
  <2>. QED BY <2>1, QuietKernel
<1>. QED BY <1>1, <1>2, <1>3, <1>4, <1>5, <1>7, <1>8, <1>9 DEF Next, Program, Terminated

(* Below the bin being processed no distance can improve another one, and  *)
(* after the last bin none at all.                                         *)
LEMMA NothingSlack ==
  ASSUME ProperInfinity, KernelInv, NEW n \in V, NEW e \in Elems(g.out[n]),
         dist[n] < current * delta \/ Returned
  PROVE  dist[e.v] <= dist[n] + e.w
<1>1. /\ delta \in Nat \ {0} /\ DistInf \in Nat \ {0} /\ Size \in Nat \ {0} /\ current \in Nat
      /\ \A m \in V : dist[m] \in Nat
  BY KernelNumbers
<1>2. e.v \in V /\ e.w \in Nat /\ \A m \in V : dist[m] <= DistInf
  BY EdgesType DEF KernelInv, KernelType
<1>. SUFFICES ASSUME dist[e.v] > dist[n] + e.w PROVE FALSE
  BY <1>1, <1>2
<1>3. dist[n] # DistInf
  BY <1>1, <1>2
<1>4. CASE Pending(n)
  <2>1. current <= dist[n] \div delta /\ dist[n] \div delta <= Size - 1
    BY <1>4 DEF Pending
  <2>2. ~Returned
    BY <1>1, <2>1, DivType DEF KernelInv, LoopInv
  <2>3. delta * current <= dist[n] /\ delta * current = current * delta
    BY <1>1, <2>1, DivBound
  <2>. QED BY <1>1, <2>2, <2>3
<1>5. CASE n = u /\ e \in Elems(edges)
  <2>1. edges # <<>>
    BY <1>5, ElemsEmpty
  <2>2. current * delta <= dist[n] /\ ~Returned
    BY <1>5, <2>1 DEF KernelInv, LoopInv, Returned
  <2>3. current * delta \in Nat
    BY <1>1
  <2>. QED BY <1>1, <2>2, <2>3
<1>. QED BY <1>3, <1>4, <1>5 DEF KernelInv, NothingLost

(* The hypotheses of the lemmas on labels.                                 *)
LEMMA DistLabels ==
  ASSUME ProperInfinity, KernelInv
  PROVE  /\ IsWeightedGraph(g) /\ source \in V /\ dist \in [V -> Nat] /\ DistInf \in Nat
         /\ \A n \in V : Exact[n] <= DistInf /\ dist[n] <= DistInf
         /\ dist[source] = 0
         /\ \A n \in V : dist[n] = DistInf \/ <<n, dist[n]>> \in Walks(g, source)
<1>1. /\ IsWeightedGraph(g) /\ g \in Graphs /\ source \in V /\ dist \in [V -> Nat]
      /\ DistInf \in Nat /\ dist[source] = 0 /\ \A n \in V : dist[n] <= DistInf
  BY InfinityIs DEF KernelInv, KernelType
<1>2. \A n \in V : Exact[n] <= DistInf
  BY <1>1 DEF ProperInfinity, WeightsFit, Exact
<1>3. ASSUME NEW n \in V, dist[n] # DistInf PROVE <<n, dist[n]>> \in Walks(g, source)
  <2>1. Reached(n)
    BY <1>1, <1>3 DEF Reached
  <2>2. Traced(g, source, dist, n, dist[n])
    BY <2>1 DEF KernelInv, PathsInv
  <2>. QED BY <1>1, <2>2, TraceIsWalk
<1>. QED BY <1>1, <1>2, <1>3

LEMMA SettledKernel == ASSUME ProperInfinity, KernelInv PROVE SettledBelowCurrent
<1>. SUFFICES ASSUME NEW n \in V, Exact[n] < current * delta, Exact[n] # DistInf
              PROVE  dist[n] = Exact[n]
  BY DEF SettledBelowCurrent
<1>1. /\ IsWeightedGraph(g) /\ source \in V /\ dist \in [V -> Nat] /\ DistInf \in Nat
      /\ \A m \in V : Exact[m] <= DistInf /\ dist[m] <= DistInf
      /\ dist[source] = 0
      /\ \A m \in V : dist[m] = DistInf \/ <<m, dist[m]>> \in Walks(g, source)
  BY DistLabels
<1>2. PICK bound \in Nat : bound = current * delta
  <2>1. current \in Nat /\ delta \in Nat
    BY KernelNumbers
  <2>. QED BY <2>1
<1>3. \A m \in V : \A e \in Elems(g.out[m]) : dist[m] < bound => dist[e.v] <= dist[m] + e.w
  BY <1>2, NothingSlack
<1>4. Exact[n] < DistInf
  <2>1. PICK x : x = Exact[n]
    OBVIOUS
  <2>2. x = DistInf \/ x \in Nat
    BY <1>1, <2>1, ShortestIs DEF Exact
  <2>. QED BY <1>1, <2>1, <2>2
<1>. QED BY <1>1, <1>2, <1>3, <1>4, SettledLabels DEF Exact

LEMMA ReturnedExact == ASSUME ProperInfinity, KernelInv PROVE DistancesExact
<1>. SUFFICES ASSUME Returned PROVE dist = Exact
  BY DEF DistancesExact
<1>1. \A n \in V : \A e \in Elems(g.out[n]) : dist[n] < DistInf => dist[e.v] <= dist[n] + e.w
  BY NothingSlack
<1>. QED BY <1>1, DistLabels, RelaxedLabelsExact DEF Exact

(* What DeltaStep's loops keep true: the types, the place of every entry,  *)
(* distances that are lengths of walks, and no improvement lost            *)
(* (src/srcc/sssp.c:119-167).                                              *)
THEOREM KernelInvariance == ASSUME ProperInfinity PROVE Spec => []KernelInv
<1>1. Init => KernelInv
  BY InitKernel
<1>2. KernelInv /\ [Next]_vars => KernelInv'
  BY KernelStep
<1>. QED BY <1>1, <1>2, PTL DEF Spec

(***************************************************************************)
(* Heaps.  An entry is a HeapNode pair; index i of the code is i + 1 here. *)
(***************************************************************************)
Entry == [dist : Int, node : V]
IsHeap(h) == h \in Seq(Entry) /\ \A i \in 2 .. Len(h) : h[i \div 2].dist <= h[i].dist

LEMMA Halves ==
  ASSUME NEW i \in Nat, i >= 2
  PROVE  i \div 2 \in Nat /\ 1 <= i \div 2 /\ i \div 2 < i /\ (i = 2 * (i \div 2) \/ i = 2 * (i \div 2) + 1)
OBVIOUS

(* The root is the nearest entry.                                          *)
LEMMA RootIsLeast ==
  ASSUME NEW h, IsHeap(h), NEW i \in 1 .. Len(h)
  PROVE  h[1].dist <= h[i].dist
<1>0. h \in Seq(Entry)
  BY DEF IsHeap
<1>1. Len(h) \in Nat /\ \A j \in 1 .. Len(h) : h[j].dist \in Int
  <2>1. Len(h) \in Nat /\ \A j \in 1 .. Len(h) : h[j] \in Entry
    BY <1>0
  <2>. QED BY <2>1 DEF Entry
<1>. DEFINE T == {j \in 1 .. Len(h) : ~(h[1].dist <= h[j].dist)}
<1>2. ASSUME T # {} PROVE FALSE
  <2>1. T \subseteq Nat
    BY <1>1
  <2>2. PICK j \in T : \A k \in T : j <= k
    BY <1>2, <2>1, LeastNumber
  <2>3. j \in 1 .. Len(h) /\ ~(h[1].dist <= h[j].dist) /\ j \in Nat
    BY <1>1, <2>2
  <2>4. j >= 2 /\ j \in 2 .. Len(h) /\ 1 \in 1 .. Len(h)
    BY <1>1, <2>3
  <2>5. j \div 2 \in 1 .. Len(h) /\ j \div 2 < j /\ h[j \div 2].dist <= h[j].dist
    BY <1>1, <2>3, <2>4, Halves DEF IsHeap
  <2>6. PICK p \in 1 .. Len(h) : p = j \div 2
    BY <2>5
  <2>7. h[p].dist <= h[j].dist /\ p < j /\ p \in Nat /\ p \notin T
    BY <1>1, <2>2, <2>3, <2>5, <2>6
  <2>8. h[1].dist <= h[p].dist /\ h[1].dist \in Int /\ h[p].dist \in Int /\ h[j].dist \in Int
    BY <1>1, <2>3, <2>4, <2>6, <2>7
  <2>. QED BY <2>3, <2>7, <2>8
<1>. QED BY <1>2
-----------------------------------------------------------------------------
(***************************************************************************)
(* Chains: the places an entry passes in a heap.  From i the chain goes on *)
(* to next[i] until it stops, and every step takes it to a lower rank.     *)
(***************************************************************************)
IsChain(D, stop, next, rank) ==
  /\ \A i \in D : rank[i] \in Nat
  /\ \A i \in D : i \notin stop => next[i] \in D /\ rank[next[i]] < rank[i]

(* The chain that starts at each place.                                    *)
IsPath(p, D, stop, next) ==
  p = [i \in D |-> IF i \in stop THEN {i} ELSE {i} \cup p[next[i]]]

LEMMA ChainExists ==
  ASSUME NEW D, NEW stop, NEW next, NEW rank, IsChain(D, stop, next, rank),
         NEW top \in Nat, \A i \in D : rank[i] < top
  PROVE  \E p : IsPath(p, D, stop, next)
<1>. DEFINE F(p) == [i \in D |-> IF i \in stop THEN {i} ELSE {i} \cup p[next[i]]]
            Right(p, m) == \A i \in D : rank[i] < m => p[i] = F(p)[i]
            S == {m \in Nat : \E p : Right(p, m)}
<1>1. 0 \in S
  <2>1. Right(<<>>, 0)
    BY DEF IsChain
  <2>. HIDE DEF Right
  <2>. QED BY <2>1
<1>2. ASSUME NEW m \in S PROVE m + 1 \in S
  <2>1. PICK p : Right(p, m)
    BY <1>2
  <2>2. PICK q : q = F(p)
    OBVIOUS
  <2>3. ASSUME NEW i \in D, rank[i] < m + 1 PROVE q[i] = F(q)[i]
    <3>1. q[i] = IF i \in stop THEN {i} ELSE {i} \cup p[next[i]]
      BY <2>2
    <3>2. CASE i \in stop
      BY <3>1, <3>2
    <3>3. CASE i \notin stop
      <4>1. next[i] \in D /\ rank[next[i]] < rank[i] /\ rank[i] \in Nat /\ rank[next[i]] \in Nat
        BY <3>3 DEF IsChain
      <4>2. rank[next[i]] < m /\ m \in Nat
        BY <2>3, <4>1
      <4>3. p[next[i]] = q[next[i]]
        BY <2>1, <2>2, <4>1, <4>2
      <4>. QED BY <3>1, <3>3, <4>3
    <3>. QED BY <3>2, <3>3
  <2>4. Right(q, m + 1)
    BY <2>3
  <2>. HIDE DEF Right
  <2>. QED BY <2>4
<1>. HIDE DEF Right
<1>3. S = Nat
  <2>1. S \subseteq Nat /\ \A m \in S : m + 1 \in S
    BY <1>2
  <2>. HIDE DEF S
  <2>. QED BY <1>1, <2>1, Induction
<1>4. PICK p : Right(p, top)
  BY <1>3
<1>5. PICK q : q = F(p)
  OBVIOUS
<1>6. \A i \in D : q[i] = p[i]
  BY <1>4, <1>5 DEF Right
<1>7. q = F(q)
  <2>1. \A i \in D : i \notin stop => p[next[i]] = q[next[i]]
    BY <1>6 DEF IsChain
  <2>. QED BY <1>5, <2>1
<1>. QED BY <1>7 DEF IsPath

(* A chain stops at one place, which has the lowest rank, and it comes to  *)
(* every other place but the first from a place before.                    *)
ChainFrom(i, c, stop, next, rank) ==
  /\ i \in c
  /\ \E z \in c : /\ z \in stop
                  /\ \A j \in c : j = z \/ (j \notin stop /\ next[j] \in c /\ rank[z] < rank[j])
  /\ \A j \in c : j = i \/ (rank[j] < rank[i] /\ \E k \in c : k \notin stop /\ next[k] = j)

LEMMA ChainFacts ==
  ASSUME NEW D, NEW stop, NEW next, NEW rank, IsChain(D, stop, next, rank),
         NEW p, \A i \in D : p[i] = IF i \in stop THEN {i} ELSE {i} \cup p[next[i]],
         NEW i \in D
  PROVE  p[i] \subseteq D /\ ChainFrom(i, p[i], stop, next, rank)
<1>. DEFINE Good(j) == p[j] \subseteq D /\ ChainFrom(j, p[j], stop, next, rank)
            S == {m \in Nat : \A j \in D : rank[j] < m => Good(j)}
<1>1. 0 \in S
  BY DEF IsChain
<1>2. ASSUME NEW m \in S PROVE m + 1 \in S
  <2>. SUFFICES ASSUME NEW j \in D, rank[j] < m + 1 PROVE Good(j)
    OBVIOUS
  <2>1. CASE j \in stop
    <3>1. p[j] = {j}
      BY <2>1
    <3>. QED BY <2>1, <3>1 DEF ChainFrom
  <2>2. CASE j \notin stop
    <3>1. PICK n \in D : n = next[j]
      BY <2>2 DEF IsChain
    <3>2. p[j] = {j} \cup p[n]
      BY <2>2, <3>1
    <3>3. rank[n] < rank[j] /\ rank[n] \in Nat /\ rank[j] \in Nat /\ m \in Nat
      BY <2>2, <3>1 DEF IsChain
    <3>4. Good(n)
      BY <3>3
    <3>5. n \in p[n] /\ p[n] \subseteq D
      BY <3>4 DEF ChainFrom
    <3>6. PICK z \in p[n] :
            /\ z \in stop
            /\ \A k \in p[n] : k = z \/ (k \notin stop /\ next[k] \in p[n] /\ rank[z] < rank[k])
      BY <3>4 DEF ChainFrom
    <3>7. \A k \in p[n] : k = n \/ (rank[k] < rank[n] /\ \E l \in p[n] : l \notin stop /\ next[l] = k)
      BY <3>4 DEF ChainFrom
    <3>8. \A k \in p[n] : rank[k] \in Nat /\ rank[k] < rank[j]
      BY <3>3, <3>5, <3>7 DEF IsChain
    <3>9. \A k \in p[j] : k = z \/ (k \notin stop /\ next[k] \in p[j] /\ rank[z] < rank[k])
      <4>. SUFFICES ASSUME NEW k \in p[j]
                    PROVE  k = z \/ (k \notin stop /\ next[k] \in p[j] /\ rank[z] < rank[k])
        OBVIOUS
      <4>1. CASE k = j
        BY <2>2, <3>1, <3>2, <3>5, <3>6, <3>8, <4>1
      <4>2. CASE k \in p[n]
        BY <3>2, <3>6, <4>2
      <4>. QED BY <3>2, <4>1, <4>2
    <3>10. \A k \in p[j] : k = j \/ (rank[k] < rank[j] /\ \E l \in p[j] : l \notin stop /\ next[l] = k)
      <4>. SUFFICES ASSUME NEW k \in p[j], k # j
                    PROVE  rank[k] < rank[j] /\ \E l \in p[j] : l \notin stop /\ next[l] = k
        OBVIOUS
      <4>1. k \in p[n] /\ rank[k] < rank[j]
        BY <3>2, <3>8
      <4>2. CASE k = n
        BY <2>2, <3>1, <3>2, <4>1, <4>2
      <4>3. CASE k # n
        BY <3>2, <3>7, <4>1, <4>3
      <4>. QED BY <4>1, <4>2, <4>3
    <3>. QED BY <3>2, <3>5, <3>6, <3>9, <3>10 DEF ChainFrom
  <2>. QED BY <2>1, <2>2
<1>. HIDE DEF Good
<1>3. S = Nat
  <2>1. S \subseteq Nat /\ \A m \in S : m + 1 \in S
    BY <1>2
  <2>. HIDE DEF S
  <2>. QED BY <1>1, <2>1, Induction
<1>4. rank[i] \in Nat /\ rank[i] + 1 \in S /\ rank[i] < rank[i] + 1
  BY <1>3 DEF IsChain
<1>5. Good(i)
  BY <1>4
<1>. QED BY <1>5 DEF Good

(* The entries of a heap.                                                  *)
LEMMA HeapEntries ==
  ASSUME NEW h \in Seq(Entry)
  PROVE  /\ Len(h) \in Nat /\ DOMAIN h = 1 .. Len(h)
         /\ \A i \in 1 .. Len(h) : h[i] \in Entry /\ h[i].dist \in Int /\ h[i].node \in V
<1>1. Len(h) \in Nat /\ DOMAIN h = 1 .. Len(h) /\ \A i \in 1 .. Len(h) : h[i] \in Entry
  OBVIOUS
<1>. QED BY <1>1 DEF Entry

(* Where an entry that is pushed climbs: to the first ancestor that is not *)
(* farther; top is where it comes to rest.                                 *)
Climbs(h, e, c, top) ==
  /\ c \subseteq 1 .. Len(h) + 1 /\ Len(h) + 1 \in c
  /\ top \in c /\ (top = 1 \/ h[top \div 2].dist <= e.dist)
  /\ \A j \in c : j = top \/ (/\ top < j /\ j # 1 /\ j \div 2 \in c
                              /\ ~(h[j \div 2].dist <= e.dist))
  /\ \A j \in c : j = Len(h) + 1 \/ (/\ j < Len(h) + 1
                                     /\ \E k \in c : k # 1 /\ k \div 2 = j /\ k # top)

LEMMA PushClimbs ==
  ASSUME NEW h \in Seq(Entry), NEW e \in Entry
  PROVE  \E c, top : /\ Climbs(h, e, c, top)
                     /\ HeapPush(h, e) = [i \in 1 .. Len(h) + 1 |->
                                            IF i \notin c THEN h[i]
                                            ELSE IF i = top THEN e ELSE h[i \div 2]]
<1>. DEFINE last == Len(h) + 1
            D == 1 .. last
            stop == {i \in D : i = 1 \/ h[i \div 2].dist <= e.dist}
            next == [i \in D |-> i \div 2]
            rank == [i \in D |-> i]
            w == CHOOSE w : w = [i \in 1 .. last |->
                                   IF i = 1 \/ h[i \div 2].dist <= e.dist THEN {i}
                                   ELSE {i} \cup w[i \div 2]]
            c == w[last]
<1>1. last \in Nat \ {0} /\ last \in D /\ D \subseteq Nat
  BY HeapEntries
<1>2. IsChain(D, stop, next, rank) /\ \A i \in D : rank[i] < last + 1
  <2>1. ASSUME NEW i \in D, i \notin stop PROVE next[i] \in D /\ rank[next[i]] < rank[i]
    <3>1. i \in Nat /\ i >= 2 /\ i <= last
      BY <1>1, <2>1
    <3>2. i \div 2 \in D /\ i \div 2 < i
      BY <1>1, <3>1, Halves
    <3>. QED BY <3>2
  <2>2. \A i \in D : rank[i] \in Nat
    BY <1>1
  <2>3. IsChain(D, stop, next, rank)
    <3>. HIDE DEF D, stop, next, rank
    <3>. QED BY <2>1, <2>2 DEF IsChain
  <2>. QED BY <1>1, <2>3
<1>3. PICK p : IsPath(p, D, stop, next)
  <2>1. PICK most \in Nat : most = last + 1
    BY <1>1
  <2>2. \A i \in D : rank[i] < most
    BY <1>2, <2>1
  <2>. HIDE DEF D, stop, next, rank, last, w, c
  <2>3. IsChain(D, stop, next, rank)
    BY <1>2
  <2>. QED BY <2>2, <2>3, ChainExists
<1>4. p = [i \in D |-> IF i \in stop THEN {i} ELSE {i} \cup p[next[i]]]
  BY <1>3 DEF IsPath
<1>5. p = [i \in 1 .. last |-> IF i = 1 \/ h[i \div 2].dist <= e.dist THEN {i}
                               ELSE {i} \cup p[i \div 2]]
  <2>1. \A i \in D : (i \in stop <=> i = 1 \/ h[i \div 2].dist <= e.dist) /\ next[i] = i \div 2
    OBVIOUS
  <2>. HIDE DEF stop, next
  <2>. QED BY <1>4, <2>1
<1>6. w = [i \in 1 .. last |-> IF i = 1 \/ h[i \div 2].dist <= e.dist THEN {i}
                               ELSE {i} \cup w[i \div 2]]
  BY <1>5, Zenon
<1>7. HeapPush(h, e) = [i \in 1 .. last |->
                          IF i \notin c THEN h[i] ELSE IF i = Min(c) THEN e ELSE h[i \div 2]]
  BY Zenon DEF HeapPush
<1>. HIDE DEF w
<1>8. \A i \in D : w[i] = IF i \in stop THEN {i} ELSE {i} \cup w[next[i]]
  <2>1. \A i \in D : (i \in stop <=> i = 1 \/ h[i \div 2].dist <= e.dist) /\ next[i] = i \div 2
    OBVIOUS
  <2>. HIDE DEF stop, next
  <2>. QED BY <1>6, <2>1
<1>9. c \subseteq D /\ ChainFrom(last, c, stop, next, rank)
  <2>. HIDE DEF D, stop, next, rank, last
  <2>. QED BY <1>1, <1>2, <1>8, ChainFacts
<1>. HIDE DEF c
<1>10. PICK z \in c :
         /\ z \in stop
         /\ \A j \in c : j = z \/ (j \notin stop /\ next[j] \in c /\ rank[z] < rank[j])
  BY <1>9 DEF ChainFrom
<1>11. Min(c) = z
  <2>1. \A j \in c : j \in Nat /\ rank[j] = j
    BY <1>1, <1>9
  <2>2. c \subseteq Nat /\ \A j \in c : z <= j
    <3>. SUFFICES ASSUME NEW j \in c PROVE z <= j
      BY <2>1
    <3>1. j = z \/ z < j
      BY <1>10, <2>1
    <3>2. j \in Nat /\ z \in Nat
      BY <1>10, <2>1
    <3>. HIDE DEF rank
    <3>. QED BY <3>1, <3>2
  <2>. HIDE DEF rank
  <2>. QED BY <1>10, <2>2, LeastIs, Zenon DEF Min
<1>12. \A j \in D : (j \in stop <=> j = 1 \/ h[j \div 2].dist <= e.dist)
                    /\ next[j] = j \div 2 /\ rank[j] = j
  OBVIOUS
<1>. HIDE DEF stop, next, rank
<1>13. last \in c /\ \A j \in c : j = last \/ (rank[j] < rank[last] /\ \E k \in c : k \notin stop /\ next[k] = j)
  BY <1>9 DEF ChainFrom
<1>14. Climbs(h, e, c, z)
  <2>1. z = 1 \/ h[z \div 2].dist <= e.dist
    BY <1>9, <1>10, <1>12
  <2>2. \A j \in c : j = z \/ (z < j /\ j # 1 /\ j \div 2 \in c /\ ~(h[j \div 2].dist <= e.dist))
    BY <1>9, <1>10, <1>12
  <2>3. \A j \in c : j = last \/ (j < last /\ \E k \in c : k # 1 /\ k \div 2 = j /\ k # z)
    <3>. SUFFICES ASSUME NEW j \in c, j # last
                  PROVE  j < last /\ \E k \in c : k # 1 /\ k \div 2 = j /\ k # z
      OBVIOUS
    <3>1. rank[j] < rank[last] /\ j \in D /\ last \in D
      BY <1>9, <1>13
    <3>2. PICK k \in c : k \notin stop /\ next[k] = j
      BY <1>13
    <3>3. k \in D /\ k # z
      BY <1>9, <1>10, <3>2
    <3>4. k # 1 /\ k \div 2 = j
      BY <1>12, <3>2, <3>3
    <3>. QED BY <1>12, <3>1, <3>3, <3>4
  <2>. QED BY <1>9, <1>10, <1>13, <2>1, <2>2, <2>3 DEF Climbs
<1>. QED BY <1>7, <1>11, <1>14

(* Pushing an entry leaves a heap with one entry more.                     *)
LEMMA HeapPushed ==
  ASSUME NEW h, IsHeap(h), NEW e \in Entry
  PROVE  /\ IsHeap(HeapPush(h, e)) /\ HeapPush(h, e) # <<>>
         /\ \A x : x \in Elems(HeapPush(h, e)) <=> x \in Elems(h) \/ x = e
<1>. DEFINE last == Len(h) + 1
<1>1. h \in Seq(Entry) /\ \A i \in 2 .. Len(h) : h[i \div 2].dist <= h[i].dist
  BY DEF IsHeap
<1>2. /\ Len(h) \in Nat /\ DOMAIN h = 1 .. Len(h)
      /\ \A i \in 1 .. Len(h) : h[i] \in Entry /\ h[i].dist \in Int
  BY <1>1, HeapEntries
<1>3. PICK c, top : /\ Climbs(h, e, c, top)
                    /\ HeapPush(h, e) = [i \in 1 .. last |->
                                           IF i \notin c THEN h[i]
                                           ELSE IF i = top THEN e ELSE h[i \div 2]]
  BY <1>1, PushClimbs
<1>4. PICK r : r = HeapPush(h, e)
  OBVIOUS
<1>5. /\ c \subseteq 1 .. last /\ last \in c
      /\ top \in c /\ (top = 1 \/ h[top \div 2].dist <= e.dist)
      /\ \A j \in c : j = top \/ (/\ top < j /\ j # 1 /\ j \div 2 \in c
                                  /\ ~(h[j \div 2].dist <= e.dist))
      /\ \A j \in c : j = last \/ (j < last /\ \E k \in c : k # 1 /\ k \div 2 = j /\ k # top)
  BY <1>3 DEF Climbs
<1>6. last \in Nat \ {0} /\ last = Len(h) + 1 /\ e.dist \in Int
  BY <1>2 DEF Entry
<1>. HIDE DEF last
<1>7. \A i \in 2 .. last : i \div 2 \in 1 .. Len(h) /\ i \div 2 < i /\ i \div 2 \in Nat
  BY <1>2, <1>6, Halves
<1>8. \A i \in 1 .. last : i \notin c => i \in 1 .. Len(h)
  BY <1>2, <1>5, <1>6
<1>9. /\ \A i \in 1 .. last : i \notin c => r[i] = h[i]
      /\ r[top] = e
      /\ \A i \in c : i # top => r[i] = h[i \div 2] /\ i \div 2 \in c /\ i \in 2 .. last
                                 /\ ~(h[i \div 2].dist <= e.dist) /\ top < i
  <2>1. r[top] = e
    BY <1>3, <1>4, <1>5
  <2>2. \A i \in c : i # top => i \in 2 .. last
    BY <1>5, <1>6
  <2>. QED BY <1>3, <1>4, <1>5, <2>1, <2>2
<1>10. r \in Seq(Entry) /\ Len(r) = last /\ r # <<>>
  <2>1. \A i \in 1 .. last : r[i] \in Entry
    <3>. SUFFICES ASSUME NEW i \in 1 .. last PROVE r[i] \in Entry
      OBVIOUS
    <3>1. CASE i \notin c
      BY <1>2, <1>8, <1>9, <3>1
    <3>2. CASE i = top
      BY <1>9, <3>2
    <3>3. CASE i \in c /\ i # top
      <4>1. r[i] = h[i \div 2] /\ i \in 2 .. last
        BY <1>9, <3>3
      <4>. QED BY <1>2, <1>7, <4>1
    <3>. QED BY <3>1, <3>2, <3>3
  <2>2. r \in [1 .. last -> Entry]
    BY <1>3, <1>4, <2>1
  <2>. HIDE DEF Entry
  <2>3. r \in Seq(Entry) /\ Len(r) = last
    BY <1>6, <2>2
  <2>. QED BY <1>6, <2>3
<1>11. ASSUME NEW i \in 2 .. last PROVE r[i \div 2].dist <= r[i].dist
  <2>1. PICK p \in 1 .. Len(h) : p = i \div 2
    BY <1>7
  <2>2. p < i /\ p \in Nat /\ p \in 1 .. last /\ (p # 1 => p \in 2 .. Len(h)) /\ i \in 1 .. last
    BY <1>2, <1>6, <1>7, <2>1
  <2>3. /\ i \in 1 .. Len(h) => h[p].dist <= h[i].dist /\ h[i].dist \in Int
        /\ h[p].dist \in Int
    <3>1. i \in 1 .. Len(h) => i \in 2 .. Len(h)
      BY <1>2
    <3>. QED BY <1>1, <1>2, <2>1, <3>1
  <2>4. /\ i \notin c => r[i] = h[i] /\ i \in 1 .. Len(h)
        /\ i \in c /\ i # top => r[i] = h[p] /\ p \in c /\ ~(h[p].dist <= e.dist)
        /\ i = top => r[i] = e /\ h[p].dist <= e.dist /\ p \notin c
    <3>1. i = top => h[p].dist <= e.dist
      BY <1>5, <2>1
    <3>2. i = top => p \notin c
      BY <1>5, <2>2
    <3>. QED BY <1>8, <1>9, <2>1, <2>2, <3>1, <3>2
  <2>5. PICK gp : gp = p \div 2
    OBVIOUS
  <2>6. p \in c /\ p # top => /\ r[p] = h[gp] /\ h[gp].dist <= h[p].dist /\ h[gp].dist \in Int
    <3>. SUFFICES ASSUME p \in c, p # top
                  PROVE  r[p] = h[gp] /\ h[gp].dist <= h[p].dist /\ h[gp].dist \in Int
      OBVIOUS
    <3>1. r[p] = h[gp] /\ p \in 2 .. last /\ p \in 2 .. Len(h)
      BY <1>9, <2>2, <2>5
    <3>2. gp \in 1 .. Len(h)
      BY <1>7, <2>5, <3>1
    <3>. QED BY <1>1, <1>2, <2>5, <3>1, <3>2
  <2>7. p = top => r[p] = e
    BY <1>9
  <2>8. p \notin c => r[p] = h[p]
    BY <1>9, <2>2
  <2>9. CASE i \notin c
    <3>1. r[i] = h[i] /\ h[p].dist <= h[i].dist /\ h[i].dist \in Int
      BY <2>3, <2>4, <2>9
    <3>2. CASE p = top
      <4>1. i # last /\ i \in 2 .. last
        BY <1>5, <2>9
      <4>2. top # last
        BY <1>6, <2>2, <3>2, <4>1
      <4>3. PICK k \in c : k # 1 /\ k \div 2 = top /\ k # top
        BY <1>5, <4>2
      <4>4. ~(h[p].dist <= e.dist)
        BY <1>9, <3>2, <4>3
      <4>. QED BY <1>6, <2>1, <2>3, <2>7, <3>1, <3>2, <4>4
    <3>3. CASE p # top /\ p \in c
      BY <2>1, <2>3, <2>6, <3>1, <3>3
    <3>4. CASE p \notin c
      BY <2>1, <2>8, <3>1, <3>4
    <3>. QED BY <3>2, <3>3, <3>4
  <2>10. CASE i = top
    BY <2>1, <2>4, <2>8, <2>10
  <2>11. CASE i \in c /\ i # top
    <3>1. r[i] = h[p] /\ p \in c /\ ~(h[p].dist <= e.dist)
      BY <2>4, <2>11
    <3>. QED BY <1>6, <2>1, <2>3, <2>6, <2>7, <3>1
  <2>. QED BY <2>9, <2>10, <2>11
<1>12. ASSUME NEW x \in Elems(r) PROVE x \in Elems(h) \/ x = e
  <2>1. PICK i \in 1 .. last : x = r[i]
    BY <1>10 DEF Elems
  <2>2. x = e \/ \E j \in 1 .. Len(h) : x = h[j]
    <3>1. CASE i \notin c
      BY <1>8, <1>9, <2>1, <3>1
    <3>2. CASE i = top
      BY <1>9, <2>1, <3>2
    <3>3. CASE i \in c /\ i # top
      BY <1>7, <1>9, <2>1, <3>3
    <3>. QED BY <3>1, <3>2, <3>3
  <2>. QED BY <1>2, <2>2 DEF Elems
<1>13. ASSUME NEW x, x \in Elems(h) \/ x = e PROVE x \in Elems(r)
  <2>1. \E i \in 1 .. last : r[i] = x
    <3>1. CASE x = e
      BY <1>5, <1>9, <3>1
    <3>2. CASE x \in Elems(h)
      <4>1. PICK j \in 1 .. Len(h) : x = h[j]
        BY <1>2, <3>2 DEF Elems
      <4>2. j \in 1 .. last /\ j # last
        BY <1>2, <1>6
      <4>3. CASE j \notin c
        BY <1>9, <4>1, <4>2, <4>3
      <4>4. CASE j \in c
        <5>1. PICK k \in c : k # 1 /\ k \div 2 = j /\ k # top
          BY <1>5, <4>2, <4>4
        <5>. QED BY <1>5, <1>9, <4>1, <5>1
      <4>. QED BY <4>3, <4>4
    <3>. QED BY <1>13, <3>1, <3>2
  <2>2. DOMAIN r = 1 .. last
    BY <1>10
  <2>. QED BY <2>1, <2>2 DEF Elems
<1>14. IsHeap(r)
  BY <1>10, <1>11 DEF IsHeap
<1>15. \A x : x \in Elems(r) <=> x \in Elems(h) \/ x = e
  BY <1>12, <1>13
<1>. QED BY <1>4, <1>10, <1>14, <1>15

(* A least value among some, or among those and one more.                  *)
LEMMA LeastWithOneMore ==
  ASSUME NEW D, NEW f \in [D -> Int], NEW S, S \subseteq D, NEW x,
         \E j \in S : \A k \in S : f[j] <= f[k]
  PROVE  \E j \in S \cup ({x} \cap D) : \A k \in S \cup ({x} \cap D) : f[j] <= f[k]
<1>1. PICK j \in S : \A k \in S : f[j] <= f[k]
  OBVIOUS
<1>2. j \in D /\ f[j] \in Int /\ \A k \in S : f[k] \in Int
  OBVIOUS
<1>3. CASE x \notin D \/ f[j] <= f[x]
  BY <1>1, <1>3
<1>4. CASE x \in D /\ ~(f[j] <= f[x])
  <2>1. f[x] \in Int /\ x \in S \cup ({x} \cap D)
    BY <1>4
  <2>2. \A k \in S \cup ({x} \cap D) : f[x] <= f[k]
    <3>. SUFFICES ASSUME NEW k \in S \cup ({x} \cap D) PROVE f[x] <= f[k]
      OBVIOUS
    <3>1. CASE k \in S
      BY <1>1, <1>2, <1>4, <2>1, <3>1
    <3>2. CASE k = x
      BY <2>1, <3>2
    <3>. QED BY <3>1, <3>2
  <2>. QED BY <2>1, <2>2
<1>. QED BY <1>3, <1>4

(* What Smallest chooses: the entry that sinks, if none of its children is *)
(* nearer, or else the nearest of them.                                    *)
LEMMA SmallestIs ==
  ASSUME NEW h \in Seq(Entry), NEW i \in 1 .. Len(h), NEW e \in Entry
  PROVE  LET s == Smallest(h, i, e) IN
           /\ s \in 1 .. Len(h) /\ (s = i \/ s = 2 * i \/ s = 2 * i + 1)
           /\ s = i => \A j \in 1 .. Len(h) : j = 2 * i \/ j = 2 * i + 1 => e.dist <= h[j].dist
           /\ s # i => /\ h[s].dist <= e.dist
                       /\ \A j \in 1 .. Len(h) :
                            j = 2 * i \/ j = 2 * i + 1 => h[s].dist <= h[j].dist
<1>. DEFINE Dist(j) == IF j = i THEN e.dist ELSE h[j].dist
            here == {i, 2 * i, 2 * i + 1} \cap (1 .. Len(h))
            T == {j \in here : \A k \in here : Dist(j) <= Dist(k)}
            N == {Dist(j) : j \in here}
<1>1. /\ Len(h) \in Nat /\ e.dist \in Int /\ i \in Nat /\ 1 <= i /\ i <= Len(h)
      /\ \A j \in 1 .. Len(h) : h[j].dist \in Int
  <2>1. Len(h) \in Nat /\ \A j \in 1 .. Len(h) : h[j].dist \in Int
    BY HeapEntries
  <2>2. e.dist \in Int
    BY DEF Entry
  <2>. QED BY <2>1, <2>2
<1>2. \A j \in 1 .. Len(h) : Dist(j) \in Int
  BY <1>1
<1>3. T # {}
  <2>. DEFINE f == [j \in 1 .. Len(h) |-> Dist(j)]
              S1 == {i} \cup ({2 * i} \cap (1 .. Len(h)))
              S2 == S1 \cup ({2 * i + 1} \cap (1 .. Len(h)))
  <2>1. f \in [1 .. Len(h) -> Int] /\ {i} \subseteq 1 .. Len(h)
    BY <1>1, <1>2
  <2>2. \A j \in 1 .. Len(h) : f[j] = Dist(j)
    OBVIOUS
  <2>. HIDE DEF f, Dist
  <2>3. \E j \in S1 : \A k \in S1 : f[j] <= f[k]
    <3>1. \E j \in {i} : \A k \in {i} : f[j] <= f[k]
      BY <2>1
    <3>2. PICK x : x = 2 * i
      OBVIOUS
    <3>. QED BY <2>1, <3>1, <3>2, LeastWithOneMore
  <2>4. S1 \subseteq 1 .. Len(h)
    BY <2>1
  <2>5. \E j \in S2 : \A k \in S2 : f[j] <= f[k]
    <3>1. PICK x, D : x = 2 * i + 1 /\ D = 1 .. Len(h)
      OBVIOUS
    <3>2. f \in [D -> Int] /\ S1 \subseteq D
      BY <2>1, <2>4, <3>1
    <3>. HIDE DEF S1
    <3>3. \E j \in S1 \cup ({x} \cap D) : \A k \in S1 \cup ({x} \cap D) : f[j] <= f[k]
      BY <2>3, <3>2, LeastWithOneMore
    <3>. QED BY <3>1, <3>3
  <2>6. S2 = here
    BY <1>1
  <2>7. here \subseteq 1 .. Len(h)
    OBVIOUS
  <2>8. \E j \in here : \A k \in here : Dist(j) <= Dist(k)
    <3>. HIDE DEF S2, here
    <3>. QED BY <2>2, <2>5, <2>6, <2>7
  <2>. QED BY <2>8
<1>4. PICK s : s = Smallest(h, i, e)
  OBVIOUS
<1>5. s = CHOOSE x \in T : \A y \in T : x <= y
  BY <1>4, Zenon DEF Smallest, Min
<1>6. T \subseteq Nat
  BY <1>1
<1>. HIDE DEF T
<1>7. PICK x \in T : \A y \in T : x <= y
  BY <1>3, <1>6, LeastNumber
<1>8. s = x
  BY <1>5, <1>6, <1>7, LeastIs
<1>9. s \in here /\ \A k \in here : Dist(s) <= Dist(k)
  BY <1>8 DEF T
<1>10. s \in 1 .. Len(h) /\ (s = i \/ s = 2 * i \/ s = 2 * i + 1)
  BY <1>9
<1>11. /\ \A j \in 1 .. Len(h) : j = 2 * i \/ j = 2 * i + 1 => j \in here /\ j # i
       /\ i \in here
  BY <1>1
<1>12. \A j \in 1 .. Len(h) : j # i => Dist(j) = h[j].dist
  OBVIOUS
<1>13. Dist(i) = e.dist
  OBVIOUS
<1>. HIDE DEF here, Dist
<1>14. s = i => \A j \in 1 .. Len(h) : j = 2 * i \/ j = 2 * i + 1 => e.dist <= h[j].dist
  BY <1>9, <1>11, <1>12, <1>13
<1>15. s # i => /\ h[s].dist <= e.dist
                /\ \A j \in 1 .. Len(h) : j = 2 * i \/ j = 2 * i + 1 => h[s].dist <= h[j].dist
  BY <1>9, <1>10, <1>11, <1>12, <1>13
<1>. QED BY <1>4, <1>10, <1>14, <1>15

(* Where the last entry sinks from the root: to the first place whose      *)
(* children are not nearer; bottom is where it comes to rest.              *)
Sinks(h, e, c, bottom) ==
  /\ c \subseteq 1 .. Len(h) /\ 1 \in c
  /\ bottom \in c /\ Smallest(h, bottom, e) = bottom
  /\ \A j \in c : j = bottom \/ (Smallest(h, j, e) # j /\ Smallest(h, j, e) \in c)
  /\ \A j \in c : j = 1 \/ \E k \in c : k # bottom /\ k # j /\ Smallest(h, k, e) = j

LEMMA PopSinks ==
  ASSUME NEW h \in Seq(Entry), Front(h) # <<>>, Front(h) \in Seq(Entry), Last(h) \in Entry
  PROVE  \E c, bottom :
           /\ Sinks(Front(h), Last(h), c, bottom)
           /\ HeapPop(h) = [i \in 1 .. Len(Front(h)) |->
                              IF i \notin c THEN Front(h)[i]
                              ELSE IF i = bottom THEN Last(h)
                              ELSE Front(h)[Smallest(Front(h), i, Last(h))]]
<1>. DEFINE e == Last(h)
            rest == Front(h)
            D == DOMAIN rest
            stop == {i \in D : Smallest(rest, i, e) = i}
            next == [i \in D |-> Smallest(rest, i, e)]
            rank == [i \in D |-> Len(rest) - i]
            w == CHOOSE w : w = [i \in DOMAIN rest |->
                                   IF Smallest(rest, i, e) = i THEN {i}
                                   ELSE {i} \cup w[Smallest(rest, i, e)]]
            c == w[1]
<1>1. rest \in Seq(Entry) /\ Len(rest) \in Nat /\ D = 1 .. Len(rest) /\ 1 \in D /\ e \in Entry
  BY HeapEntries
<1>2. HeapPop(h) = [i \in DOMAIN rest |->
                      IF i \notin c THEN rest[i]
                      ELSE IF i = Max(c) THEN e ELSE rest[Smallest(rest, i, e)]]
  BY Zenon DEF HeapPop
<1>. HIDE DEF w, c
<1>3. \A j \in D : (j \in stop <=> Smallest(rest, j, e) = j)
                   /\ next[j] = Smallest(rest, j, e) /\ rank[j] = Len(rest) - j
  OBVIOUS
<1>. HIDE DEF rest, e, stop, next, rank
<1>4. \A i \in D : i \in Nat /\ i <= Len(rest)
  BY <1>1
<1>5. IsChain(D, stop, next, rank) /\ \A i \in D : rank[i] < Len(rest)
  <2>1. ASSUME NEW i \in D, i \notin stop PROVE next[i] \in D /\ rank[next[i]] < rank[i]
    <3>1. PICK s : s = next[i]
      OBVIOUS
    <3>2. i \in 1 .. Len(rest) /\ s = Smallest(rest, i, e) /\ s # i
      BY <1>1, <1>3, <2>1, <3>1
    <3>3. s \in 1 .. Len(rest) /\ (s = 2 * i \/ s = 2 * i + 1)
      BY <1>1, <3>2, SmallestIs
    <3>4. s \in D /\ i < s /\ s \in Nat /\ i \in Nat
      BY <1>1, <1>4, <2>1, <3>3
    <3>. QED BY <1>1, <1>3, <2>1, <3>1, <3>4
  <2>2. \A i \in D : rank[i] \in Nat /\ rank[i] < Len(rest)
    BY <1>1, <1>3
  <2>. QED BY <2>1, <2>2 DEF IsChain
<1>. HIDE DEF D
<1>6. PICK p : IsPath(p, D, stop, next)
  <2>1. PICK most \in Nat : most = Len(rest)
    BY <1>1
  <2>2. IsChain(D, stop, next, rank)
    BY <1>5
  <2>3. \A i \in D : rank[i] < most
    BY <1>5, <2>1
  <2>. QED BY <2>2, <2>3, ChainExists
<1>7. p = [i \in DOMAIN rest |-> IF Smallest(rest, i, e) = i THEN {i}
                                 ELSE {i} \cup p[Smallest(rest, i, e)]]
  BY <1>3, <1>6 DEF D, IsPath
<1>8. w = [i \in DOMAIN rest |-> IF Smallest(rest, i, e) = i THEN {i}
                                 ELSE {i} \cup w[Smallest(rest, i, e)]]
  BY <1>7, Zenon DEF w
<1>9. \A i \in D : w[i] = IF i \in stop THEN {i} ELSE {i} \cup w[next[i]]
  BY <1>3, <1>8 DEF D
<1>10. c \subseteq D /\ ChainFrom(1, c, stop, next, rank)
  <2>1. w[1] \subseteq D /\ ChainFrom(1, w[1], stop, next, rank)
    BY <1>1, <1>5, <1>9, ChainFacts
  <2>. QED BY <2>1 DEF c
<1>11. PICK z \in c :
         /\ z \in stop
         /\ \A j \in c : j = z \/ (j \notin stop /\ next[j] \in c /\ rank[z] < rank[j])
  BY <1>10 DEF ChainFrom
<1>12. Max(c) = z
  <2>1. \A j \in c : j \in Nat /\ j <= z
    <3>. SUFFICES ASSUME NEW j \in c PROVE j \in Nat /\ j <= z
      OBVIOUS
    <3>1. j \in Nat /\ z \in Nat /\ rank[j] = Len(rest) - j /\ rank[z] = Len(rest) - z
      BY <1>3, <1>4, <1>10, <1>11
    <3>2. j = z \/ rank[z] < rank[j]
      BY <1>11
    <3>. QED BY <1>1, <3>1, <3>2
  <2>2. PICK m : m = Max(c)
    OBVIOUS
  <2>3. m \in c /\ \A j \in c : m >= j
    <3>1. \E x \in c : \A y \in c : x >= y
      <4>1. \A j \in c : z >= j
        BY <1>11, <2>1
      <4>. QED BY <1>11, <4>1
    <3>. QED BY <2>2, <3>1, Zenon DEF Max
  <2>. QED BY <1>11, <2>1, <2>2, <2>3
<1>13. \A j \in c : j = 1 \/ \E k \in c : k \notin stop /\ next[k] = j
  BY <1>10 DEF ChainFrom
<1>14. Sinks(rest, e, c, z)
  <2>1. c \subseteq 1 .. Len(rest) /\ 1 \in c /\ Smallest(rest, z, e) = z
    BY <1>1, <1>3, <1>10, <1>11 DEF ChainFrom
  <2>2. \A j \in c : j = z \/ (Smallest(rest, j, e) # j /\ Smallest(rest, j, e) \in c)
    BY <1>3, <1>10, <1>11
  <2>3. \A j \in c : j = 1 \/ \E k \in c : k # z /\ k # j /\ Smallest(rest, k, e) = j
    <3>. SUFFICES ASSUME NEW j \in c, j # 1
                  PROVE  \E k \in c : k # z /\ k # j /\ Smallest(rest, k, e) = j
      OBVIOUS
    <3>1. PICK k \in c : k \notin stop /\ next[k] = j
      BY <1>13
    <3>2. k \in D /\ k # z
      BY <1>10, <1>11, <3>1
    <3>3. Smallest(rest, k, e) = j /\ Smallest(rest, k, e) # k
      BY <1>3, <3>1, <3>2
    <3>. QED BY <3>2, <3>3
  <2>. QED BY <1>11, <2>1, <2>2, <2>3 DEF Sinks
<1>15. HeapPop(h) = [i \in 1 .. Len(rest) |->
                       IF i \notin c THEN rest[i]
                       ELSE IF i = z THEN e ELSE rest[Smallest(rest, i, e)]]
  BY <1>1, <1>2, <1>12 DEF D
<1>. QED BY <1>14, <1>15 DEF rest, e

(* Popping leaves a heap of the entries that are not the root.             *)
LEMMA HeapPopped ==
  ASSUME NEW h, IsHeap(h), h # <<>>
  PROVE  /\ IsHeap(HeapPop(h))
         /\ \A x \in Elems(HeapPop(h)) : x \in Elems(h)
         /\ \A x \in Elems(h) : x = h[1] \/ x \in Elems(HeapPop(h))
<1>1. h \in Seq(Entry) /\ \A i \in 2 .. Len(h) : h[i \div 2].dist <= h[i].dist
  BY DEF IsHeap
<1>2. /\ Len(h) \in Nat \ {0} /\ DOMAIN h = 1 .. Len(h)
      /\ \A i \in 1 .. Len(h) : h[i] \in Entry /\ h[i].dist \in Int
  BY <1>1, HeapEntries
<1>3. PICK n \in Nat : n = Len(h) - 1
  BY <1>2
<1>4. PICK q, e : q = Front(h) /\ e = Last(h)
  OBVIOUS
<1>5. e = h[n + 1] /\ n + 1 = Len(h) /\ n + 1 \in 1 .. Len(h) /\ e \in Entry /\ e.dist \in Int
  BY <1>2, <1>3, <1>4 DEF Last
<1>6. q \in Seq(Entry) /\ Len(q) = n /\ \A i \in 1 .. n : q[i] = h[i]
  BY <1>1, <1>2, <1>3, <1>4 DEF Front
<1>7. PICK r : r = HeapPop(h)
  OBVIOUS
<1>8. CASE q = <<>>
  <2>1. n = 0 /\ r = <<>>
    BY <1>4, <1>6, <1>7, <1>8, Zenon DEF HeapPop
  <2>2. IsHeap(r)
    BY <2>1 DEF IsHeap
  <2>3. \A x \in Elems(h) : x = h[1]
    <3>1. PICK l : l = Len(h)
      OBVIOUS
    <3>2. l \in Nat /\ DOMAIN h = 1 .. l
      BY <1>2, <3>1
    <3>3. l = 1
      BY <1>3, <2>1, <3>1, <3>2
    <3>4. \A i \in DOMAIN h : i = 1
      BY <3>2, <3>3
    <3>. QED BY <3>4 DEF Elems
  <2>4. Elems(r) = {}
    BY <2>1, ElemsEmpty
  <2>5. IsHeap(HeapPop(h)) /\ Elems(HeapPop(h)) = {}
    BY <1>7, <2>2, <2>4
  <2>. QED BY <2>3, <2>5
<1>9. CASE q # <<>>
  <2>1. PICK c, bottom :
          /\ Sinks(q, e, c, bottom)
          /\ r = [i \in 1 .. n |-> IF i \notin c THEN q[i]
                                   ELSE IF i = bottom THEN e ELSE q[Smallest(q, i, e)]]
    <3>1. PICK c, bottom :
            /\ Sinks(Front(h), Last(h), c, bottom)
            /\ HeapPop(h) = [i \in 1 .. Len(Front(h)) |->
                               IF i \notin c THEN Front(h)[i]
                               ELSE IF i = bottom THEN Last(h)
                               ELSE Front(h)[Smallest(Front(h), i, Last(h))]]
      BY <1>1, <1>4, <1>5, <1>6, <1>9, PopSinks
    <3>2. Sinks(q, e, c, bottom)
      BY <1>4, <3>1
    <3>3. r = [i \in 1 .. n |-> IF i \notin c THEN q[i]
                               ELSE IF i = bottom THEN e ELSE q[Smallest(q, i, e)]]
      BY <1>4, <1>6, <1>7, <3>1, Zenon
    <3>. QED BY <3>2, <3>3
  <2>2. /\ c \subseteq 1 .. n /\ 1 \in c
        /\ bottom \in c /\ Smallest(q, bottom, e) = bottom
        /\ \A j \in c : j = bottom \/ (Smallest(q, j, e) # j /\ Smallest(q, j, e) \in c)
        /\ \A j \in c : j = 1 \/ \E k \in c : k # bottom /\ k # j /\ Smallest(q, k, e) = j
    BY <1>6, <2>1 DEF Sinks
  <2>3. \A i \in 1 .. n : i \in Nat /\ i \in 1 .. Len(h) /\ q[i] \in Entry /\ q[i].dist \in Int
    BY <1>2, <1>3, <1>6
  <2>4. \A i \in 1 .. n : LET s == Smallest(q, i, e) IN
          /\ s \in 1 .. n /\ (s = i \/ s = 2 * i \/ s = 2 * i + 1)
          /\ s = i => \A j \in 1 .. n : j = 2 * i \/ j = 2 * i + 1 => e.dist <= q[j].dist
          /\ s # i => /\ q[s].dist <= e.dist
                      /\ \A j \in 1 .. n : j = 2 * i \/ j = 2 * i + 1 => q[s].dist <= q[j].dist
    <3>. SUFFICES ASSUME NEW i \in 1 .. Len(q)
                  PROVE  LET s == Smallest(q, i, e) IN
                           /\ s \in 1 .. Len(q) /\ (s = i \/ s = 2 * i \/ s = 2 * i + 1)
                           /\ s = i => \A j \in 1 .. Len(q) :
                                         j = 2 * i \/ j = 2 * i + 1 => e.dist <= q[j].dist
                           /\ s # i => /\ q[s].dist <= e.dist
                                       /\ \A j \in 1 .. Len(q) :
                                            j = 2 * i \/ j = 2 * i + 1 => q[s].dist <= q[j].dist
      BY <1>6
    <3>. HIDE DEF Entry
    <3>. QED BY <1>5, <1>6, SmallestIs
  <2>5. /\ \A i \in 1 .. n : i \notin c => r[i] = q[i]
        /\ r[bottom] = e
        /\ \A i \in c : i # bottom => r[i] = q[Smallest(q, i, e)]
    BY <2>1, <2>2
  <2>6. r \in Seq(Entry) /\ Len(r) = n
    <3>1. \A i \in 1 .. n : r[i] \in Entry
      <4>. SUFFICES ASSUME NEW i \in 1 .. n PROVE r[i] \in Entry
        OBVIOUS
      <4>1. CASE i \notin c
        BY <2>3, <2>5, <4>1
      <4>2. CASE i = bottom
        BY <1>5, <2>5, <4>2
      <4>3. CASE i \in c /\ i # bottom
        BY <2>3, <2>4, <2>5, <4>3
      <4>. QED BY <4>1, <4>2, <4>3
    <3>2. r \in [1 .. n -> Entry]
      BY <2>1, <3>1
    <3>. HIDE DEF Entry
    <3>. QED BY <1>3, <3>2
  <2>7. ASSUME NEW i \in 2 .. n PROVE r[i \div 2].dist <= r[i].dist
    <3>1. PICK p \in 1 .. n : p = i \div 2 /\ p < i /\ p \in Nat /\ (i = 2 * p \/ i = 2 * p + 1)
      <4>1. i \in Nat /\ i >= 2 /\ i <= n
        BY <1>3
      <4>. QED BY <1>3, <4>1, Halves
    <3>2. PICK s : s = Smallest(q, p, e)
      OBVIOUS
    <3>3. PICK t : t = Smallest(q, i, e)
      OBVIOUS
    <3>4. i \in 1 .. n /\ i # p
      BY <1>3, <3>1
    <3>5. q[p].dist <= q[i].dist /\ q[p].dist \in Int /\ q[i].dist \in Int
      <4>1. i \in 2 .. Len(h)
        BY <1>3, <1>5
      <4>2. h[p].dist <= h[i].dist
        BY <1>1, <3>1, <4>1
      <4>. QED BY <1>6, <2>3, <3>1, <3>4, <4>2
    <3>6. CASE p \notin c
      <4>1. i \notin c
        <5>. SUFFICES ASSUME i \in c PROVE FALSE
          OBVIOUS
        <5>1. PICK k \in c : k # i /\ Smallest(q, k, e) = i
          BY <1>3, <2>2
        <5>2. k \in Nat /\ (i = 2 * k \/ i = 2 * k + 1)
          BY <2>2, <2>3, <2>4, <5>1
        <5>3. k = p
          BY <3>1, <5>2
        <5>. QED BY <3>6, <5>3
      <4>. QED BY <2>5, <3>1, <3>4, <3>5, <3>6, <4>1
    <3>7. CASE p = bottom
      <4>1. s = p /\ r[p] = e
        BY <2>2, <2>5, <3>2, <3>7
      <4>2. i \notin c
        <5>. SUFFICES ASSUME i \in c PROVE FALSE
          OBVIOUS
        <5>1. PICK k \in c : k # bottom /\ k # i /\ Smallest(q, k, e) = i
          BY <1>3, <2>2
        <5>2. k \in Nat /\ (i = 2 * k \/ i = 2 * k + 1)
          BY <2>2, <2>3, <2>4, <5>1
        <5>3. k = p
          BY <3>1, <5>2
        <5>. QED BY <3>7, <5>1, <5>3
      <4>3. r[i] = q[i] /\ e.dist <= q[i].dist
        BY <2>4, <2>5, <3>1, <3>2, <3>4, <4>1, <4>2
      <4>. QED BY <3>1, <4>1, <4>3
    <3>8. CASE p \in c /\ p # bottom
      <4>1. /\ r[p] = q[s] /\ s # p /\ s \in c /\ s \in 1 .. n
            /\ q[s].dist <= e.dist /\ q[s].dist <= q[i].dist
        <5>1. r[p] = q[s] /\ s # p /\ s \in c
          BY <2>2, <2>5, <3>2, <3>8
        <5>. QED BY <2>4, <3>1, <3>2, <3>4, <5>1
      <4>2. CASE i \notin c
        BY <2>5, <3>1, <3>4, <4>1, <4>2
      <4>3. CASE i = bottom
        BY <2>5, <3>1, <4>1, <4>3
      <4>4. CASE i \in c /\ i # bottom
        <5>1. r[i] = q[t] /\ t # i
          BY <2>2, <2>5, <3>3, <4>4
        <5>2. t \in 1 .. n /\ (t = 2 * i \/ t = 2 * i + 1)
          BY <2>4, <3>3, <3>4, <5>1
        <5>3. t \in Nat /\ t >= 2 /\ t \div 2 = i /\ t \in 2 .. Len(h)
          <6>1. t \in Nat /\ i \in Nat /\ i >= 1 /\ t <= n
            BY <1>3, <2>3, <3>4, <5>2
          <6>2. t \div 2 = i /\ t >= 2
            BY <5>2, <6>1
          <6>. QED BY <1>3, <1>5, <6>1, <6>2
        <5>4. q[i].dist <= q[t].dist /\ q[t].dist \in Int
          BY <1>1, <1>6, <2>3, <3>4, <5>2, <5>3
        <5>. QED BY <2>3, <3>1, <3>5, <4>1, <5>1, <5>4
      <4>. QED BY <4>2, <4>3, <4>4
    <3>. QED BY <3>6, <3>7, <3>8
  <2>8. IsHeap(r)
    BY <2>6, <2>7 DEF IsHeap
  <2>9. ASSUME NEW x \in Elems(r) PROVE x \in Elems(h)
    <3>1. PICK i \in 1 .. n : x = r[i]
      BY <2>6 DEF Elems
    <3>2. \E j \in 1 .. Len(h) : x = h[j]
      <4>1. CASE i \notin c
        BY <1>6, <2>3, <2>5, <3>1, <4>1
      <4>2. CASE i = bottom
        BY <1>5, <2>5, <3>1, <4>2
      <4>3. CASE i \in c /\ i # bottom
        <5>1. PICK s \in 1 .. n : s = Smallest(q, i, e)
          BY <2>4
        <5>. QED BY <1>6, <2>3, <2>5, <3>1, <4>3, <5>1
      <4>. QED BY <4>1, <4>2, <4>3
    <3>. QED BY <1>2, <3>2 DEF Elems
  <2>10. ASSUME NEW x \in Elems(h), x # h[1] PROVE x \in Elems(r)
    <3>1. PICK j \in 1 .. Len(h) : x = h[j]
      BY <1>2 DEF Elems
    <3>2. j # 1
      BY <2>10, <3>1
    <3>3. \E i \in 1 .. n : r[i] = x
      <4>1. CASE j = n + 1
        BY <1>5, <2>2, <2>5, <3>1, <4>1
      <4>2. CASE j # n + 1
        <5>1. j \in 1 .. n /\ x = q[j]
          BY <1>3, <1>5, <1>6, <3>1, <4>2
        <5>2. CASE j \notin c
          BY <2>5, <5>1, <5>2
        <5>3. CASE j \in c
          <6>1. PICK k \in c : k # bottom /\ Smallest(q, k, e) = j
            BY <2>2, <3>2, <5>3
          <6>. QED BY <2>2, <2>5, <5>1, <6>1
        <5>. QED BY <5>2, <5>3
      <4>. QED BY <4>1, <4>2
    <3>4. DOMAIN r = 1 .. n
      BY <2>6
    <3>. QED BY <3>3, <3>4 DEF Elems
  <2>. QED BY <1>7, <2>8, <2>9, <2>10
<1>. QED BY <1>8, <1>9
-----------------------------------------------------------------------------
(***************************************************************************)
(* The invariant of the verifier: its labels are the lengths of paths, its *)
(* heap holds entries no nearer than the one taken last, and an edge that  *)
(* would still shorten a way has the entry of its vertex in the heap or is *)
(* among those being relaxed.                                              *)
(***************************************************************************)
Labelled(n) == oracle[n] < DistInf

OracleInv ==
  /\ oracle \in [V -> Nat] /\ \A n \in V : oracle[n] <= DistInf
  /\ \A n \in V : Labelled(n) => Traced(g, source, oracle, n, oracle[n])

HeapInv ==
  /\ IsHeap(heap)
  /\ \A x \in Elems(heap) : /\ x \in Entry /\ x.dist \in Nat /\ x.dist < DistInf
                            /\ hn.dist <= x.dist /\ oracle[x.node] <= x.dist
  /\ hn \in Entry /\ hn.dist \in Nat /\ hn.dist < DistInf

EdgesInv ==
  /\ nbrs \in Seq(NodeWeight)
  /\ nbrs # <<>> => /\ stage = "heap" /\ oracle[hn.node] = hn.dist
                    /\ Elems(nbrs) \subseteq Elems(g.out[hn.node])

Waiting(n) == HeapNode(oracle[n], n) \in Elems(heap)
NothingSkipped ==
  \A n \in V : \A e \in Elems(g.out[n]) :
    Labelled(n) /\ oracle[n] + e.w < oracle[e.v] =>
      Waiting(n) \/ (n = hn.node /\ oracle[n] = hn.dist /\ e \in Elems(nbrs))

StagesInv ==
  /\ stage \in {"bins", "bag", "done"} =>
       /\ oracle = [n \in V |-> DistInf] /\ heap = <<>>
       /\ hn = HeapNode(0, source)
  /\ stage \in {"heap", "accepted", "rejected"} => oracle[source] = 0
  /\ Judged => heap = <<>> /\ nbrs = <<>> /\ (stage = "accepted" <=> oracle = dist)

VerifierInv == OracleInv /\ HeapInv /\ EdgesInv /\ NothingSkipped /\ StagesInv

LEMMA InitVerifier == ASSUME ProperInfinity, Init PROVE VerifierInv
<1>1. /\ source \in V /\ oracle = [n \in V |-> DistInf] /\ heap = <<>>
      /\ hn = HeapNode(0, source) /\ nbrs = <<>> /\ stage = "bins"
  BY DEF Init
<1>2. DistInf \in Nat /\ 0 < DistInf
  BY InfinityIs
<1>3. OracleInv /\ NothingSkipped
  BY <1>1, <1>2 DEF OracleInv, Labelled, NothingSkipped
<1>4. HeapInv
  <2>1. hn \in Entry /\ hn.dist = 0
    BY <1>1 DEF HeapNode, Entry
  <2>2. IsHeap(heap)
    BY <1>1 DEF IsHeap
  <2>. QED BY <1>1, <1>2, <2>1, <2>2, ElemsEmpty DEF HeapInv
<1>5. EdgesInv /\ StagesInv
  BY <1>1 DEF EdgesInv, StagesInv, Judged
<1>. QED BY <1>3, <1>4, <1>5 DEF VerifierInv

(* Entries and their parts.                                                *)
LEMMA NodeIs ==
  ASSUME NEW d \in Int, NEW n \in V
  PROVE  HeapNode(d, n) \in Entry /\ HeapNode(d, n).dist = d /\ HeapNode(d, n).node = n
BY DEF HeapNode, Entry

LEMMA EntryIs ==
  ASSUME NEW x \in Entry
  PROVE  x = HeapNode(x.dist, x.node) /\ x.node \in V
BY DEF HeapNode, Entry

(* The steps of the kernel leave the verifier where it starts.             *)
LEMMA QuietVerifier ==
  ASSUME VerifierInv, UNCHANGED <<g, source, verifier>>,
         \/ stage \in {"bins", "bag"} /\ stage' \in {"bins", "bag", "done"}
         \/ stage' = stage /\ dist' = dist
  PROVE  VerifierInv'
<1>1. UNCHANGED <<g, source, oracle, heap, hn, nbrs>>
  BY DEF verifier
<1>2. OracleInv' /\ HeapInv' /\ NothingSkipped'
  BY <1>1 DEF VerifierInv, OracleInv, Labelled, HeapInv, NothingSkipped, Waiting
<1>3. EdgesInv' /\ StagesInv'
  BY <1>1 DEF VerifierInv, EdgesInv, StagesInv, Judged
<1>. QED BY <1>2, <1>3 DEF VerifierInv

LEMMA StartVerifierInv ==
  ASSUME ProperInfinity, KernelInv, VerifierInv, StartVerifier
  PROVE  VerifierInv'
<1>. DEFINE e == HeapNode(0, source)
<1>1. /\ stage = "done" /\ oracle' = [oracle EXCEPT ![source] = 0]
      /\ heap' = HeapPush(<<>>, e) /\ stage' = "heap"
      /\ UNCHANGED <<g, source, hn, nbrs>>
  BY DEF StartVerifier
<1>2. /\ oracle = [n \in V |-> DistInf] /\ heap = <<>> /\ hn = e /\ nbrs = <<>>
      /\ source \in V /\ DistInf \in Nat \ {0} /\ nbrs' \in Seq(NodeWeight)
  BY <1>1, InfinityIs DEF VerifierInv, StagesInv, EdgesInv, KernelInv, KernelType
<1>3. /\ oracle' \in [V -> Nat] /\ oracle'[source] = 0
      /\ \A n \in V : n # source => oracle'[n] = DistInf
  BY <1>1, <1>2
<1>4. e \in Entry /\ e.dist = 0 /\ e.node = source
  BY <1>2, NodeIs
<1>. HIDE DEF e
<1>5. IsHeap(heap') /\ \A x : x \in Elems(heap') <=> x = e
  <2>1. IsHeap(<<>>)
    BY DEF IsHeap
  <2>. QED BY <1>1, <1>4, <2>1, HeapPushed, ElemsEmpty
<1>6. OracleInv'
  <2>1. Traced(g, source, oracle', source, 0)
    BY <1>2, <1>3, TraceStart
  <2>. QED BY <1>1, <1>2, <1>3, <2>1 DEF OracleInv, Labelled
<1>7. HeapInv'
  BY <1>1, <1>2, <1>3, <1>4, <1>5 DEF HeapInv
<1>8. EdgesInv'
  BY <1>1, <1>2 DEF EdgesInv
<1>9. NothingSkipped'
  <2>. SUFFICES ASSUME NEW n \in V, Labelled(n)' PROVE Waiting(n)'
    BY DEF NothingSkipped
  <2>1. n = source /\ oracle'[n] = 0
    BY <1>2, <1>3 DEF Labelled
  <2>. QED BY <1>5, <2>1 DEF Waiting, e
<1>10. StagesInv'
  BY <1>1, <1>3 DEF StagesInv, Judged
<1>. QED BY <1>6, <1>7, <1>8, <1>9, <1>10 DEF VerifierInv

LEMMA PopInv ==
  ASSUME ProperInfinity, KernelInv, VerifierInv, PopNearest
  PROVE  VerifierInv'
<1>1. PICK x : x = heap[1]
  OBVIOUS
<1>2. /\ stage = "heap" /\ nbrs = <<>> /\ heap # <<>> /\ hn' = x
      /\ nbrs' = IF x.dist # oracle[x.node] THEN <<>> ELSE g.out[x.node]
      /\ heap' = HeapPop(heap)
      /\ UNCHANGED <<g, source, dist, oracle, stage>>
  BY <1>1 DEF PopNearest, IsOutdated, kernel
<1>3. IsHeap(heap) /\ IsWeightedGraph(g)
  BY DEF VerifierInv, HeapInv, KernelInv, KernelType
<1>4. heap \in Seq(Entry) /\ Len(heap) \in Nat \ {0} /\ DOMAIN heap = 1 .. Len(heap)
      /\ 1 \in 1 .. Len(heap)
  BY <1>2, <1>3, HeapEntries DEF IsHeap
<1>5. x \in Elems(heap)
  BY <1>1, <1>4 DEF Elems
<1>6. /\ x \in Entry /\ x.dist \in Nat /\ x.dist < DistInf /\ x.node \in V
      /\ x = HeapNode(x.dist, x.node)
  BY <1>5, EntryIs DEF VerifierInv, HeapInv
<1>7. \A y \in Elems(heap) : x.dist <= y.dist
  <2>. SUFFICES ASSUME NEW y \in Elems(heap) PROVE x.dist <= y.dist
    OBVIOUS
  <2>1. PICK i \in 1 .. Len(heap) : y = heap[i]
    BY <1>4 DEF Elems
  <2>2. heap[1].dist <= heap[i].dist
    BY <1>3, RootIsLeast
  <2>. QED BY <1>1, <2>1, <2>2
<1>8. /\ IsHeap(heap')
      /\ \A y \in Elems(heap') : y \in Elems(heap)
      /\ \A y \in Elems(heap) : y = x \/ y \in Elems(heap')
  BY <1>1, <1>2, <1>3, HeapPopped
<1>9. OracleInv' /\ StagesInv'
  BY <1>2 DEF VerifierInv, OracleInv, Labelled, StagesInv, Judged
<1>10. HeapInv'
  BY <1>2, <1>6, <1>7, <1>8 DEF VerifierInv, HeapInv
<1>11. EdgesInv'
  <2>1. g.out[x.node] \in Seq(NodeWeight)
    BY <1>3, <1>6, EdgesType
  <2>. QED BY <1>2, <2>1 DEF EdgesInv
<1>12. NothingSkipped'
  <2>. SUFFICES ASSUME NEW n \in V, NEW e \in Elems(g.out[n]), Labelled(n),
                       oracle[n] + e.w < oracle[e.v]
                PROVE  Waiting(n)' \/ (n = x.node /\ oracle[n] = x.dist /\ e \in Elems(nbrs'))
    BY <1>2 DEF NothingSkipped, Labelled
  <2>1. HeapNode(oracle[n], n) \in Elems(heap)
    BY <1>2, ElemsEmpty DEF VerifierInv, NothingSkipped, Waiting
  <2>2. CASE HeapNode(oracle[n], n) = x
    <3>1. n = x.node /\ oracle[n] = x.dist
      BY <2>2 DEF HeapNode
    <3>. QED BY <1>2, <3>1
  <2>3. CASE HeapNode(oracle[n], n) # x
    BY <1>2, <1>8, <2>1, <2>3 DEF Waiting
  <2>. QED BY <2>2, <2>3
<1>. QED BY <1>9, <1>10, <1>11, <1>12 DEF VerifierInv

LEMMA RelaxFirstInv ==
  ASSUME ProperInfinity, KernelInv, VerifierInv, RelaxFirst
  PROVE  VerifierInv'
<1>1. /\ stage = "heap" /\ nbrs # <<>> /\ nbrs' = Tail(nbrs)
      /\ UNCHANGED <<g, source, dist, hn, stage>>
  BY DEF RelaxFirst, kernel
<1>2. PICK e : e = Head(nbrs)
  OBVIOUS
<1>3. /\ g \in Graphs /\ IsWeightedGraph(g) /\ source \in V /\ DistInf \in Nat
      /\ oracle \in [V -> Nat] /\ \A n \in V : oracle[n] <= DistInf
      /\ IsHeap(heap) /\ hn \in Entry /\ hn.dist \in Nat /\ hn.dist < DistInf
      /\ nbrs \in Seq(NodeWeight) /\ oracle[hn.node] = hn.dist
      /\ Elems(nbrs) \subseteq Elems(g.out[hn.node]) /\ oracle[source] = 0
  BY <1>1, InfinityIs DEF KernelInv, KernelType, VerifierInv, OracleInv, HeapInv, EdgesInv, StagesInv
<1>4. Tail(nbrs) \in Seq(NodeWeight) /\ \A f : f \in Elems(nbrs) <=> f = e \/ f \in Elems(Tail(nbrs))
  BY <1>1, <1>2, <1>3, ElemsHeadTail
<1>5. PICK c \in V : c = hn.node
  BY <1>3, EntryIs
<1>6. e \in Elems(g.out[c]) /\ e.v \in V /\ e.w \in Nat
  <2>1. e \in Elems(g.out[c])
    BY <1>3, <1>4, <1>5
  <2>. QED BY <1>3, <2>1, EdgesType
<1>7. PICK v \in V : v = e.v
  BY <1>6
<1>8. PICK new \in Nat : new = hn.dist + e.w
  BY <1>3, <1>6
<1>9. Truncate(new) = new
  <2>1. DistInf + e.w <= WeightRange \div 2
    BY <1>3, <1>5, <1>6 DEF ProperInfinity, WeightsFit
  <2>2. WeightRange \div 2 \in Int
    BY HalfRange
  <2>3. new < WeightRange \div 2
    BY <1>3, <1>6, <1>8, <2>1, <2>2
  <2>. QED BY <2>3, NoOverflow
<1>10. EdgesInv'
  <2>1. oracle'[hn.node] = hn.dist
    <3>1. ~(new < oracle[c])
      BY <1>3, <1>5, <1>6, <1>8
    <3>2. CASE new < oracle[v]
      <4>1. oracle' = [oracle EXCEPT ![v] = new] /\ v # c
        BY <1>2, <1>7, <1>8, <1>9, <3>1, <3>2 DEF RelaxFirst
      <4>. QED BY <1>3, <1>5, <4>1
    <3>3. CASE ~(new < oracle[v])
      BY <1>2, <1>3, <1>7, <1>8, <1>9, <3>3 DEF RelaxFirst
    <3>. QED BY <3>2, <3>3
  <2>. QED BY <1>1, <1>3, <1>4, <2>1 DEF EdgesInv
<1>11. CASE ~(new < oracle[v])
  <2>1. oracle' = oracle /\ heap' = heap
    BY <1>2, <1>7, <1>8, <1>9, <1>11 DEF RelaxFirst
  <2>2. OracleInv' /\ HeapInv' /\ StagesInv'
    BY <1>1, <2>1 DEF VerifierInv, OracleInv, Labelled, HeapInv, StagesInv, Judged
  <2>3. NothingSkipped'
    <3>. SUFFICES ASSUME NEW n \in V, NEW f \in Elems(g.out[n]), Labelled(n),
                         oracle[n] + f.w < oracle[f.v]
                  PROVE  Waiting(n) \/ (n = hn.node /\ oracle[n] = hn.dist /\ f \in Elems(Tail(nbrs)))
      BY <1>1, <2>1 DEF NothingSkipped, Labelled, Waiting
    <3>1. Waiting(n) \/ (n = hn.node /\ oracle[n] = hn.dist /\ f \in Elems(nbrs))
      BY DEF VerifierInv, NothingSkipped
    <3>2. ~(oracle[n] = hn.dist /\ f = e)
      BY <1>7, <1>8, <1>11
    <3>. QED BY <1>4, <3>1, <3>2
  <2>. QED BY <1>10, <2>2, <2>3 DEF VerifierInv
<1>12. CASE new < oracle[v]
  <2>. DEFINE x == HeapNode(new, v)
  <2>1. oracle' = [oracle EXCEPT ![v] = new] /\ heap' = HeapPush(heap, x)
    BY <1>2, <1>7, <1>8, <1>9, <1>12 DEF RelaxFirst
  <2>2. x \in Entry /\ x.dist = new /\ x.node = v
    BY NodeIs
  <2>3. IsHeap(heap') /\ \A y : y \in Elems(heap') <=> y \in Elems(heap) \/ y = x
    <3>. HIDE DEF x
    <3>. QED BY <1>3, <2>1, <2>2, HeapPushed
  <2>4. /\ oracle' \in [V -> Nat] /\ oracle'[v] = new
        /\ \A n \in V : n # v => oracle'[n] = oracle[n]
        /\ \A n \in V : oracle'[n] <= oracle[n]
    BY <1>3, <1>12, <2>1
  <2>5. hn.dist <= new /\ new < DistInf
    BY <1>3, <1>6, <1>8, <1>12
  <2>6. OracleInv'
    <3>1. \A n \in V : oracle'[n] <= DistInf
      BY <1>3, <2>4
    <3>2. ASSUME NEW n \in V, Labelled(n)' PROVE Traced(g, source, oracle', n, oracle'[n])
      <4>1. CASE n = v
        <5>1. Labelled(c) /\ oracle[c] = hn.dist /\ oracle[c] \in Nat
          BY <1>3, <1>5 DEF Labelled
        <5>2. Traced(g, source, oracle, c, oracle[c])
          BY <5>1 DEF VerifierInv, OracleInv
        <5>3. oracle[c] + e.w < oracle[e.v] /\ oracle'[e.v] <= oracle[c] + e.w
          BY <1>7, <1>8, <1>12, <2>4, <5>1
        <5>4. Traced(g, source, oracle', e.v, oracle[c] + e.w)
          BY <1>3, <1>6, <2>4, <5>1, <5>2, <5>3, TraceExtends
        <5>. QED BY <1>7, <1>8, <2>4, <4>1, <5>1, <5>4
      <4>2. CASE n # v
        <5>1. oracle'[n] = oracle[n] /\ Traced(g, source, oracle, n, oracle[n])
          BY <2>4, <3>2, <4>2 DEF VerifierInv, OracleInv, Labelled
        <5>. QED BY <1>3, <2>4, <5>1, TraceStays
      <4>. QED BY <4>1, <4>2
    <3>. QED BY <1>1, <2>4, <3>1, <3>2 DEF OracleInv
  <2>7. HeapInv'
    <3>1. ASSUME NEW y \in Elems(heap')
          PROVE  /\ y \in Entry /\ y.dist \in Nat /\ y.dist < DistInf
                 /\ hn.dist <= y.dist /\ oracle'[y.node] <= y.dist
      <4>1. CASE y = x
        BY <2>2, <2>4, <2>5, <4>1
      <4>2. CASE y \in Elems(heap)
        <5>1. /\ y \in Entry /\ y.dist \in Nat /\ y.dist < DistInf
              /\ hn.dist <= y.dist /\ oracle[y.node] <= y.dist
          BY <4>2 DEF VerifierInv, HeapInv
        <5>2. PICK m \in V : m = y.node
          BY <5>1, EntryIs
        <5>3. oracle'[m] <= y.dist
          BY <1>3, <2>4, <5>1, <5>2
        <5>. QED BY <5>1, <5>2, <5>3
      <4>. QED BY <2>3, <4>1, <4>2
    <3>. QED BY <1>1, <1>3, <2>3, <3>1 DEF HeapInv
  <2>8. StagesInv'
    <3>1. oracle'[source] = 0
      BY <1>3, <2>4
    <3>. QED BY <1>1, <3>1 DEF StagesInv, Judged
  <2>9. NothingSkipped'
    <3>. SUFFICES ASSUME NEW n \in V, NEW f \in Elems(g.out[n]), Labelled(n)',
                         oracle'[n] + f.w < oracle'[f.v]
                  PROVE  \/ HeapNode(oracle'[n], n) \in Elems(heap')
                         \/ n = hn.node /\ oracle'[n] = hn.dist /\ f \in Elems(Tail(nbrs))
      BY <1>1 DEF NothingSkipped, Waiting
    <3>1. CASE n = v
      BY <2>3, <2>4, <3>1
    <3>2. CASE n # v
      <4>1. f.v \in V /\ f.w \in Nat
        BY <1>3, EdgesType
      <4>2. oracle'[n] = oracle[n] /\ oracle[n] + f.w < oracle[f.v] /\ Labelled(n)
        BY <1>3, <2>4, <3>2, <4>1 DEF Labelled
      <4>3. Waiting(n) \/ (n = hn.node /\ oracle[n] = hn.dist /\ f \in Elems(nbrs))
        BY <4>2 DEF VerifierInv, NothingSkipped
      <4>4. ~(oracle[n] = hn.dist /\ f = e)
        <5>. SUFFICES ASSUME oracle[n] = hn.dist, f = e PROVE FALSE
          OBVIOUS
        <5>1. new < oracle'[v]
          BY <1>7, <1>8, <4>2
        <5>. QED BY <2>4, <5>1
      <4>. QED BY <1>4, <2>3, <4>2, <4>3, <4>4 DEF Waiting
    <3>. QED BY <3>1, <3>2
  <2>. QED BY <1>10, <2>6, <2>7, <2>8, <2>9 DEF VerifierInv
<1>. QED BY <1>11, <1>12

LEMMA JudgeInv ==
  ASSUME ProperInfinity, KernelInv, VerifierInv, Judge
  PROVE  VerifierInv'
<1>1. /\ stage = "heap" /\ nbrs = <<>> /\ heap = <<>>
      /\ stage' = IF oracle = dist THEN "accepted" ELSE "rejected"
      /\ UNCHANGED <<g, source, dist, oracle, heap, hn, nbrs>>
  BY DEF Judge, kernel, verifier
<1>2. OracleInv' /\ HeapInv' /\ NothingSkipped'
  BY <1>1 DEF VerifierInv, OracleInv, Labelled, HeapInv, NothingSkipped, Waiting
<1>3. EdgesInv' /\ StagesInv'
  <2>1. stage' \in {"accepted", "rejected"} /\ (stage' = "accepted" <=> oracle = dist)
    BY <1>1
  <2>. QED BY <1>1, <2>1 DEF VerifierInv, EdgesInv, StagesInv, Judged
<1>. QED BY <1>2, <1>3 DEF VerifierInv

LEMMA VerifierStep ==
  ASSUME ProperInfinity, KernelInv, VerifierInv, [Next]_vars
  PROVE  VerifierInv'
<1>1. CASE SkipEmptyBin \/ TakeBin \/ TakeEntry \/ Relax \/ EndBag \/ Return
  <2>1. UNCHANGED <<g, source, verifier>>
        /\ stage \in {"bins", "bag"} /\ stage' \in {"bins", "bag", "done"}
    BY <1>1 DEF SkipEmptyBin, TakeBin, TakeEntry, Relax, EndBag, Return
  <2>. QED BY <2>1, QuietVerifier
<1>2. CASE StartVerifier
  BY <1>2, StartVerifierInv
<1>3. CASE PopNearest
  BY <1>3, PopInv
<1>4. CASE RelaxFirst
  BY <1>4, RelaxFirstInv
<1>5. CASE Judge
  BY <1>5, JudgeInv
<1>6. CASE UNCHANGED vars
  <2>1. UNCHANGED <<g, source, verifier, stage, dist>>
    BY <1>6 DEF vars, kernel
  <2>. QED BY <2>1, QuietVerifier
<1>. QED BY <1>1, <1>2, <1>3, <1>4, <1>5, <1>6 DEF Next, Program, Terminated

(* Nothing nearer than the entry taken last can improve a way, and nothing *)
(* at all when the heap is empty.                                          *)
LEMMA NothingNearer ==
  ASSUME ProperInfinity, KernelInv, VerifierInv, NEW n \in V, NEW e \in Elems(g.out[n]),
         oracle[n] < hn.dist \/ (oracle[n] < DistInf /\ heap = <<>> /\ nbrs = <<>>)
  PROVE  oracle[e.v] <= oracle[n] + e.w
<1>1. /\ IsWeightedGraph(g) /\ oracle \in [V -> Nat] /\ hn.dist \in Nat /\ hn.dist < DistInf
      /\ DistInf \in Nat
  BY InfinityIs DEF KernelInv, KernelType, VerifierInv, OracleInv, HeapInv
<1>2. e.v \in V /\ e.w \in Nat /\ oracle[n] \in Nat /\ oracle[e.v] \in Nat
  <2>1. e.v \in V /\ e.w \in Nat
    BY <1>1, EdgesType
  <2>. QED BY <1>1, <2>1
<1>. SUFFICES ASSUME oracle[n] + e.w < oracle[e.v] PROVE FALSE
  BY <1>2
<1>3. Labelled(n)
  BY <1>1, <1>2 DEF Labelled
<1>4. CASE Waiting(n)
  <2>1. hn.dist <= HeapNode(oracle[n], n).dist /\ heap # <<>>
    BY <1>4, ElemsEmpty DEF Waiting, VerifierInv, HeapInv
  <2>. QED BY <1>1, <1>2, <2>1, NodeIs
<1>5. CASE oracle[n] = hn.dist /\ e \in Elems(nbrs)
  BY <1>1, <1>5, ElemsEmpty
<1>. QED BY <1>3, <1>4, <1>5 DEF VerifierInv, NothingSkipped

LEMMA OracleLabels ==
  ASSUME ProperInfinity, KernelInv, VerifierInv, stage \in {"heap", "accepted", "rejected"}
  PROVE  /\ IsWeightedGraph(g) /\ source \in V /\ oracle \in [V -> Nat] /\ DistInf \in Nat
         /\ \A n \in V : Exact[n] <= DistInf /\ oracle[n] <= DistInf
         /\ oracle[source] = 0
         /\ \A n \in V : oracle[n] = DistInf \/ <<n, oracle[n]>> \in Walks(g, source)
<1>1. /\ IsWeightedGraph(g) /\ source \in V /\ DistInf \in Nat /\ \A n \in V : Exact[n] <= DistInf
  BY DistLabels
<1>2. oracle \in [V -> Nat] /\ oracle[source] = 0 /\ \A n \in V : oracle[n] <= DistInf
  BY DEF VerifierInv, OracleInv, StagesInv
<1>3. ASSUME NEW n \in V, oracle[n] # DistInf PROVE <<n, oracle[n]>> \in Walks(g, source)
  <2>1. Labelled(n)
    BY <1>1, <1>2, <1>3 DEF Labelled
  <2>2. Traced(g, source, oracle, n, oracle[n])
    BY <2>1 DEF VerifierInv, OracleInv
  <2>. QED BY <1>1, <2>2, TraceIsWalk
<1>. QED BY <1>1, <1>2, <1>3

(* The verifier's heap and labels are as TakenInOrder says.                *)
LEMMA TakenInOrderHolds ==
  ASSUME ProperInfinity, KernelInv, VerifierInv
  PROVE  HeapOrdered /\ TakenInOrder
<1>1. IsHeap(heap)
  BY DEF VerifierInv, HeapInv
<1>2. HeapOrdered
  BY <1>1 DEF HeapOrdered, IsHeap
<1>3. ASSUME stage = "heap", NEW n \in V, Exact[n] < hn.dist PROVE oracle[n] = Exact[n]
  <2>1. /\ IsWeightedGraph(g) /\ source \in V /\ oracle \in [V -> Nat] /\ DistInf \in Nat
        /\ oracle[source] = 0
        /\ \A m \in V : oracle[m] = DistInf \/ <<m, oracle[m]>> \in Walks(g, source)
    BY <1>3, OracleLabels
  <2>2. PICK bound \in Nat : bound = hn.dist /\ bound < DistInf
    BY DEF VerifierInv, HeapInv
  <2>3. \A m \in V : \A e \in Elems(g.out[m]) :
          oracle[m] < bound => oracle[e.v] <= oracle[m] + e.w
    BY <2>2, NothingNearer
  <2>4. Exact[n] < bound /\ Exact[n] < DistInf
    <3>1. PICK x : x = Exact[n]
      OBVIOUS
    <3>2. x = DistInf \/ x \in Nat
      BY <2>1, <3>1, ShortestIs DEF Exact
    <3>. QED BY <1>3, <2>1, <2>2, <3>1, <3>2
  <2>. QED BY <2>1, <2>3, <2>4, SettledLabels DEF Exact
<1>4. \A i \in DOMAIN heap : hn.dist <= heap[i].dist
  BY DEF VerifierInv, HeapInv, Elems
<1>5. TakenInOrder
  BY <1>3, <1>4 DEF TakenInOrder
<1>. QED BY <1>2, <1>5

(* The verifier's labels are the shortest distances when it judges.        *)
LEMMA OracleExact ==
  ASSUME ProperInfinity, KernelInv, VerifierInv, Judged
  PROVE  oracle = Exact
<1>1. heap = <<>> /\ nbrs = <<>> /\ stage \in {"heap", "accepted", "rejected"}
  BY DEF VerifierInv, StagesInv, Judged
<1>2. \A n \in V : \A e \in Elems(g.out[n]) :
        oracle[n] < DistInf => oracle[e.v] <= oracle[n] + e.w
  BY <1>1, NothingNearer
<1>. QED BY <1>1, <1>2, OracleLabels, RelaxedLabelsExact DEF Exact

LEMMA VerdictHolds == ASSUME ProperInfinity, KernelInv, VerifierInv PROVE VerdictExact
<1>1. Judged => (stage = "accepted" <=> dist = Exact)
  <2>. SUFFICES ASSUME Judged PROVE stage = "accepted" <=> dist = Exact
    OBVIOUS
  <2>1. stage = "accepted" <=> oracle = dist
    BY DEF VerifierInv, StagesInv
  <2>2. oracle = Exact
    BY OracleExact
  <2>. QED BY <2>1, <2>2
<1>. QED BY <1>1, TakenInOrderHolds DEF VerdictExact

LEMMA TypesHold == ASSUME ProperInfinity, KernelInv, VerifierInv PROVE TypeOK
<1>1. /\ IsWeightedGraph(g) /\ source \in V /\ delta \in Deltas
      /\ bins \in Seq(Seq(V)) /\ current \in 0 .. Size
      /\ bag \in Seq(V) /\ idx \in 1 .. Len(bag) + 1
      /\ u \in V /\ edges \in Seq(NodeWeight)
      /\ stage \in {"bins", "bag", "done", "heap", "accepted", "rejected"}
  BY DEF KernelInv, KernelType
<1>2. dist \in [V -> Nat] /\ oracle \in [V -> Nat]
  BY DEF KernelInv, KernelType, VerifierInv, OracleInv
<1>3. dist \in [V -> Int] /\ oracle \in [V -> Int]
  BY <1>2
<1>4. heap \in Seq(Entry) /\ hn \in Entry /\ nbrs \in Seq(NodeWeight)
  BY DEF VerifierInv, HeapInv, IsHeap, EdgesInv
<1>. QED BY <1>1, <1>3, <1>4 DEF TypeOK, Entry

(* The same with what SSSPVerifier keeps true: a heap in order, and every  *)
(* vertex nearer than the entry taken settled (src/srcc/sssp.c:174-216).   *)
THEOREM Invariance == ASSUME ProperInfinity PROVE Spec => [](KernelInv /\ VerifierInv)
<1>1. Init => KernelInv /\ VerifierInv
  BY InitKernel, InitVerifier
<1>2. KernelInv /\ VerifierInv /\ [Next]_vars => (KernelInv /\ VerifierInv)'
  BY KernelStep, VerifierStep
<1>. QED BY <1>1, <1>2, PTL DEF Spec

-----------------------------------------------------------------------------
(***************************************************************************)
(* The program whose infinity is not above 0.  Nothing is shorter than it, *)
(* so that the only vertex ever put into a bin or the heap is the source.  *)
(***************************************************************************)
IdleKernel ==
  /\ g \in Graphs /\ IsWeightedGraph(g) /\ source \in V /\ delta \in Deltas
  /\ NothingFound
  /\ bins \in {<<<<source>>>>, <<<<>>>>} /\ current \in {0, 1}
  /\ bag \in {<<>>, <<source>>} /\ idx \in 1 .. Len(bag) + 1 /\ u = source
  /\ edges \in Seq(NodeWeight) /\ Elems(edges) \subseteq Elems(g.out[source])
  /\ stage \in {"bins", "bag", "done", "heap", "accepted"}

IdleVerifier ==
  /\ oracle \in {[n \in V |-> DistInf], dist}
  /\ stage \in {"heap", "accepted"} => oracle = dist
  /\ IsHeap(heap) /\ Elems(heap) \subseteq {HeapNode(0, source)}
  /\ hn = HeapNode(0, source)
  /\ nbrs \in Seq(NodeWeight) /\ Elems(nbrs) \subseteq Elems(g.out[source])

IdleInv == IdleKernel /\ IdleVerifier

LEMMA InitIdle == ASSUME IdleInfinity, Init PROVE IdleInv
<1>1. /\ g \in Graphs /\ source \in V /\ delta \in Deltas
      /\ NothingFound /\ bins = <<<<source>>>> /\ current = 0
      /\ bag = <<>> /\ idx = 1 /\ u = source /\ edges = <<>>
      /\ oracle = [n \in V |-> DistInf] /\ heap = <<>>
      /\ hn = HeapNode(0, source) /\ nbrs = <<>> /\ stage = "bins"
  BY DEF Init, NothingFound
<1>2. IsWeightedGraph(g) /\ IsHeap(<<>>) /\ <<>> \in Seq(NodeWeight)
  BY <1>1, GraphsAssumption DEF IsHeap
<1>. QED BY <1>1, <1>2, ElemsEmpty DEF IdleInv, IdleKernel, IdleVerifier

(* The edges of an entry, or none if it is skipped.                        *)
LEMMA NoneOrAll ==
  ASSUME IdleKernel, NEW es, es = <<>> \/ es = g.out[source]
  PROVE  es \in Seq(NodeWeight) /\ Elems(es) \subseteq Elems(g.out[source])
<1>1. g.out[source] \in Seq(NodeWeight)
  BY EdgesType DEF IdleKernel
<1>2. CASE es = <<>>
  BY <1>2, ElemsEmpty
<1>3. CASE es = g.out[source]
  BY <1>1, <1>3
<1>. QED BY <1>2, <1>3

(* No edge of the source improves a distance or a label of the verifier.   *)
LEMMA NothingShorter ==
  ASSUME IdleInfinity, IdleKernel, NEW e \in Elems(g.out[source])
  PROVE  e.v \in V /\ ~(Truncate(0 + e.w) < dist[e.v])
<1>1. e.v \in V /\ e.w \in Nat
  BY EdgesType DEF IdleKernel
<1>2. e.w < WeightRange \div 2
  BY DEF IdleInfinity, WeightsFit, IdleKernel
<1>3. Truncate(0 + e.w) = e.w
  BY <1>1, <1>2, NoOverflow
<1>4. dist[e.v] \in {0, DistInf}
  BY <1>1 DEF IdleKernel, NothingFound
<1>5. DistInf \in Int /\ DistInf <= 0
  BY DistInfAssumption DEF IdleInfinity
<1>. QED BY <1>1, <1>3, <1>4, <1>5

LEMMA KernelIdles ==
  ASSUME IdleInfinity, IdleInv, SkipEmptyBin \/ TakeBin \/ TakeEntry \/ Relax \/ EndBag \/ Return
  PROVE  IdleInv'
<1>1. UNCHANGED <<g, source, delta, oracle, heap, hn, nbrs>>
  BY DEF SkipEmptyBin, TakeBin, TakeEntry, Relax, EndBag, Return, verifier
<1>2. stage \in {"bins", "bag"} /\ stage' \in {"bins", "bag", "done"}
  BY DEF SkipEmptyBin, TakeBin, TakeEntry, Relax, EndBag, Return, IdleInv, IdleKernel
<1>3. dist' = dist => IdleVerifier'
  BY <1>1, <1>2 DEF IdleInv, IdleVerifier
<1>4. bins \in {<<<<source>>>>, <<<<>>>>} /\ Size = 1 /\ Len(bag) \in {0, 1}
  BY DEF IdleInv, IdleKernel, Size
<1>5. CASE SkipEmptyBin
  <2>1. /\ current < Size /\ current' = current + 1 /\ stage' = stage
        /\ UNCHANGED <<dist, bins, bag, idx, u, edges>>
    BY <1>5 DEF SkipEmptyBin
  <2>2. current' \in {0, 1}
    BY <1>4, <2>1 DEF IdleInv, IdleKernel
  <2>. QED BY <1>1, <1>3, <2>1, <2>2 DEF IdleInv, IdleKernel, NothingFound
<1>6. CASE TakeBin
  <2>1. /\ current < Size /\ bag' = bins[current + 1] /\ idx' = 1 /\ bag' # <<>>
        /\ bins' = [bins EXCEPT ![current + 1] = <<>>] /\ stage' = "bag"
        /\ UNCHANGED <<dist, current, u, edges>>
    BY <1>6 DEF TakeBin, Bin
  <2>2. current = 0
    BY <1>4, <2>1 DEF IdleInv, IdleKernel
  <2>3. bag' = <<source>> /\ bins' = <<<<>>>>
    BY <1>4, <2>1, <2>2
  <2>. QED BY <1>1, <1>3, <2>1, <2>3 DEF IdleInv, IdleKernel, NothingFound
<1>7. CASE TakeEntry
  <2>1. /\ idx <= Len(bag) /\ u' = bag[idx] /\ idx' = idx + 1
        /\ edges' \in {<<>>, g.out[u']} /\ stage' = stage
        /\ UNCHANGED <<dist, bins, current, bag>>
    BY <1>7 DEF TakeEntry
  <2>2. bag = <<source>> /\ idx = 1
    BY <1>4, <2>1 DEF IdleInv, IdleKernel
  <2>3. u' = source /\ idx' \in 1 .. Len(bag) + 1
    BY <2>1, <2>2
  <2>4. edges' \in Seq(NodeWeight) /\ Elems(edges') \subseteq Elems(g.out[source])
    <3>1. edges' = <<>> \/ edges' = g.out[source]
      BY <2>1, <2>3
    <3>. QED BY <3>1, NoneOrAll DEF IdleInv
  <2>. QED BY <1>1, <1>3, <2>1, <2>2, <2>3, <2>4 DEF IdleInv, IdleKernel, NothingFound
<1>8. CASE Relax
  <2>1. edges # <<>> /\ edges' = Tail(edges)
    BY <1>8 DEF Relax
  <2>2. /\ Head(edges) \in Elems(g.out[source]) /\ edges' \in Seq(NodeWeight)
        /\ Elems(edges') \subseteq Elems(g.out[source])
    BY <2>1, ElemsHeadTail DEF IdleInv, IdleKernel
  <2>3. dist[u] = 0
    BY DEF IdleInv, IdleKernel, NothingFound
  <2>4. ~(Truncate(dist[u] + Head(edges).w) < dist[Head(edges).v])
    BY <2>2, <2>3, NothingShorter DEF IdleInv
  <2>5. UNCHANGED <<dist, bins, bag, current, idx, u, stage>>
    BY <1>8, <2>4 DEF Relax
  <2>. QED BY <1>1, <1>3, <2>2, <2>5 DEF IdleInv, IdleKernel, NothingFound
<1>9. CASE EndBag
  <2>1. /\ bag' = <<>> /\ idx' = 1 /\ stage' = "bins"
        /\ UNCHANGED <<dist, bins, current, u, edges>>
    BY <1>9 DEF EndBag
  <2>. QED BY <1>1, <1>3, <2>1 DEF IdleInv, IdleKernel, NothingFound
<1>10. CASE Return
  <2>1. stage' = "done" /\ UNCHANGED <<dist, bins, current, bag, idx, u, edges>>
    BY <1>10 DEF Return, kernel
  <2>. QED BY <1>1, <1>3, <2>1 DEF IdleInv, IdleKernel, NothingFound
<1>. QED BY <1>5, <1>6, <1>7, <1>8, <1>9, <1>10

LEMMA VerifierIdles ==
  ASSUME IdleInfinity, IdleInv, StartVerifier \/ PopNearest \/ RelaxFirst \/ Judge
  PROVE  IdleInv'
<1>. DEFINE e == HeapNode(0, source)
<1>1. UNCHANGED <<g, source, delta, dist, bins, current, bag, idx, u, edges>>
  BY DEF StartVerifier, PopNearest, RelaxFirst, Judge, kernel
<1>2. e \in Entry /\ e.dist = 0 /\ e.node = source
  BY NodeIs DEF IdleInv, IdleKernel
<1>3. \A n \in V : dist[n] = IF n = source THEN 0 ELSE DistInf
  BY DEF IdleInv, IdleKernel, NothingFound
<1>4. stage' \in {"bins", "bag", "done", "heap", "accepted"} => IdleKernel'
  BY <1>1 DEF IdleInv, IdleKernel, NothingFound
<1>. HIDE DEF e
<1>5. CASE StartVerifier
  <2>1. /\ oracle' = [oracle EXCEPT ![source] = 0] /\ heap' = HeapPush(<<>>, e)
        /\ stage' = "heap" /\ UNCHANGED <<hn, nbrs>>
    BY <1>5 DEF StartVerifier, e
  <2>2. IsHeap(heap') /\ Elems(heap') \subseteq {e}
    <3>1. IsHeap(<<>>)
      BY DEF IsHeap
    <3>. QED BY <1>2, <2>1, <3>1, HeapPushed, ElemsEmpty
  <2>3. oracle' = dist
    <3>1. dist = [n \in V |-> IF n = source THEN 0 ELSE DistInf]
      BY DEF IdleInv, IdleKernel, NothingFound
    <3>2. oracle = [n \in V |-> DistInf] \/ oracle = dist
      BY DEF IdleInv, IdleVerifier
    <3>3. CASE oracle = [n \in V |-> DistInf]
      BY <2>1, <3>1, <3>3
    <3>4. CASE oracle = dist
      BY <2>1, <3>1, <3>4
    <3>. QED BY <3>2, <3>3, <3>4
  <2>. QED BY <1>1, <1>4, <2>1, <2>2, <2>3 DEF IdleInv, IdleVerifier, e
<1>6. CASE PopNearest
  <2>1. /\ heap # <<>> /\ hn' = heap[1] /\ nbrs' \in {<<>>, g.out[heap[1].node]}
        /\ heap' = HeapPop(heap) /\ UNCHANGED <<oracle, stage>>
    BY <1>6 DEF PopNearest
  <2>2. heap \in Seq(Entry) /\ IsHeap(heap) /\ Elems(heap) \subseteq {e}
    BY DEF IdleInv, IdleVerifier, IsHeap, e
  <2>3. heap[1] = e
    BY <2>1, <2>2 DEF Elems
  <2>4. IsHeap(heap') /\ Elems(heap') \subseteq {e}
    BY <2>1, <2>2, HeapPopped
  <2>5. nbrs' \in Seq(NodeWeight) /\ Elems(nbrs') \subseteq Elems(g.out[source])
    <3>1. nbrs' = <<>> \/ nbrs' = g.out[source]
      BY <1>2, <2>1, <2>3
    <3>. QED BY <3>1, NoneOrAll DEF IdleInv
  <2>. QED BY <1>1, <1>4, <2>1, <2>3, <2>4, <2>5 DEF IdleInv, IdleVerifier, IdleKernel, e
<1>7. CASE RelaxFirst
  <2>1. nbrs # <<>> /\ nbrs' = Tail(nbrs) /\ stage = "heap" /\ UNCHANGED <<hn, stage>>
    BY <1>7 DEF RelaxFirst
  <2>2. /\ Head(nbrs) \in Elems(g.out[source]) /\ nbrs' \in Seq(NodeWeight)
        /\ Elems(nbrs') \subseteq Elems(g.out[source])
    BY <2>1, ElemsHeadTail DEF IdleInv, IdleVerifier
  <2>3. hn.dist = 0 /\ oracle = dist
    BY <1>2, <2>1 DEF IdleInv, IdleVerifier, e
  <2>4. ~(Truncate(hn.dist + Head(nbrs).w) < oracle[Head(nbrs).v])
    BY <2>2, <2>3, NothingShorter DEF IdleInv
  <2>5. UNCHANGED <<oracle, heap>>
    BY <1>7, <2>4 DEF RelaxFirst
  <2>. QED BY <1>1, <1>4, <2>1, <2>2, <2>5 DEF IdleInv, IdleVerifier, IdleKernel
<1>8. CASE Judge
  <2>1. /\ stage = "heap" /\ stage' = IF oracle = dist THEN "accepted" ELSE "rejected"
        /\ UNCHANGED <<oracle, heap, hn, nbrs>>
    BY <1>8 DEF Judge, verifier
  <2>2. oracle = dist /\ stage' = "accepted"
    BY <2>1 DEF IdleInv, IdleVerifier
  <2>. QED BY <1>1, <1>4, <2>1, <2>2 DEF IdleInv, IdleVerifier
<1>. QED BY <1>5, <1>6, <1>7, <1>8

(* What that program keeps true: one entry, for the source, and distances  *)
(* as they were at the start (src/srcc/sssp.c:119-167, 174-216).           *)
THEOREM IdleInvariance == ASSUME IdleInfinity PROVE Spec => []IdleInv
<1>1. Init => IdleInv
  BY InitIdle
<1>2. IdleInv /\ [Next]_vars => IdleInv'
  <2>. SUFFICES ASSUME IdleInv, [Next]_vars PROVE IdleInv'
    OBVIOUS
  <2>1. CASE UNCHANGED vars
    BY <2>1 DEF IdleInv, IdleKernel, IdleVerifier, NothingFound, vars, kernel, verifier
  <2>. QED BY <2>1, KernelIdles, VerifierIdles DEF Next, Program, Terminated
<1>. QED BY <1>1, <1>2, PTL DEF Spec
-----------------------------------------------------------------------------
(***************************************************************************)
(* The results.  Each says what holds for an infinity above 0, which is    *)
(* what the code means, and what is left of it for the one it has.         *)
(***************************************************************************)
(* DeltaStep returns the length of a shortest path to every vertex, and    *)
(* the infinity where there is none, for every graph, source and delta     *)
(* whose distances fit; if the infinity is not above 0 it returns the      *)
(* array it began with.                                                    *)
THEOREM ReturnsShortest ==
  ASSUME WeightsFit
  PROVE  Spec => [](IF DistInf > 0 THEN DistancesExact ELSE NothingFound)
<1>1. CASE DistInf > 0
  <2>1. ProperInfinity
    BY <1>1 DEF ProperInfinity
  <2>2. Spec => []KernelInv
    BY <2>1, KernelInvariance
  <2>3. KernelInv => IF DistInf > 0 THEN DistancesExact ELSE NothingFound
    BY <1>1, <2>1, ReturnedExact
  <2>. QED BY <2>2, <2>3, PTL
<1>2. CASE ~(DistInf > 0)
  <2>1. IdleInfinity
    BY <1>2 DEF IdleInfinity
  <2>2. Spec => []IdleInv
    BY <2>1, IdleInvariance
  <2>3. IdleInv => IF DistInf > 0 THEN DistancesExact ELSE NothingFound
    BY <1>2 DEF IdleInv, IdleKernel
  <2>. QED BY <2>2, <2>3, PTL
<1>. QED BY <1>1, <1>2

LEMMA IdleTypes == ASSUME IdleInfinity, IdleInv PROVE TypeOK /\ NothingLost
<1>1. /\ IsWeightedGraph(g) /\ source \in V /\ delta \in Deltas
      /\ idx \in 1 .. Len(bag) + 1 /\ u = source /\ edges \in Seq(NodeWeight)
      /\ stage \in {"bins", "bag", "done", "heap", "accepted", "rejected"}
      /\ heap \in Seq(Entry) /\ nbrs \in Seq(NodeWeight)
  BY DEF IdleInv, IdleKernel, IdleVerifier, IsHeap
<1>2. dist \in [V -> Int] /\ \A n \in V : dist[n] = IF n = source THEN 0 ELSE DistInf
  BY DistInfAssumption DEF IdleInv, IdleKernel, NothingFound
<1>3. oracle \in [V -> Int]
  <2>1. [n \in V |-> DistInf] \in [V -> Int]
    BY DistInfAssumption
  <2>2. oracle = [n \in V |-> DistInf] \/ oracle = dist
    BY DEF IdleInv, IdleVerifier
  <2>. QED BY <1>2, <2>1, <2>2
<1>4. hn \in Entry
  BY <1>1, NodeIs DEF IdleInv, IdleVerifier
<1>5. /\ bins \in Seq(Seq(V)) /\ Size = 1 /\ bag \in Seq(V) /\ current \in 0 .. Size
  <2>1. <<>> \in Seq(V) /\ <<source>> \in Seq(V)
    BY <1>1
  <2>2. <<<<source>>>> \in Seq(Seq(V)) /\ <<<<>>>> \in Seq(Seq(V))
    BY <2>1
  <2>3. Len(<<<<source>>>>) = 1 /\ Len(<<<<>>>>) = 1
    OBVIOUS
  <2>4. Size = 1
    BY <2>3 DEF IdleInv, IdleKernel, Size
  <2>5. bins = <<<<source>>>> \/ bins = <<<<>>>>
    BY DEF IdleInv, IdleKernel
  <2>6. bins \in Seq(Seq(V))
    BY <2>2, <2>5
  <2>7. bag = <<>> \/ bag = <<source>>
    BY DEF IdleInv, IdleKernel
  <2>8. current \in 0 .. Size
    BY <2>4 DEF IdleInv, IdleKernel
  <2>. QED BY <2>1, <2>4, <2>6, <2>7, <2>8
<1>6. TypeOK
  BY <1>1, <1>2, <1>3, <1>4, <1>5 DEF TypeOK, Entry
<1>7. ASSUME NEW n \in V, dist[n] # DistInf, NEW e \in Elems(g.out[n])
      PROVE  ~(dist[e.v] > dist[n] + e.w)
  <2>1. n = source /\ dist[n] = 0
    BY <1>2, <1>7
  <2>2. e.v \in V /\ e.w \in Nat
    BY <1>1, EdgesType
  <2>3. dist[e.v] \in {0, DistInf} /\ DistInf \in Int /\ DistInf <= 0
    BY <1>2, <2>2, DistInfAssumption DEF IdleInfinity
  <2>. QED BY <2>1, <2>2, <2>3
<1>. QED BY <1>6, <1>7 DEF NothingLost

(* Every variable has its type, no bin loses a vertex that still has to be *)
(* expanded and, with an infinity above 0, below the bin being processed   *)
(* the distances are settled.                                              *)
THEOREM BinsHoldInv ==
  ASSUME WeightsFit
  PROVE  Spec => [](IF DistInf > 0 THEN BinsInv ELSE TypeOK /\ NothingLost)
<1>1. CASE DistInf > 0
  <2>1. ProperInfinity
    BY <1>1 DEF ProperInfinity
  <2>2. Spec => [](KernelInv /\ VerifierInv)
    BY <2>1, Invariance
  <2>3. KernelInv /\ VerifierInv => IF DistInf > 0 THEN BinsInv ELSE TypeOK /\ NothingLost
    BY <1>1, <2>1, TypesHold, SettledKernel DEF BinsInv, KernelInv
  <2>. QED BY <2>2, <2>3, PTL
<1>2. CASE ~(DistInf > 0)
  <2>1. IdleInfinity
    BY <1>2 DEF IdleInfinity
  <2>2. Spec => []IdleInv
    BY <2>1, IdleInvariance
  <2>3. IdleInv => IF DistInf > 0 THEN BinsInv ELSE TypeOK /\ NothingLost
    BY <1>2, <2>1, IdleTypes
  <2>. QED BY <2>2, <2>3, PTL
<1>. QED BY <1>1, <1>2

(* With an infinity above 0 the verifier's heap stays ordered, it takes    *)
(* the vertices by rising distance, and it accepts the shortest distances  *)
(* and nothing else; otherwise its heap is ordered too, but it never       *)
(* rejects what DeltaStep returns.                                         *)
THEOREM VerdictIsExact ==
  ASSUME WeightsFit
  PROVE  Spec => [](IF DistInf > 0 THEN VerdictExact ELSE HeapOrdered /\ stage # "rejected")
<1>1. CASE DistInf > 0
  <2>1. ProperInfinity
    BY <1>1 DEF ProperInfinity
  <2>2. Spec => [](KernelInv /\ VerifierInv)
    BY <2>1, Invariance
  <2>3. KernelInv /\ VerifierInv =>
          IF DistInf > 0 THEN VerdictExact ELSE HeapOrdered /\ stage # "rejected"
    BY <1>1, <2>1, VerdictHolds
  <2>. QED BY <2>2, <2>3, PTL
<1>2. CASE ~(DistInf > 0)
  <2>1. IdleInfinity
    BY <1>2 DEF IdleInfinity
  <2>2. Spec => []IdleInv
    BY <2>1, IdleInvariance
  <2>3. IdleInv => IF DistInf > 0 THEN VerdictExact ELSE HeapOrdered /\ stage # "rejected"
    BY <1>2 DEF IdleInv, IdleKernel, IdleVerifier, IsHeap, HeapOrdered
  <2>. QED BY <2>2, <2>3, PTL
<1>. QED BY <1>1, <1>2

(* An edge is a walk.                                                      *)
LEMMA EdgeIsWalk ==
  ASSUME NEW gr, IsWeightedGraph(gr), NEW s \in V, NEW e \in Elems(gr.out[s]), e.v # s
  PROVE  <<e.v, e.w>> \in Walks(gr, s)
<1>1. e.v \in V /\ e.w \in Nat
  BY EdgesType
<1>. DEFINE lab == [n \in V |-> IF n = s THEN 0 ELSE e.w + 1]
            low == [n \in V |-> IF n = s THEN 0 ELSE e.w]
<1>2. /\ lab \in [V -> Nat] /\ lab[s] = 0 /\ 0 + e.w < lab[e.v]
      /\ low \in [V -> Nat] /\ \A m \in V : low[m] <= lab[m]
      /\ low[e.v] <= 0 + e.w
  BY <1>1
<1>. HIDE DEF lab, low
<1>3. Traced(gr, s, lab, s, 0)
  BY <1>2, TraceStart
<1>4. Traced(gr, s, low, e.v, 0 + e.w)
  BY <1>2, <1>3, TraceExtends
<1>5. 0 + e.w = e.w
  BY <1>1
<1>. QED BY <1>4, <1>5, TraceIsWalk

LEMMA IdleIsWrong ==
  ASSUME IdleInfinity, DistInf < 0, IdleInv, Returned,
         NEW e \in Elems(g.out[source]), e.v # source
  PROVE  ~DistancesExact
<1>1. IsWeightedGraph(g) /\ source \in V /\ e.v \in V
  BY EdgesType DEF IdleInv, IdleKernel
<1>2. dist[e.v] = DistInf
  BY <1>1 DEF IdleInv, IdleKernel, NothingFound
<1>3. <<e.v, e.w>> \in Walks(g, source)
  BY <1>1, EdgeIsWalk
<1>4. PICK x : x = Exact[e.v]
  OBVIOUS
<1>5. x \in Nat
  BY <1>1, <1>3, <1>4, ShortestIs DEF Exact
<1>. QED BY <1>2, <1>4, <1>5 DEF DistancesExact

(* The C port as it stands, for every graph whose weights are WeightT's:   *)
(* with kDistInf, -1, DeltaStep finds no path and SSSPVerifier accepts it  *)
(* all the same, so that a source with a neighbour is answered wrongly.    *)
THEOREM ShippedFindsNothing ==
  ASSUME WeightsFit, DistInf = kDistInf
  PROVE  Spec => [](/\ NothingFound /\ stage # "rejected"
                    /\ Returned /\ (\E e \in Elems(g.out[source]) : e.v # source)
                         => ~DistancesExact)
<1>1. DistInf = -1
  BY DistInfIsNegative
<1>2. IdleInfinity
  BY <1>1 DEF IdleInfinity
<1>3. Spec => []IdleInv
  BY <1>2, IdleInvariance
<1>4. IdleInv => /\ NothingFound /\ stage # "rejected"
                 /\ Returned /\ (\E e \in Elems(g.out[source]) : e.v # source)
                      => ~DistancesExact
  BY <1>1, <1>2, IdleIsWrong DEF IdleInv, IdleKernel
<1>. QED BY <1>3, <1>4, PTL
==============================================================================
