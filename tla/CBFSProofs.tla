------------------------------ MODULE CBFSProofs ------------------------------
(***************************************************************************)
(* For every graph, command line and generator: the bfs program of the C   *)
(* port never follows a pointer into memory its queue gave up, every trial *)
(* returns a tree of shortest paths, and the verifier, drawing its sources *)
(* a second time, accepts it.                                              *)
(***************************************************************************)
EXTENDS CBFS, CSRGraphProofs

(***************************************************************************)
(* The pickers.  What a picker draws from a state on is the first vertex   *)
(* with out-edges; it is said by closed sets and not by counting steps.    *)
(***************************************************************************)
States == 1 .. Cycle(stream)
Barren(s) == OutDegree(g, stream[s]) = 0
DrawnFrom(from, to) ==
  \A S \in SUBSET States :
    PickerRand(from) \in S /\ (\A s \in S : Barren(s) => PickerRand(s) \in S) => to \in S

OptionsInv ==
  /\ cl.num_trials \in Nat /\ cl.start_vertex \in V \cup {-1}
  /\ cl.do_analysis \in BOOLEAN /\ cl.do_verify \in BOOLEAN

SourceInv ==
  /\ stage \notin {"trial", "pick"} =>
       /\ source \in V
       /\ IF Given THEN source = cl.start_vertex
          ELSE source = stream[rng] /\ ~Barren(rng)
  /\ stage \in {"verify", "judge"} => cl.do_verify
  /\ stage = "judge" => verify_source = source

(* The verifier's picker is behind by the draws of the present trial.      *)
PickersInv ==
  cl.do_verify /\ ~Given =>
    /\ stage \in {"trial", "judge", "free"} => verifier_rng = rng
    /\ stage = "pick" =>
         verifier_rng = rng \/ (DrawnFrom(verifier_rng, rng) /\ Barren(rng))
    /\ stage \notin {"trial", "pick", "judge", "free"} => DrawnFrom(verifier_rng, rng)

PrintedInv ==
  /\ trial <= cl.num_trials /\ (stage # "trial" => trial < cl.num_trials)
  /\ Len(verdicts) =
       IF cl.do_verify THEN trial + (IF stage = "free" THEN 1 ELSE 0) ELSE 0
  /\ \A i \in DOMAIN verdicts : verdicts[i]
  /\ Len(stats) =
       IF /\ cl.do_analysis /\ cl.num_trials > 0
          /\ \/ trial = cl.num_trials
             \/ trial = cl.num_trials - 1 /\ stage \in {"verify", "judge", "free"}
         THEN 1 ELSE 0

Reachable == Ball(g, source)[NumNodes]

ResultInv ==
  /\ stage \in {"returned", "verify", "judge"} => IsShortestPathTree
  /\ stage = "verify" /\ stats # <<>> =>
       stats[1] = [nodes |-> Cardinality(Reachable),
                   edges |-> Cardinality({e \in Edges(g) : e[1] \in Reachable})]

(***************************************************************************)
(* The search.  It is at some level l: the vertices visited are those up   *)
(* to l edges away and, during a step, some of the next level.             *)
(***************************************************************************)
Searching == stage \in {"decide", "td", "bu", "convert"}
Visited == {m \in V : parent[m] >= 0}
Hops == Depth(g, source)
Level(l) == LevelOf(Hops, l)
UpTo(l) == UpToOf(Hops, l)
Slots(a, b) == {Slot(i) : i \in a .. b - 1}

(* Every slot in use holds a visited vertex of its own, so the queue is    *)
(* never full when a vertex is pushed.                                     *)
SlotsInv ==
  /\ Len(shared) = NumNodes /\ block = 0
  /\ start <= end /\ end <= in /\ in <= NumNodes
  /\ \A i \in 0 .. in - 1 : Slot(i) \in Visited
  /\ \A i, j \in 0 .. in - 1 : Slot(i) = Slot(j) => i = j

Hangs(m) ==
  parent[m] \in V /\ m \in Elems(g.out[parent[m]]) /\ Hops[m] = Hops[parent[m]] + 1

TreeInv ==
  /\ parent[source] = source
  /\ \A m \in Visited : m = source \/ Hangs(m)

Between(l) == UpTo(l) \subseteq Visited /\ Visited \subseteq UpTo(l + 1)

TopDownInv(l) ==
  /\ held = block /\ last = end /\ start <= it /\ it <= end /\ k >= 1
  /\ Slots(start, end) = Level(l) /\ Between(l)
  /\ Slots(end, in) = Visited \cap Level(l + 1)
  /\ \A i \in start .. it - 1 : Elems(g.out[Slot(i)]) \subseteq Visited
  /\ it < end =>
       \A j \in DOMAIN g.out[Slot(it)] : j < k => g.out[Slot(it)][j] \in Visited

BottomUpInv(l) ==
  /\ front = Level(l) /\ Between(l) /\ n <= NumNodes
  /\ curr = Visited \cap Level(l + 1)
  /\ \A m \in Level(l + 1) : m < n => m \in Visited

GatherInv(l) ==
  /\ front = Level(l) /\ Visited = UpTo(l) /\ n <= NumNodes
  /\ start = 0 /\ end = 0
  /\ Slots(0, in) = {m \in front : m < n}

LevelInv(l) ==
  /\ stage = "decide" =>
       end = in /\ Slots(start, end) = Level(l) /\ Visited = UpTo(l)
  /\ stage = "td" => TopDownInv(l)
  /\ stage = "bu" => BottomUpInv(l)
  /\ stage = "convert" => GatherInv(l)

SearchInv ==
  IF Searching THEN SlotsInv /\ TreeInv /\ \E l \in Nat : LevelInv(l)
  ELSE shared = <<>> /\ in = 0 /\ start = 0 /\ end = 0

IInv ==
  /\ TypeOK /\ OptionsInv /\ SourceInv /\ PickersInv /\ PrintedInv /\ ResultInv
  /\ SearchInv
-----------------------------------------------------------------------------
LEMMA VerticesAreNumbers == V \subseteq Nat /\ 0 \in V /\ NoNode \notin V /\ NumNodes \notin V
BY NumNodesAssumption DEF V, NoNode

LEMMA BelowNext ==
  ASSUME NEW c \in Nat, NEW S, S \subseteq Nat
  PROVE  \A m \in S : m < c + 1 <=> m < c \/ m = c
<1>1. \A m \in Nat : m < c + 1 <=> m < c \/ m = c
  OBVIOUS
<1>. QED BY <1>1

LEMMA GraphType ==
  ASSUME TypeOK
  PROVE  /\ IsGraph(g) /\ IsSimple(g) /\ g.out \in [V -> Seq(V)] /\ g.in \in [V -> Seq(V)]
         /\ \A m \in V : /\ OutDegree(g, m) \in Nat
                         /\ g.out[m] \in Seq(V) /\ DOMAIN g.out[m] = 1 .. OutDegree(g, m)
                         /\ \A j \in DOMAIN g.out[m] : g.out[m][j] \in V
                         /\ g.in[m] \in Seq(V)
                         /\ \A j \in DOMAIN g.in[m] : g.in[m][j] \in V
<1>1. IsGraph(g) /\ IsSimple(g)
  BY GraphsAssumption DEF TypeOK
<1>2. g.out \in [V -> Seq(V)] /\ g.in \in [V -> Seq(V)]
  BY <1>1 DEF IsGraph
<1>3. \A s \in Seq(V) : Len(s) \in Nat /\ DOMAIN s = 1 .. Len(s) /\ \A j \in DOMAIN s : s[j] \in V
  OBVIOUS
<1>4. \A m \in V : g.out[m] \in Seq(V) /\ g.in[m] \in Seq(V)
  BY <1>2
<1>. QED BY <1>1, <1>2, <1>3, <1>4 DEF OutDegree

LEMMA StreamType ==
  ASSUME stream \in Streams
  PROVE  /\ stream \in Seq(V) /\ Cycle(stream) \in Nat /\ Cycle(stream) >= 1
         /\ States \subseteq Nat /\ Seed \in States
         /\ \A s \in States : PickerRand(s) \in States /\ stream[s] \in V
<1>1. stream \in Seq(V) /\ Elems(stream) = V
  BY StreamsAssumption
<1>2. Len(stream) \in Nat /\ DOMAIN stream = 1 .. Len(stream) /\ \A i \in 1 .. Len(stream) : stream[i] \in V
  BY <1>1
<1>3. Len(stream) >= 1
  <2>1. PICK i \in DOMAIN stream : stream[i] = 0
    BY <1>1, VerticesAreNumbers DEF Elems
  <2>. QED BY <1>2, <2>1
<1>4. \A s \in 1 .. Len(stream) : (s % Len(stream)) + 1 \in 1 .. Len(stream)
  BY <1>2, <1>3
<1>5. Cycle(stream) = Len(stream) /\ States = 1 .. Len(stream)
  BY DEF Cycle, States
<1>6. \A s \in States : PickerRand(s) \in States
  BY <1>4, <1>5 DEF PickerRand
<1>7. Seed \in States /\ States \subseteq Nat
  BY <1>2, <1>3, <1>5 DEF Seed
<1>. QED BY <1>1, <1>2, <1>3, <1>5, <1>6, <1>7

-----------------------------------------------------------------------------
(***************************************************************************)
(* The pickers.                                                            *)
(***************************************************************************)
LEMMA DrawFirst ==
  ASSUME NEW a PROVE DrawnFrom(a, PickerRand(a))
BY DEF DrawnFrom

LEMMA DrawNext ==
  ASSUME NEW a, NEW b \in States, DrawnFrom(a, b), Barren(b)
  PROVE  DrawnFrom(a, PickerRand(b))
BY DEF DrawnFrom

(* The picker behind draws the same vertex, or one without out-edges and   *)
(* is still behind.                                                        *)
LEMMA DrawAgain ==
  ASSUME TypeOK, NEW a \in States, NEW b \in States, DrawnFrom(a, b), ~Barren(b)
  PROVE  IF Barren(PickerRand(a)) THEN DrawnFrom(PickerRand(a), b) ELSE b = PickerRand(a)
<1>. DEFINE c == PickerRand(a)
<1>1. c \in States
  BY StreamType DEF TypeOK
<1>2. CASE Barren(c)
  <2>. SUFFICES ASSUME NEW S \in SUBSET States, PickerRand(c) \in S,
                       \A s \in S : Barren(s) => PickerRand(s) \in S
                PROVE  b \in S
    BY <1>2 DEF DrawnFrom
  <2>1. S \cup {c} \in SUBSET States /\ PickerRand(a) \in S \cup {c}
    BY <1>1
  <2>2. \A s \in S \cup {c} : Barren(s) => PickerRand(s) \in S \cup {c}
    OBVIOUS
  <2>3. b \in S \cup {c}
    BY <2>1, <2>2 DEF DrawnFrom
  <2>. QED BY <1>2, <2>3
<1>3. CASE ~Barren(c)
  <2>1. {c} \in SUBSET States /\ PickerRand(a) \in {c} /\ \A s \in {c} : Barren(s) => PickerRand(s) \in {c}
    BY <1>1, <1>3
  <2>. QED BY <1>3, <2>1 DEF DrawnFrom
<1>. QED BY <1>2, <1>3

-----------------------------------------------------------------------------
(***************************************************************************)
(* The queue.                                                              *)
(***************************************************************************)
LEMMA SharedType ==
  ASSUME TypeOK
  PROVE  /\ shared \in Seq(V \cup {NoNode}) /\ capacity \in Nat /\ DOMAIN shared = 1 .. capacity
         /\ in \in Nat /\ start \in Nat /\ end \in Nat
         /\ in <= capacity /\ start <= capacity /\ end <= capacity
         /\ \A i \in 0 .. capacity - 1 : Slot(i) \in V \cup {NoNode}
<1>1. shared \in Seq(V \cup {NoNode}) /\ in \in 0 .. capacity /\ start \in 0 .. capacity /\ end \in 0 .. capacity
  BY DEF TypeOK
<1>2. capacity \in Nat /\ DOMAIN shared = 1 .. capacity
  BY <1>1 DEF capacity
<1>3. \A i \in 1 .. capacity : shared[i] \in V \cup {NoNode}
  BY <1>1, <1>2
<1>4. \A i \in 0 .. capacity - 1 : i + 1 \in 1 .. capacity
  BY <1>2
<1>. QED BY <1>1, <1>2, <1>3, <1>4 DEF Slot

(* A push that finds a slot free.                                          *)
LEMMA Pushed ==
  ASSUME TypeOK, NEW m \in V, PushBack(m), in < capacity
  PROVE  /\ shared' \in Seq(V \cup {NoNode}) /\ Len(shared') = capacity /\ capacity' = capacity
         /\ block' = block /\ in' = in + 1 /\ in' \in 0 .. capacity'
         /\ \A i \in 0 .. in - 1 : Slot(i)' = Slot(i)
         /\ shared'[in + 1] = m
<1>1. /\ shared \in Seq(V \cup {NoNode}) /\ capacity \in Nat /\ DOMAIN shared = 1 .. capacity
      /\ in \in Nat
  BY SharedType
<1>2. shared' = [i \in 1 .. capacity |-> IF i = in + 1 THEN m ELSE IF i <= capacity THEN shared[i] ELSE NoNode]
  BY DEF PushBack
<1>3. block' = block /\ in' = in + 1
  BY DEF PushBack
<1>4. \A i \in 1 .. capacity : shared[i] \in V \cup {NoNode}
  BY <1>1
<1>5. shared' = [i \in 1 .. capacity |-> IF i = in + 1 THEN m ELSE shared[i]]
  BY <1>1, <1>2
<1>6. shared' \in Seq(V \cup {NoNode}) /\ Len(shared') = capacity
  BY <1>1, <1>4, <1>5
<1>7. \A i \in 0 .. in - 1 : i + 1 \in 1 .. capacity /\ i + 1 # in + 1
  BY <1>1
<1>8. in + 1 \in 1 .. capacity
  BY <1>1
<1>9. \A i \in 0 .. in - 1 : Slot(i)' = Slot(i)
  BY <1>5, <1>7 DEF Slot
<1>10. shared'[in + 1] = m
  BY <1>5, <1>8
<1>11. capacity' = capacity
  BY <1>6 DEF capacity
<1>. QED BY <1>1, <1>3, <1>6, <1>9, <1>10, <1>11
-----------------------------------------------------------------------------
(***************************************************************************)
(* The steps of a search.                                                  *)
(***************************************************************************)
(* They leave the trial alone.                                             *)
LEMMA TrialStays ==
  ASSUME IInv, Searching, Searching', UNCHANGED <<given, pickers, trial, printed>>
  PROVE  OptionsInv' /\ SourceInv' /\ PickersInv' /\ PrintedInv' /\ ResultInv'
<1>. USE DEF given, pickers, printed, Searching
<1>1. OptionsInv'
  BY DEF IInv, OptionsInv
<1>2. SourceInv'
  BY DEF IInv, SourceInv, Given, Barren
<1>3. PickersInv'
  BY DEF IInv, PickersInv, Given, Barren, DrawnFrom, States, PickerRand, Cycle
<1>4. PrintedInv'
  BY DEF IInv, PrintedInv
<1>5. ResultInv'
  BY DEF ResultInv
<1>. QED BY <1>1, <1>2, <1>3, <1>4, <1>5

LEMMA TrialTypesStay ==
  ASSUME TypeOK, UNCHANGED <<given, pickers, trial, printed>>
  PROVE  /\ g' \in Graphs /\ stream' \in Streams /\ alpha' \in Alphas /\ beta' \in Betas
         /\ {rng', verifier_rng'} \subseteq 1 .. Cycle(stream')
         /\ {source', verify_source'} \subseteq V \cup {NoNode}
         /\ trial' \in 0 .. cl'.num_trials
         /\ stats' \in Seq([nodes : Nat, edges : Nat]) /\ verdicts' \in Seq(BOOLEAN)
BY DEF TypeOK, given, pickers, printed

(* The levels of a search depend on the graph and the source only.         *)
LEMMA LevelsStay ==
  ASSUME UNCHANGED <<given, pickers>>
  PROVE  /\ Hops' = Hops /\ \A l : Level(l)' = Level(l) /\ UpTo(l)' = UpTo(l)
         /\ g' = g /\ source' = source
<1>1. g' = g /\ source' = source
  BY DEF given, pickers
<1>2. Hops' = Hops
  BY <1>1 DEF Hops
<1>. QED BY <1>1, <1>2 DEF Level, UpTo

(* What a search may assume.                                               *)
LEMMA DuringSearch ==
  ASSUME IInv, Searching
  PROVE  /\ TypeOK /\ IsGraph(g) /\ source \in V
         /\ SlotsInv /\ TreeInv /\ \E l \in Nat : LevelInv(l)
         /\ capacity = NumNodes /\ capacity \in Nat
         /\ parent \in [V -> Int] /\ Visited \subseteq V
         /\ \A m \in V \ Visited : parent[m] < 0 /\ -parent[m] \in Nat
<1>1. TypeOK /\ IsGraph(g)
  BY GraphType DEF IInv
<1>2. source \in V
  BY DEF IInv, SourceInv, Searching
<1>3. SlotsInv /\ TreeInv /\ \E l \in Nat : LevelInv(l)
  BY DEF IInv, SearchInv
<1>4. capacity = NumNodes /\ capacity \in Nat
  BY <1>3, NumNodesAssumption DEF SlotsInv, capacity
<1>5. parent \in [V -> Int]
  BY <1>1 DEF TypeOK
<1>6. \A m \in V : parent[m] \in Int
  BY <1>5
<1>. QED BY <1>1, <1>2, <1>3, <1>4, <1>5, <1>6 DEF Visited

LEMMA LevelFacts ==
  ASSUME IsGraph(g), source \in V, NEW l \in Nat
  PROVE  /\ Level(l) \subseteq UpTo(l) /\ UpTo(l) \subseteq V
         /\ UpTo(l + 1) = UpTo(l) \cup Level(l + 1) /\ UpTo(l) \cap Level(l + 1) = {}
         /\ \A p \in UpTo(l) : Elems(g.out[p]) \subseteq UpTo(l + 1)
         /\ \A m \in Level(l + 1) : \E p \in Level(l) : m \in Elems(g.out[p])
         /\ \A m \in Level(l) : Hops[m] = l
         /\ \A m \in Level(l + 1) : Hops[m] = l + 1
<1>. DEFINE d == Hops
<1>1. d = Depth(g, source)
  BY DEF Hops
<1>. HIDE DEF d
<1>2. \A j : Level(j) = LevelOf(d, j) /\ UpTo(j) = UpToOf(d, j)
  BY DEF Level, UpTo, d
<1>3. \A j : \A m \in Level(j) : Hops[m] = j
  BY DEF Level, LevelOf
<1>. QED BY <1>1, <1>2, <1>3, LevelsOf

(* The queue holds visited vertices, each once, so there is a slot for one *)
(* that was not visited.                                                   *)
LEMMA SlotFree ==
  ASSUME IInv, Searching, NEW m \in V, \A i \in 0 .. in - 1 : Slot(i) # m
  PROVE  in < capacity
<1>1. /\ in \in Nat /\ in <= NumNodes /\ \A i \in 0 .. in - 1 : Slot(i) \in V
      /\ \A i, j \in 0 .. in - 1 : Slot(i) = Slot(j) => i = j
      /\ capacity = NumNodes /\ NumNodes \in Nat
  BY DuringSearch, SharedType DEF SlotsInv
<1>. DEFINE R == {p \in (0 .. in) \X V : IF p[1] = in THEN p[2] = m ELSE p[2] = Slot(p[1])}
<1>2. \A i, v : <<i, v>> \in R <=> i \in 0 .. in /\ v \in V /\ IF i = in THEN v = m ELSE v = Slot(i)
  OBVIOUS
<1>. HIDE DEF R
<1>. DEFINE q == in + 1
<1>2a. q \in Nat /\ 0 .. q - 1 = 0 .. in
  BY <1>1
<1>. HIDE DEF q
<1>3. \A i \in 0 .. q - 1 : \E v \in V : <<i, v>> \in R
  <2>. SUFFICES ASSUME NEW i \in 0 .. in PROVE \E v \in V : <<i, v>> \in R
    BY <1>2a
  <2>1. CASE i = in
    BY <1>2, <2>1
  <2>2. CASE i # in
    <3>1. i \in 0 .. in - 1
      BY <1>1, <2>2
    <3>. QED BY <1>1, <1>2, <2>2, <3>1
  <2>. QED BY <2>1, <2>2
<1>4. ASSUME NEW v \in V, NEW i \in Nat, NEW j \in Nat, <<i, v>> \in R, <<j, v>> \in R
      PROVE  i = j
  <2>1. i \in 0 .. in /\ j \in 0 .. in
    BY <1>2, <1>4
  <2>2. i # in => i \in 0 .. in - 1 /\ v = Slot(i) /\ v # m
    BY <1>1, <1>2, <1>4, <2>1
  <2>3. j # in => j \in 0 .. in - 1 /\ v = Slot(j) /\ v # m
    BY <1>1, <1>2, <1>4, <2>1
  <2>4. (i = in => v = m) /\ (j = in => v = m)
    BY <1>2, <1>4
  <2>. QED BY <1>1, <2>2, <2>3, <2>4
<1>5. q <= NumNodes
  BY <1>3, <1>4, <1>2a, SlotsFit
<1>. QED BY <1>1, <1>5 DEF q

(* SlotsInv after a push of a vertex that has no slot yet.                 *)
LEMMA PushKeepsSlots ==
  ASSUME IInv, Searching, NEW m \in V, PushBack(m), \A i \in 0 .. in - 1 : Slot(i) # m,
         UNCHANGED <<start, end>>, Visited \subseteq Visited', m \in Visited'
  PROVE  /\ SlotsInv' /\ in' = in + 1 /\ block' = block /\ shared' \in Seq(V \cup {NoNode})
         /\ {in', start', end'} \subseteq 0 .. capacity'
         /\ \A i \in 0 .. in - 1 : Slot(i)' = Slot(i)
         /\ Slots(end, in)' = Slots(end, in) \cup {m}
<1>1. in < capacity /\ TypeOK /\ SlotsInv /\ capacity = NumNodes /\ NumNodes \in Nat
  BY SlotFree, DuringSearch
<1>2. /\ shared' \in Seq(V \cup {NoNode}) /\ Len(shared') = NumNodes /\ capacity' = NumNodes
      /\ block' = block /\ in' = in + 1 /\ \A i \in 0 .. in - 1 : Slot(i)' = Slot(i)
      /\ \A i : i = in => Slot(i)' = m
  <2>1. shared'[in + 1] = m
    BY <1>1, Pushed
  <2>. QED BY <1>1, <2>1, Pushed DEF Slot
<1>3. in \in Nat /\ start \in Nat /\ end \in Nat /\ start <= end /\ end <= in
  BY <1>1, SharedType DEF SlotsInv
<1>4. \A i \in 0 .. in' - 1 : i \in 0 .. in - 1 \/ i = in
  BY <1>2, <1>3
<1>5. SlotsInv'
  <2>1. \A i \in 0 .. in' - 1 : Slot(i)' \in Visited'
    <3>. SUFFICES ASSUME NEW i \in 0 .. in' - 1 PROVE Slot(i)' \in Visited'
      OBVIOUS
    <3>1. CASE i = in
      BY <1>2, <3>1
    <3>2. CASE i \in 0 .. in - 1
      BY <1>1, <1>2, <3>2 DEF SlotsInv
    <3>. QED BY <1>4, <3>1, <3>2
  <2>2. \A i, j \in 0 .. in' - 1 : Slot(i)' = Slot(j)' => i = j
    <3>. SUFFICES ASSUME NEW i \in 0 .. in' - 1, NEW j \in 0 .. in' - 1, Slot(i)' = Slot(j)'
                  PROVE  i = j
      OBVIOUS
    <3>1. \A l \in 0 .. in' - 1 : IF l = in THEN Slot(l)' = m
                                   ELSE l \in 0 .. in - 1 /\ Slot(l)' = Slot(l) /\ Slot(l) # m
      BY <1>2, <1>4
    <3>2. CASE i = in \/ j = in
      BY <3>1, <3>2
    <3>3. CASE i # in /\ j # in
      <4>1. Slot(i) = Slot(j) /\ i \in 0 .. in - 1 /\ j \in 0 .. in - 1
        BY <3>1, <3>3
      <4>. QED BY <1>1, <4>1 DEF SlotsInv
    <3>. QED BY <3>2, <3>3
  <2>3. block' = 0
    BY <1>1, <1>2 DEF SlotsInv
  <2>. QED BY <1>1, <1>2, <1>3, <2>1, <2>2, <2>3 DEF SlotsInv
<1>6. {in', start', end'} \subseteq 0 .. capacity'
  BY <1>1, <1>2, <1>3
<1>7. Slots(end, in)' = Slots(end, in) \cup {m}
  <2>1. \A i : i \in end' .. in' - 1 <=> i \in end .. in - 1 \/ i = in
    BY <1>2, <1>3
  <2>2. \A i \in end .. in - 1 : i \in 0 .. in - 1
    BY <1>3
  <2>3. \A x : x \in Slots(end, in)' <=> \E i \in end' .. in' - 1 : x = Slot(i)'
    BY DEF Slots
  <2>4. \A x : x \in Slots(end, in) <=> \E i \in end .. in - 1 : x = Slot(i)
    BY DEF Slots
  <2>5. ASSUME NEW x \in Slots(end, in)' PROVE x \in Slots(end, in) \cup {m}
    BY <1>2, <2>1, <2>2, <2>3, <2>4
  <2>6. ASSUME NEW x \in Slots(end, in) PROVE x \in Slots(end, in)'
    BY <1>2, <2>1, <2>2, <2>3, <2>4
  <2>7. m \in Slots(end, in)'
    BY <1>2, <2>1, <2>3
  <2>. QED BY <2>5, <2>6, <2>7
<1>. QED BY <1>2, <1>5, <1>6, <1>7
-----------------------------------------------------------------------------
(* No step of a search but TDStep and BUStep writes a parent.              *)
LEMMA ParentsStay ==
  ASSUME UNCHANGED <<given, pickers, parent>>
  PROVE  /\ Visited' = Visited /\ (TreeInv => TreeInv')
         /\ (TypeOK => parent' \in [V -> Int]
                       /\ \A m \in V : parent'[m] \in V \cup {-1, -OutDegree(g', m)})
<1>1. Visited' = Visited
  BY DEF Visited
<1>2. UNCHANGED <<g, source, Hops, parent>>
  BY LevelsStay
<1>3. TreeInv => TreeInv'
  BY <1>1, <1>2 DEF TreeInv, Hangs
<1>. QED BY <1>1, <1>2, <1>3 DEF TypeOK

LEMMA QueueStays ==
  ASSUME TypeOK, UNCHANGED shared
  PROVE  /\ shared' \in Seq(V \cup {NoNode}) /\ capacity' = capacity /\ capacity \in Nat
         /\ {in, start, end} \subseteq 0 .. capacity
         /\ \A i : Slot(i)' = Slot(i)
BY SharedType DEF capacity, Slot

LEMMA LocalTypes ==
  ASSUME TypeOK
  PROVE  /\ block \in Nat /\ it \in Nat /\ last \in Nat /\ held \in Nat /\ k \in Nat /\ n \in Nat
         /\ front \subseteq V /\ curr \subseteq V
         /\ edges_to_check \in Nat /\ scout_count \in Nat /\ awake_count \in Nat
         /\ old_awake_count \in Nat
BY DEF TypeOK

LEMMA SearchTypes ==
  ASSUME TypeOK, UNCHANGED <<given, pickers, trial, printed>>,
         stage' \in {"decide", "td", "bu", "convert", "returned"},
         parent' \in [V -> Int], \A m \in V : parent'[m] \in V \cup {-1, -OutDegree(g', m)},
         shared' \in Seq(V \cup {NoNode}), {in', start', end'} \subseteq 0 .. capacity',
         block' \in Nat, it' \in Nat, last' \in Nat, held' \in Nat, k' \in Nat, n' \in Nat,
         front' \subseteq V, curr' \subseteq V,
         edges_to_check' \in Nat, scout_count' \in Nat, awake_count' \in Nat,
         old_awake_count' \in Nat
  PROVE  TypeOK'
BY TrialTypesStay DEF TypeOK

LEMMA GoTopDownInv ==
  ASSUME IInv, GoTopDown
  PROVE  Searching' /\ TypeOK' /\ SearchInv'
<1>1. /\ Searching /\ Searching' /\ stage = "decide" /\ stage' = "td" /\ start # end
      /\ UNCHANGED <<given, pickers, trial, parent, queue, bitmaps, awake_count,
                     old_awake_count, n, printed>>
      /\ it' = start /\ last' = end /\ held' = block /\ k' = 1
      /\ edges_to_check' = edges_to_check - scout_count /\ scout_count' = 0
      /\ scout_count <= edges_to_check \div alpha
  BY DEF GoTopDown, Searching
<1>2. /\ TypeOK /\ SlotsInv /\ TreeInv
  BY <1>1, DuringSearch
<1>3. PICK l \in Nat : LevelInv(l)
  BY <1>1, DuringSearch
<1>4. UNCHANGED <<shared, in, start, end, block, front, curr, parent>>
  BY <1>1 DEF queue, bitmaps
<1>5. start \in Nat /\ end \in Nat /\ block \in Nat
  BY <1>2, SharedType DEF TypeOK
<1>6. edges_to_check - scout_count \in Nat
  <2>1. edges_to_check \in Nat /\ scout_count \in Nat /\ alpha \in Nat \ {0}
    BY <1>2, TuningAssumption DEF TypeOK
  <2>2. /\ edges_to_check \div alpha \in Nat
        /\ alpha * (edges_to_check \div alpha) <= edges_to_check
    BY <2>1, DivType
  <2>3. \A q \in Nat : q <= alpha * q
    BY <2>1
  <2>. QED BY <1>1, <2>1, <2>2, <2>3
<1>7. TypeOK'
  <2>1. /\ block' \in Nat /\ it' \in Nat /\ last' \in Nat /\ held' \in Nat /\ k' \in Nat /\ n' \in Nat
        /\ front' \subseteq V /\ curr' \subseteq V
        /\ edges_to_check' \in Nat /\ scout_count' \in Nat /\ awake_count' \in Nat
        /\ old_awake_count' \in Nat
    BY <1>1, <1>2, <1>4, <1>5, <1>6, LocalTypes
  <2>2. /\ shared' \in Seq(V \cup {NoNode}) /\ {in', start', end'} \subseteq 0 .. capacity'
    BY <1>2, <1>4, QueueStays
  <2>3. /\ parent' \in [V -> Int]
        /\ \A m \in V : parent'[m] \in V \cup {-1, -OutDegree(g', m)}
    BY <1>1, <1>2, <1>4, ParentsStay
  <2>. QED BY <1>1, <1>2, <2>1, <2>2, <2>3, SearchTypes
<1>8. SlotsInv' /\ TreeInv' /\ Visited' = Visited
  BY <1>1, <1>2, <1>4, ParentsStay DEF SlotsInv, Slot
<1>9. LevelInv(l)'
  <2>1. end = in /\ Slots(start, end) = Level(l) /\ Visited = UpTo(l)
    BY <1>1, <1>3 DEF LevelInv
  <2>2. Slots(start, end)' = Slots(start, end) /\ Slots(end, in)' = {}
    <3>1. Slots(start, end)' = Slots(start, end) /\ Slots(end, in)' = Slots(end, in)
      BY <1>4 DEF Slots, Slot
    <3>2. \A i : i \notin end .. in - 1
      BY <1>5, <2>1
    <3>. QED BY <3>1, <3>2 DEF Slots
  <2>3. /\ UpTo(l + 1) = UpTo(l) \cup Level(l + 1) /\ UpTo(l) \cap Level(l + 1) = {}
    BY <1>1, DuringSearch, LevelFacts
  <2>4. Level(l)' = Level(l) /\ UpTo(l)' = UpTo(l) /\ Level(l + 1)' = Level(l + 1)
        /\ UpTo(l + 1)' = UpTo(l + 1) /\ g' = g
    BY <1>1, LevelsStay
  <2>5. Between(l)'
    BY <1>8, <2>1, <2>3, <2>4 DEF Between
  <2>6. \A i : i \notin start' .. it' - 1
    BY <1>1, <1>4, <1>5
  <2>7. \A j \in DOMAIN g.out[Slot(start)] : ~(j < 1)
    <3>1. start < in /\ Slot(start) \in V
      <4>1. start \in 0 .. in - 1
        BY <1>1, <1>2, <1>5, <2>1, SharedType DEF SlotsInv
      <4>. QED BY <1>2, <1>5, <4>1, SharedType DEF SlotsInv, Visited
    <3>. QED BY <1>2, <3>1, GraphType
  <2>8. \A j \in DOMAIN g.out[Slot(it)]' : ~(j < k')
    BY <1>1, <1>4, <2>4, <2>7 DEF Slot
  <2>9. held' = block' /\ last' = end' /\ start' <= it' /\ it' <= end' /\ k' >= 1
    BY <1>1, <1>2, <1>4, <1>5 DEF SlotsInv
  <2>10. TopDownInv(l)'
    BY <1>8, <2>1, <2>2, <2>3, <2>4, <2>5, <2>6, <2>8, <2>9 DEF TopDownInv
  <2>. QED BY <1>1, <2>10 DEF LevelInv
<1>. QED BY <1>1, <1>7, <1>8, <1>9 DEF SearchInv

(* A vertex reached from the level is of the next one.                     *)
LEMMA NewVertex ==
  ASSUME IsGraph(g), source \in V, NEW l \in Nat, UpTo(l) \subseteq Visited,
         NEW p \in Level(l), NEW m \in Elems(g.out[p]), m \notin Visited
  PROVE  m \in V /\ p \in V /\ m \in Level(l + 1) /\ Hops[m] = Hops[p] + 1
<1>1. m \in UpTo(l + 1) /\ m \notin UpTo(l)
  BY LevelFacts
<1>2. m \in Level(l + 1) /\ Hops[m] = l + 1 /\ Hops[p] = l
  BY <1>1, LevelFacts
<1>. QED BY <1>1, <1>2, LevelFacts

(* A vertex not visited before gets a parent one level up.                 *)
LEMMA Reaches ==
  ASSUME IInv, Searching, NEW l \in Nat, Between(l),
         NEW p \in Level(l), NEW m \in Elems(g.out[p]), m \notin Visited,
         parent' = [parent EXCEPT ![m] = p], UNCHANGED <<given, pickers>>
  PROVE  /\ m \in V /\ m \in Level(l + 1) /\ Visited' = Visited \cup {m}
         /\ TreeInv' /\ Between(l)'
         /\ parent' \in [V -> Int]
         /\ \A v \in V : parent'[v] \in V \cup {-1, -OutDegree(g', v)}
<1>1. /\ TypeOK /\ IsGraph(g) /\ source \in V /\ TreeInv /\ parent \in [V -> Int]
      /\ Visited \subseteq V
  BY DuringSearch
<1>2. UpTo(l) \subseteq Visited /\ Visited \subseteq UpTo(l + 1)
  BY DEF Between
<1>3. m \in V /\ p \in V /\ m \in Level(l + 1) /\ Hops[m] = Hops[p] + 1
  BY <1>1, <1>2, NewVertex
<1>4. p \in Nat /\ p >= 0 /\ p \in Int
  BY <1>3, VerticesAreNumbers
<1>5. \A v \in V : parent'[v] = IF v = m THEN p ELSE parent[v]
  BY <1>1
<1>6. Visited' = Visited \cup {m}
  BY <1>3, <1>4, <1>5 DEF Visited
<1>7. UNCHANGED <<g, source, Hops>> /\ UpTo(l)' = UpTo(l) /\ UpTo(l + 1)' = UpTo(l + 1)
  BY LevelsStay
<1>8. m # source
  BY <1>1, VerticesAreNumbers DEF TreeInv, Visited
<1>9. TreeInv'
  <2>1. parent'[source] = source
    BY <1>1, <1>5, <1>8 DEF TreeInv
  <2>2. ASSUME NEW v \in Visited' PROVE v = source \/ Hangs(v)'
    <3>1. CASE v = m
      BY <1>3, <1>5, <1>7, <3>1 DEF Hangs
    <3>2. CASE v # m
      <4>1. v \in Visited /\ v \in V /\ parent'[v] = parent[v]
        BY <1>1, <1>5, <1>6, <3>2
      <4>. QED BY <1>1, <1>7, <4>1 DEF TreeInv, Hangs
    <3>. QED BY <3>1, <3>2
  <2>. QED BY <1>7, <2>1, <2>2 DEF TreeInv
<1>10. Between(l)'
  <2>1. m \in UpTo(l + 1)
    BY <1>1, <1>3, LevelFacts
  <2>. QED BY <1>2, <1>6, <1>7, <2>1 DEF Between
<1>11. /\ parent' \in [V -> Int]
       /\ \A v \in V : parent'[v] \in V \cup {-1, -OutDegree(g', v)}
  BY <1>1, <1>3, <1>4, <1>5, <1>7 DEF TypeOK
<1>. QED BY <1>3, <1>6, <1>9, <1>10, <1>11

(* The vertex TDStep points at.                                            *)
LEMMA Pointed ==
  ASSUME IInv, stage = "td", it < last, NEW l \in Nat, LevelInv(l)
  PROVE  /\ it \in start .. end - 1 /\ it \in 0 .. in - 1
         /\ Slot(it) \in Level(l) /\ Slot(it) \in V
         /\ k \in Nat /\ k >= 1 /\ TopDownInv(l)
         /\ DOMAIN g.out[Slot(it)] = 1 .. OutDegree(g, Slot(it))
         /\ OutDegree(g, Slot(it)) \in Nat
<1>1. Searching /\ TopDownInv(l)
  BY DEF Searching, LevelInv
<1>2. TypeOK /\ IsGraph(g) /\ source \in V /\ SlotsInv
  BY <1>1, DuringSearch
<1>3. /\ start \in Nat /\ end \in Nat /\ in \in Nat /\ it \in Nat /\ k \in Nat
      /\ last = end /\ start <= it /\ k >= 1 /\ end <= in
  BY <1>1, <1>2, SharedType, LocalTypes DEF TopDownInv, SlotsInv
<1>4. it \in start .. end - 1 /\ it \in 0 .. in - 1
  BY <1>3
<1>5. Slot(it) \in Slots(start, end)
  BY <1>4 DEF Slots
<1>6. Slot(it) \in Level(l)
  BY <1>1, <1>5 DEF TopDownInv
<1>7. Slot(it) \in V
  BY <1>2, <1>6, LevelFacts
<1>. QED BY <1>1, <1>2, <1>3, <1>4, <1>6, <1>7, GraphType

LEMMA TDStepInv ==
  ASSUME IInv, TDStep
  PROVE  Searching' /\ TypeOK' /\ SearchInv'
<1>1. /\ Searching /\ Searching' /\ stage = "td" /\ stage' = "td" /\ it < last
      /\ k <= OutDegree(g, Slot(it)) /\ k' = k + 1
      /\ UNCHANGED <<given, pickers, trial, start, end, it, last, held, bitmaps,
                     edges_to_check, awake_count, old_awake_count, n, stage, printed>>
  BY DEF TDStep, Searching
<1>2. /\ TypeOK /\ IsGraph(g) /\ source \in V /\ SlotsInv /\ TreeInv /\ capacity = NumNodes
      /\ parent \in [V -> Int] /\ \A m \in V \ Visited : parent[m] < 0 /\ -parent[m] \in Nat
  BY <1>1, DuringSearch
<1>3. PICK l \in Nat : LevelInv(l)
  BY <1>1, DuringSearch
<1>. DEFINE p == Slot(it)
            v == g.out[p][k]
<1>4. /\ it \in start .. end - 1 /\ it \in 0 .. in - 1 /\ p \in Level(l) /\ p \in V
      /\ k \in Nat /\ k >= 1 /\ TopDownInv(l) /\ k \in DOMAIN g.out[p]
      /\ DOMAIN g.out[p] \subseteq Nat
  BY <1>1, <1>3, Pointed
<1>5. v \in Elems(g.out[p]) /\ v \in V
  BY <1>2, <1>4, GraphType DEF Elems
<1>. HIDE DEF p, v
<1>6. Between(l) /\ Slots(start, end) = Level(l) /\ Slots(end, in) = Visited \cap Level(l + 1)
  BY <1>4 DEF TopDownInv
<1>7. /\ g' = g /\ Level(l)' = Level(l) /\ Level(l + 1)' = Level(l + 1)
  BY <1>1, LevelsStay
<1>8. /\ it' \in Nat /\ last' \in Nat /\ held' \in Nat /\ k' \in Nat /\ n' \in Nat
      /\ front' \subseteq V /\ curr' \subseteq V
      /\ edges_to_check' \in Nat /\ awake_count' \in Nat /\ old_awake_count' \in Nat
      /\ block \in Nat /\ scout_count \in Nat
      /\ start \in Nat /\ end \in Nat /\ in \in Nat /\ it \in Nat /\ start <= end /\ end <= in
  <2>1. start \in Nat /\ end \in Nat /\ in \in Nat /\ start <= end /\ end <= in
    BY <1>2, SharedType DEF SlotsInv
  <2>2. k' \in Nat /\ front' = front /\ curr' = curr
    BY <1>1, <1>4 DEF bitmaps
  <2>. QED BY <1>1, <1>2, <2>1, <2>2, LocalTypes
<1>9. CASE parent[v] < 0
  <2>1. /\ parent' = [parent EXCEPT ![v] = p]
        /\ scout_count' = scout_count + (-parent[v]) /\ PushBack(v)
    BY <1>1, <1>9 DEF TDStep, p, v
  <2>2. v \notin Visited
    BY <1>2, <1>9 DEF Visited
  <2>3. /\ v \in Level(l + 1) /\ Visited' = Visited \cup {v} /\ TreeInv' /\ Between(l)'
        /\ parent' \in [V -> Int]
        /\ \A m \in V : parent'[m] \in V \cup {-1, -OutDegree(g', m)}
    BY <1>1, <1>4, <1>5, <1>6, <2>1, <2>2, Reaches
  <2>4. \A i \in 0 .. in - 1 : Slot(i) # v
    BY <1>2, <2>2 DEF SlotsInv
  <2>5. UNCHANGED <<start, end>> /\ Visited \subseteq Visited' /\ v \in Visited'
    BY <1>1, <2>3
  <2>6. /\ SlotsInv' /\ in' = in + 1 /\ block' = block /\ shared' \in Seq(V \cup {NoNode})
        /\ {in', start', end'} \subseteq 0 .. capacity'
        /\ \A i \in 0 .. in - 1 : Slot(i)' = Slot(i)
        /\ Slots(end, in)' = Slots(end, in) \cup {v}
    BY <1>1, <1>5, <2>1, <2>4, <2>5, PushKeepsSlots
  <2>7. scout_count' \in Nat
    BY <1>2, <1>5, <1>8, <2>1, <2>2
  <2>8. TypeOK'
    BY <1>1, <1>2, <1>8, <2>3, <2>6, <2>7, SearchTypes
  <2>9. \A i \in start .. end - 1 : i \in 0 .. in - 1 /\ Slot(i)' = Slot(i)
    <3>1. \A i \in start .. end - 1 : i \in 0 .. in - 1
      BY <1>8
    <3>. QED BY <2>6, <3>1
  <2>10. Slots(start, end)' = Slots(start, end)
    BY <1>1, <2>9 DEF Slots
  <2>11. Slot(it)' = p
    BY <1>1, <1>4, <2>9 DEF p, Slot
  <2>12. \A i \in start' .. it' - 1 : Elems(g'.out[Slot(i)']) \subseteq Visited'
    <3>1. \A i \in start .. it - 1 : Elems(g.out[Slot(i)]) \subseteq Visited /\ Slot(i)' = Slot(i)
      BY <1>4, <1>8, <2>9 DEF TopDownInv
    <3>. QED BY <1>1, <1>7, <2>5, <3>1
  <2>13. \A j \in DOMAIN g.out[p] : j < k' => g.out[p][j] \in Visited'
    <3>1. \A j \in DOMAIN g.out[p] : j < k' => j < k \/ j = k
      BY <1>1, <1>4
    <3>2. \A j \in DOMAIN g.out[p] : j < k => g.out[p][j] \in Visited
      BY <1>4, <1>8 DEF TopDownInv, p
    <3>. QED BY <2>3, <3>1, <3>2 DEF v
  <2>14. TopDownInv(l)'
    <3>1. held' = block' /\ last' = end' /\ start' <= it' /\ it' <= end' /\ k' >= 1
      BY <1>1, <1>4, <2>6 DEF TopDownInv
    <3>2. Slots(end, in)' = Visited' \cap Level(l + 1)'
      BY <1>6, <1>7, <2>3, <2>6
    <3>3. Slots(start, end)' = Level(l)'
      BY <1>6, <1>7, <2>10
    <3>4. it' < end' =>
            \A j \in DOMAIN g'.out[Slot(it)'] : j < k' => g'.out[Slot(it)'][j] \in Visited'
      BY <1>7, <2>11, <2>13
    <3>. QED BY <2>3, <2>12, <3>1, <3>2, <3>3, <3>4 DEF TopDownInv
  <2>. QED BY <1>1, <2>3, <2>6, <2>8, <2>14 DEF SearchInv, LevelInv
<1>10. CASE ~(parent[v] < 0)
  <2>1. UNCHANGED <<parent, scout_count, shared, in, block>>
    BY <1>1, <1>10 DEF TDStep, p, v
  <2>2. Visited' = Visited /\ v \in Visited
    <3>1. Visited' = Visited
      BY <1>1, <2>1, ParentsStay
    <3>. QED BY <1>2, <1>5, <1>10, <3>1 DEF Visited
  <2>3. TypeOK'
    <3>1. /\ parent' \in [V -> Int]
          /\ \A m \in V : parent'[m] \in V \cup {-1, -OutDegree(g', m)}
      BY <1>1, <1>2, <2>1, ParentsStay
    <3>2. /\ shared' \in Seq(V \cup {NoNode}) /\ {in', start', end'} \subseteq 0 .. capacity'
      BY <1>1, <1>2, <2>1, QueueStays
    <3>3. block' \in Nat /\ scout_count' \in Nat
      BY <1>8, <2>1
    <3>. QED BY <1>1, <1>2, <1>8, <3>1, <3>2, <3>3, SearchTypes
  <2>4. SlotsInv' /\ TreeInv'
    BY <1>1, <1>2, <2>1, <2>2, ParentsStay DEF SlotsInv, Slot
  <2>5. \A j \in DOMAIN g.out[p] : j < k' => g.out[p][j] \in Visited
    <3>1. \A j \in DOMAIN g.out[p] : j < k' => j < k \/ j = k
      BY <1>1, <1>4
    <3>2. \A j \in DOMAIN g.out[p] : j < k => g.out[p][j] \in Visited
      BY <1>4, <1>8 DEF TopDownInv, p
    <3>. QED BY <2>2, <3>1, <3>2 DEF v
  <2>6. TopDownInv(l)'
    <3>1. Slots(start, end)' = Slots(start, end) /\ Slots(end, in)' = Slots(end, in)
      BY <1>1, <2>1 DEF Slots, Slot
    <3>2. held' = block' /\ last' = end' /\ start' <= it' /\ it' <= end' /\ k' >= 1
      BY <1>1, <1>4, <2>1 DEF TopDownInv
    <3>3. Between(l)'
      BY <1>1, <1>6, <2>2, LevelsStay DEF Between
    <3>4. Slot(it)' = p /\ \A i : Slot(i)' = Slot(i)
      BY <1>1, <2>1 DEF Slot, p
    <3>5. \A i \in start' .. it' - 1 : Elems(g'.out[Slot(i)']) \subseteq Visited'
      BY <1>1, <1>4, <1>7, <2>2, <3>4 DEF TopDownInv
    <3>6. it' < end' =>
            \A j \in DOMAIN g'.out[Slot(it)'] : j < k' => g'.out[Slot(it)'][j] \in Visited'
      BY <1>7, <2>2, <2>5, <3>4
    <3>. QED BY <1>6, <1>7, <2>2, <3>1, <3>2, <3>3, <3>5, <3>6 DEF TopDownInv
  <2>. QED BY <1>1, <2>3, <2>4, <2>6 DEF SearchInv, LevelInv
<1>. QED BY <1>9, <1>10

LEMMA TDNextInv ==
  ASSUME IInv, TDNext
  PROVE  Searching' /\ TypeOK' /\ SearchInv'
<1>1. /\ Searching /\ Searching' /\ stage = "td" /\ stage' = "td" /\ it < last
      /\ k > OutDegree(g, Slot(it)) /\ it' = it + 1 /\ k' = 1
      /\ UNCHANGED <<given, pickers, trial, parent, queue, last, held, bitmaps, counters, n,
                     stage, printed>>
  BY DEF TDNext, Searching
<1>2. /\ TypeOK /\ IsGraph(g) /\ source \in V /\ SlotsInv /\ TreeInv
  BY <1>1, DuringSearch
<1>3. PICK l \in Nat : LevelInv(l)
  BY <1>1, DuringSearch
<1>. DEFINE p == Slot(it)
<1>4. /\ it \in start .. end - 1 /\ p \in Level(l) /\ p \in V
      /\ k \in Nat /\ TopDownInv(l)
      /\ DOMAIN g.out[p] = 1 .. OutDegree(g, p) /\ OutDegree(g, p) \in Nat
  BY <1>1, <1>3, Pointed
<1>. HIDE DEF p
<1>5. UNCHANGED <<shared, in, start, end, block, front, curr, parent>>
  BY <1>1 DEF queue, bitmaps
<1>6. start \in Nat /\ end \in Nat /\ it \in Nat
  BY <1>2, SharedType, LocalTypes
<1>7. TypeOK'
  <2>1. /\ block' \in Nat /\ it' \in Nat /\ last' \in Nat /\ held' \in Nat /\ k' \in Nat /\ n' \in Nat
        /\ front' \subseteq V /\ curr' \subseteq V
        /\ edges_to_check' \in Nat /\ scout_count' \in Nat /\ awake_count' \in Nat
        /\ old_awake_count' \in Nat
    BY <1>1, <1>2, <1>5, <1>6, LocalTypes DEF counters
  <2>2. /\ shared' \in Seq(V \cup {NoNode}) /\ {in', start', end'} \subseteq 0 .. capacity'
    BY <1>2, <1>5, QueueStays
  <2>3. /\ parent' \in [V -> Int]
        /\ \A m \in V : parent'[m] \in V \cup {-1, -OutDegree(g', m)}
    BY <1>1, <1>2, <1>5, ParentsStay
  <2>. QED BY <1>1, <1>2, <2>1, <2>2, <2>3, SearchTypes
<1>8. SlotsInv' /\ TreeInv' /\ Visited' = Visited
  BY <1>1, <1>2, <1>5, ParentsStay DEF SlotsInv, Slot
<1>9. TopDownInv(l)'
  <2>1. g' = g /\ Level(l)' = Level(l) /\ Level(l + 1)' = Level(l + 1) /\ (Between(l) => Between(l)')
    BY <1>1, <1>8, LevelsStay DEF Between
  <2>2. Slots(start, end)' = Slots(start, end) /\ Slots(end, in)' = Slots(end, in)
        /\ \A i : Slot(i)' = Slot(i)
    BY <1>5 DEF Slots, Slot
  <2>3. held' = block' /\ last' = end' /\ start' <= it' /\ it' <= end' /\ k' >= 1
    BY <1>1, <1>4, <1>5, <1>6 DEF TopDownInv
  <2>4. Elems(g.out[p]) \subseteq Visited
    <3>1. it < end /\ \A j \in DOMAIN g.out[p] : j < k
      BY <1>1, <1>4, <1>6 DEF p
    <3>2. \A j \in DOMAIN g.out[p] : g.out[p][j] \in Visited
      BY <1>4, <3>1 DEF TopDownInv, p
    <3>. QED BY <3>2 DEF Elems
  <2>5. \A i \in start' .. it' - 1 : Elems(g'.out[Slot(i)']) \subseteq Visited'
    <3>1. \A i \in start .. it' - 1 : i \in start .. it - 1 \/ i = it
      BY <1>1, <1>6
    <3>2. \A i \in start .. it - 1 : Elems(g.out[Slot(i)]) \subseteq Visited
      BY <1>4 DEF TopDownInv
    <3>. QED BY <1>5, <1>8, <2>1, <2>2, <2>4, <3>1, <3>2 DEF p
  <2>6. it' < end' =>
          \A j \in DOMAIN g'.out[Slot(it)'] : j < k' => g'.out[Slot(it)'][j] \in Visited'
    <3>. SUFFICES ASSUME it' < end' PROVE \A j \in DOMAIN g'.out[Slot(it)'] : ~(j < k')
      OBVIOUS
    <3>1. it' \in start .. end - 1
      BY <1>1, <1>4, <1>5, <1>6
    <3>2. Slot(it)' \in Slots(start, end)'
      BY <1>5, <3>1 DEF Slots
    <3>3. Slot(it)' \in V
      BY <1>2, <1>4, <2>1, <2>2, <3>2, LevelFacts DEF TopDownInv
    <3>4. DOMAIN g.out[Slot(it)'] = 1 .. OutDegree(g, Slot(it)') /\ OutDegree(g, Slot(it)') \in Nat
      BY <1>2, <3>3, GraphType
    <3>. QED BY <1>1, <2>1, <3>4
  <2>. QED BY <1>4, <1>8, <2>1, <2>2, <2>3, <2>5, <2>6 DEF TopDownInv
<1>. QED BY <1>1, <1>7, <1>8, <1>9 DEF SearchInv, LevelInv

(* All edges out of the level are seen, so the next one is complete.       *)
LEMMA NextLevelVisited ==
  ASSUME IsGraph(g), source \in V, NEW l \in Nat, Between(l),
         \A m \in Level(l + 1) : m \in Visited
  PROVE  Visited = UpTo(l + 1) /\ Visited \cap Level(l + 1) = Level(l + 1)
BY LevelFacts DEF Between

LEMMA EndTDStepInv ==
  ASSUME IInv, EndTDStep
  PROVE  Searching' /\ TypeOK' /\ SearchInv'
<1>1. /\ Searching /\ Searching' /\ stage = "td" /\ stage' = "decide" /\ it = last
      /\ start' = end /\ end' = in /\ it' = 0 /\ last' = 0 /\ held' = 0 /\ k' = 0
      /\ UNCHANGED <<given, pickers, trial, parent, shared, in, block, bitmaps, counters, n,
                     printed>>
  BY DEF EndTDStep, Searching, SlideWindow
<1>2. /\ TypeOK /\ IsGraph(g) /\ source \in V /\ SlotsInv /\ TreeInv
  BY <1>1, DuringSearch
<1>3. PICK l \in Nat : TopDownInv(l)
  BY <1>1, DuringSearch DEF LevelInv
<1>4. start \in Nat /\ end \in Nat /\ in \in Nat /\ start <= end /\ end <= in
  BY <1>2, SharedType DEF SlotsInv
<1>5. TypeOK'
  <2>1. /\ block' \in Nat /\ it' \in Nat /\ last' \in Nat /\ held' \in Nat /\ k' \in Nat /\ n' \in Nat
        /\ front' \subseteq V /\ curr' \subseteq V
        /\ edges_to_check' \in Nat /\ scout_count' \in Nat /\ awake_count' \in Nat
        /\ old_awake_count' \in Nat
    BY <1>1, <1>2, LocalTypes DEF counters, bitmaps
  <2>2. /\ shared' \in Seq(V \cup {NoNode}) /\ {in', start', end'} \subseteq 0 .. capacity'
    BY <1>1, <1>2, QueueStays
  <2>3. /\ parent' \in [V -> Int]
        /\ \A m \in V : parent'[m] \in V \cup {-1, -OutDegree(g', m)}
    BY <1>1, <1>2, ParentsStay
  <2>. QED BY <1>1, <1>2, <2>1, <2>2, <2>3, SearchTypes
<1>6. SlotsInv' /\ TreeInv' /\ Visited' = Visited
  <2>1. TreeInv' /\ Visited' = Visited /\ \A i : Slot(i)' = Slot(i)
    BY <1>1, <1>2, ParentsStay DEF Slot
  <2>. QED BY <1>1, <1>2, <1>4, <2>1 DEF SlotsInv
<1>7. \A m \in Level(l + 1) : m \in Visited
  <2>. SUFFICES ASSUME NEW m \in Level(l + 1) PROVE m \in Visited
    OBVIOUS
  <2>1. PICK p \in Level(l) : m \in Elems(g.out[p])
    BY <1>2, LevelFacts
  <2>2. PICK i \in start .. end - 1 : p = Slot(i)
    BY <1>3, <2>1 DEF TopDownInv, Slots
  <2>3. i \in start .. it - 1
    BY <1>1, <1>3 DEF TopDownInv
  <2>. QED BY <1>3, <2>1, <2>2, <2>3 DEF TopDownInv
<1>8. Visited = UpTo(l + 1) /\ Slots(end, in) = Level(l + 1)
  BY <1>2, <1>3, <1>7, NextLevelVisited DEF TopDownInv
<1>9. Level(l + 1)' = Level(l + 1) /\ UpTo(l + 1)' = UpTo(l + 1)
  BY <1>1, LevelsStay
<1>10. Slots(start, end)' = Slots(end, in)
  BY <1>1 DEF Slots, Slot
<1>11. l + 1 \in Nat /\ LevelInv(l + 1)'
  BY <1>1, <1>6, <1>8, <1>9, <1>10 DEF LevelInv
<1>. QED BY <1>1, <1>5, <1>6, <1>11 DEF SearchInv

LEMMA GoBottomUpInv ==
  ASSUME IInv, GoBottomUp
  PROVE  Searching' /\ TypeOK' /\ SearchInv'
<1>1. /\ Searching /\ Searching' /\ stage = "decide" /\ stage' = "bu"
      /\ start' = end /\ end' = in /\ front' = Slots(start, end) /\ curr' = {} /\ n' = 0
      /\ old_awake_count' = end - start /\ awake_count' = 0
      /\ UNCHANGED <<given, pickers, trial, parent, shared, in, block, pointers,
                     edges_to_check, scout_count, printed>>
  BY DEF GoBottomUp, Searching, SlideWindow, StartBUStep, Frontier, Window, Slots
<1>2. /\ TypeOK /\ IsGraph(g) /\ source \in V /\ SlotsInv /\ TreeInv
  BY <1>1, DuringSearch
<1>3. PICK l \in Nat : LevelInv(l)
  BY <1>1, DuringSearch
<1>4. start \in Nat /\ end \in Nat /\ in \in Nat /\ start <= end /\ end <= in
  BY <1>2, SharedType DEF SlotsInv
<1>5. front' = Level(l) /\ Visited = UpTo(l)
  BY <1>1, <1>3 DEF LevelInv
<1>6. /\ Level(l) \subseteq V /\ UpTo(l + 1) = UpTo(l) \cup Level(l + 1)
      /\ UpTo(l) \cap Level(l + 1) = {}
  BY <1>2, LevelFacts
<1>7. TypeOK'
  <2>1. /\ block' \in Nat /\ it' \in Nat /\ last' \in Nat /\ held' \in Nat /\ k' \in Nat
        /\ edges_to_check' \in Nat /\ scout_count' \in Nat
    BY <1>1, <1>2, LocalTypes DEF pointers
  <2>2. n' \in Nat /\ front' \subseteq V /\ curr' \subseteq V /\ awake_count' \in Nat
        /\ old_awake_count' \in Nat
    BY <1>1, <1>4, <1>5, <1>6
  <2>3. /\ shared' \in Seq(V \cup {NoNode}) /\ {in', start', end'} \subseteq 0 .. capacity'
    BY <1>1, <1>2, QueueStays
  <2>4. /\ parent' \in [V -> Int]
        /\ \A m \in V : parent'[m] \in V \cup {-1, -OutDegree(g', m)}
    BY <1>1, <1>2, ParentsStay
  <2>. QED BY <1>1, <1>2, <2>1, <2>2, <2>3, <2>4, SearchTypes
<1>8. SlotsInv' /\ TreeInv' /\ Visited' = Visited
  <2>1. TreeInv' /\ Visited' = Visited /\ \A i : Slot(i)' = Slot(i)
    BY <1>1, <1>2, ParentsStay DEF Slot
  <2>. QED BY <1>1, <1>2, <1>4, <2>1 DEF SlotsInv
<1>9. BottomUpInv(l)'
  <2>1. /\ Level(l)' = Level(l) /\ UpTo(l)' = UpTo(l) /\ Level(l + 1)' = Level(l + 1)
        /\ UpTo(l + 1)' = UpTo(l + 1)
    BY <1>1, LevelsStay
  <2>2. Between(l)'
    BY <1>5, <1>6, <1>8, <2>1 DEF Between
  <2>3. \A m \in Level(l + 1) : ~(m < n')
    <3>1. Level(l + 1) \subseteq Nat
      BY <1>2, VerticesAreNumbers DEF Level, LevelOf
    <3>. QED BY <1>1, <3>1
  <2>4. n' <= NumNodes
    BY <1>1, NumNodesAssumption
  <2>. QED BY <1>1, <1>5, <1>6, <1>8, <2>1, <2>2, <2>3, <2>4 DEF BottomUpInv
<1>. QED BY <1>1, <1>7, <1>8, <1>9 DEF SearchInv, LevelInv

(* What the sweep finds in the front is an in-neighbour on the level.      *)
LEMMA FirstInFrontIs ==
  ASSUME TypeOK, NEW m \in V, InFront(m) # {}
  PROVE  /\ FirstInFront(m) \in DOMAIN g.in[m]
         /\ g.in[m][FirstInFront(m)] \in front
         /\ g.in[m][FirstInFront(m)] \in V
         /\ m \in Elems(g.out[g.in[m][FirstInFront(m)]])
<1>1. g.in[m] \in Seq(V) /\ \A j \in DOMAIN g.in[m] : g.in[m][j] \in V
  BY GraphType
<1>2. DOMAIN g.in[m] \subseteq Nat
  BY <1>1
<1>3. InFront(m) \subseteq Nat
  BY <1>2 DEF InFront
<1>4. \E i \in InFront(m) : \A j \in InFront(m) : i <= j
  BY <1>3, LeastNumber
<1>5. FirstInFront(m) \in InFront(m)
  BY <1>4 DEF FirstInFront
<1>. DEFINE p == g.in[m][FirstInFront(m)]
<1>6. FirstInFront(m) \in DOMAIN g.in[m] /\ p \in front /\ p \in V
  BY <1>1, <1>5 DEF InFront
<1>7. p \in Elems(g.in[m])
  BY <1>6 DEF Elems
<1>8. m \in Elems(g.out[p])
  BY <1>6, <1>7, GraphType DEF IsGraph
<1>. QED BY <1>6, <1>8

LEMMA BUStepInv ==
  ASSUME IInv, BUStep
  PROVE  Searching' /\ TypeOK' /\ SearchInv'
<1>1. /\ Searching /\ Searching' /\ stage = "bu" /\ stage' = "bu" /\ n \in V /\ n' = n + 1
      /\ UNCHANGED <<given, pickers, trial, queue, pointers, front, edges_to_check,
                     scout_count, old_awake_count, stage, printed>>
  BY DEF BUStep, Searching
<1>2. /\ TypeOK /\ IsGraph(g) /\ source \in V /\ SlotsInv /\ TreeInv
      /\ parent \in [V -> Int] /\ Visited \subseteq V
  BY <1>1, DuringSearch
<1>3. PICK l \in Nat : BottomUpInv(l)
  BY <1>1, DuringSearch DEF LevelInv
<1>4. UNCHANGED <<shared, in, start, end, block, it, last, held, k>>
  BY <1>1 DEF queue, pointers
<1>5. /\ front = Level(l) /\ Between(l) /\ curr = Visited \cap Level(l + 1)
      /\ \A m \in Level(l + 1) : m < n => m \in Visited
  BY <1>3 DEF BottomUpInv
<1>6. /\ UNCHANGED <<g, source>> /\ Level(l)' = Level(l) /\ UpTo(l)' = UpTo(l)
      /\ Level(l + 1)' = Level(l + 1) /\ UpTo(l + 1)' = UpTo(l + 1)
  BY <1>1, LevelsStay
<1>7. Level(l) \subseteq V /\ Level(l + 1) \subseteq V
  BY DEF Level, LevelOf
<1>8. n' \in Nat /\ n' <= NumNodes /\ n \in Nat
  BY <1>1, NumNodesAssumption DEF V
(* Visited, the tree and the next bitmap go together.                      *)
<1>9. /\ TreeInv' /\ Between(l)' /\ Visited \subseteq Visited'
      /\ parent' \in [V -> Int]
      /\ \A m \in V : parent'[m] \in V \cup {-1, -OutDegree(g', m)}
      /\ curr' = Visited' \cap Level(l + 1) /\ awake_count' \in Nat
      /\ n \in Level(l + 1) => n \in Visited'
  <2>1. CASE parent[n] < 0 /\ InFront(n) # {}
    <3>. DEFINE p == g.in[n][FirstInFront(n)]
    <3>1. /\ parent' = [parent EXCEPT ![n] = p] /\ awake_count' = awake_count + 1
          /\ curr' = curr \cup {n}
      BY <2>1 DEF BUStep
    <3>2. p \in Level(l) /\ n \in Elems(g.out[p])
      BY <1>1, <1>2, <1>5, <2>1, FirstInFrontIs
    <3>3. n \notin Visited
      BY <1>1, <1>2, <2>1 DEF Visited
    <3>. HIDE DEF p
    <3>4. /\ n \in Level(l + 1) /\ Visited' = Visited \cup {n} /\ TreeInv' /\ Between(l)'
          /\ parent' \in [V -> Int]
          /\ \A m \in V : parent'[m] \in V \cup {-1, -OutDegree(g', m)}
      BY <1>1, <1>5, <3>1, <3>2, <3>3, Reaches
    <3>5. awake_count' \in Nat
      BY <1>2, <3>1, LocalTypes
    <3>. QED BY <1>5, <3>1, <3>4, <3>5
  <2>2. CASE ~(parent[n] < 0 /\ InFront(n) # {})
    <3>1. UNCHANGED <<parent, awake_count, curr>>
      BY <2>2 DEF BUStep
    <3>2. /\ Visited' = Visited /\ TreeInv' /\ parent' \in [V -> Int]
          /\ \A m \in V : parent'[m] \in V \cup {-1, -OutDegree(g', m)}
      BY <1>1, <1>2, <3>1, ParentsStay
    <3>3. Between(l)'
      BY <1>5, <1>6, <3>2 DEF Between
    <3>4. ASSUME n \in Level(l + 1) PROVE n \in Visited
      <4>1. PICK p \in Level(l) : n \in Elems(g.out[p])
        BY <1>2, <3>4, LevelFacts
      <4>2. p \in Elems(g.in[n])
        BY <1>1, <1>2, <1>7, <4>1 DEF IsGraph
      <4>3. InFront(n) # {}
        BY <1>5, <4>1, <4>2 DEF InFront, Elems
      <4>4. parent[n] \in Int /\ ~(parent[n] < 0)
        BY <1>1, <1>2, <2>2, <4>3
      <4>. QED BY <1>1, <4>4 DEF Visited
    <3>5. awake_count' \in Nat
      BY <1>2, <3>1, LocalTypes
    <3>. QED BY <1>5, <3>1, <3>2, <3>3, <3>4, <3>5
  <2>. QED BY <2>1, <2>2
<1>10. TypeOK'
  <2>1. /\ block' \in Nat /\ it' \in Nat /\ last' \in Nat /\ held' \in Nat /\ k' \in Nat
        /\ front' \subseteq V /\ edges_to_check' \in Nat /\ scout_count' \in Nat
        /\ old_awake_count' \in Nat
    BY <1>1, <1>2, <1>4, LocalTypes
  <2>2. curr' \subseteq V
    BY <1>7, <1>9
  <2>3. /\ shared' \in Seq(V \cup {NoNode}) /\ {in', start', end'} \subseteq 0 .. capacity'
    BY <1>2, <1>4, QueueStays
  <2>. QED BY <1>1, <1>2, <1>8, <1>9, <2>1, <2>2, <2>3, SearchTypes
<1>11. SlotsInv'
  <2>1. \A i : Slot(i)' = Slot(i)
    BY <1>4 DEF Slot
  <2>. QED BY <1>2, <1>4, <1>9, <2>1 DEF SlotsInv
<1>12. BottomUpInv(l)'
  <2>1. \A m \in Level(l + 1) : m < n' => m \in Visited'
    <3>1. \A m \in V : m \in Nat
      BY VerticesAreNumbers
    <3>2. \A m \in Nat : m < n' => m < n \/ m = n
      BY <1>1, <1>8
    <3>. QED BY <1>5, <1>7, <1>9, <3>1, <3>2
  <2>2. front' = Level(l)' /\ curr' = Visited' \cap Level(l + 1)'
    BY <1>1, <1>5, <1>6, <1>9
  <2>. QED BY <1>6, <1>8, <1>9, <2>1, <2>2 DEF BottomUpInv
<1>. QED BY <1>1, <1>9, <1>10, <1>11, <1>12 DEF SearchInv, LevelInv

(* The sweep saw every vertex of the next level.                           *)
LEMMA EndBUStepInv ==
  ASSUME IInv, EndBUStep
  PROVE  Searching' /\ TypeOK' /\ SearchInv'
<1>. DEFINE again == awake_count >= old_awake_count \/ awake_count > NumNodes \div beta
<1>1. /\ Searching /\ stage = "bu" /\ n = NumNodes /\ front' = curr /\ n' = 0
      /\ IF again THEN /\ curr' = {} /\ stage' = "bu" /\ UNCHANGED <<in, start, end>>
                       /\ old_awake_count' = awake_count /\ awake_count' = 0
         ELSE /\ curr' = front /\ stage' = "convert" /\ in' = 0 /\ start' = 0 /\ end' = 0
              /\ UNCHANGED <<awake_count, old_awake_count>>
      /\ UNCHANGED <<given, pickers, trial, parent, shared, block, pointers, edges_to_check,
                     scout_count, printed>>
  BY DEF EndBUStep, Searching, StartBUStep
<1>. HIDE DEF again
<1>2. /\ TypeOK /\ IsGraph(g) /\ source \in V /\ SlotsInv /\ TreeInv
  BY <1>1, DuringSearch
<1>3. PICK l \in Nat : BottomUpInv(l)
  BY <1>1, DuringSearch DEF LevelInv
<1>4. Searching'
  BY <1>1 DEF Searching
<1>5. \A m \in Level(l + 1) : m \in Visited
  <2>1. \A m \in Level(l + 1) : m < n
    BY <1>1, NumNodesAssumption DEF Level, LevelOf, V
  <2>. QED BY <1>3, <2>1 DEF BottomUpInv
<1>6. Visited = UpTo(l + 1) /\ front' = Level(l + 1)
  BY <1>1, <1>2, <1>3, <1>5, NextLevelVisited DEF BottomUpInv
<1>7. l + 1 \in Nat /\ (l + 1) + 1 \in Nat
  OBVIOUS
<1>8. \A j : Level(j)' = Level(j) /\ UpTo(j)' = UpTo(j)
  BY <1>1, LevelsStay
<1>9. Visited' = Visited /\ TreeInv'
  BY <1>1, <1>2, ParentsStay
<1>10. TypeOK'
  <2>1. /\ block' \in Nat /\ it' \in Nat /\ last' \in Nat /\ held' \in Nat /\ k' \in Nat
        /\ edges_to_check' \in Nat /\ scout_count' \in Nat
        /\ awake_count' \in Nat /\ old_awake_count' \in Nat
    BY <1>1, <1>2, LocalTypes DEF pointers
  <2>2. front' \subseteq V /\ curr' \subseteq V /\ n' \in Nat
    BY <1>1, <1>2, LocalTypes
  <2>3. /\ shared' \in Seq(V \cup {NoNode}) /\ {in', start', end'} \subseteq 0 .. capacity'
    BY <1>1, <1>2, QueueStays
  <2>4. /\ parent' \in [V -> Int]
        /\ \A m \in V : parent'[m] \in V \cup {-1, -OutDegree(g', m)}
    BY <1>1, <1>2, ParentsStay
  <2>5. stage' \in {"decide", "td", "bu", "convert", "returned"}
    BY <1>1
  <2>. QED BY <1>1, <1>2, <2>1, <2>2, <2>3, <2>4, <2>5, SearchTypes
<1>11. SlotsInv'
  <2>1. \A i : Slot(i)' = Slot(i)
    BY <1>1 DEF Slot
  <2>2. \A i : i \notin 0 .. 0 - 1
    OBVIOUS
  <2>. QED BY <1>1, <1>2, <1>9, <2>1, <2>2, NumNodesAssumption DEF SlotsInv
<1>12. /\ UpTo((l + 1) + 1) = UpTo(l + 1) \cup Level((l + 1) + 1)
       /\ UpTo(l + 1) \cap Level((l + 1) + 1) = {}
  BY <1>2, <1>7, LevelFacts
<1>13. \A j : \A m \in Level(j) : ~(m < n')
  BY <1>1, VerticesAreNumbers DEF Level, LevelOf
<1>14. LevelInv(l + 1)'
  <2>1. CASE again
    <3>1. BottomUpInv(l + 1)'
      BY <1>1, <1>6, <1>8, <1>9, <1>12, <1>13, <2>1, NumNodesAssumption DEF BottomUpInv, Between
    <3>. QED BY <1>1, <2>1, <3>1 DEF LevelInv
  <2>2. CASE ~again
    <3>1. \A i : i \notin 0 .. in' - 1
      BY <1>1, <2>2
    <3>2. Slots(0, in)' = {}
      BY <3>1 DEF Slots
    <3>3. {m \in front' : m < n'} = {}
      BY <1>6, <1>13
    <3>4. GatherInv(l + 1)'
      BY <1>1, <1>6, <1>8, <1>9, <2>2, <3>2, <3>3, NumNodesAssumption DEF GatherInv
    <3>. QED BY <1>1, <2>2, <3>4 DEF LevelInv
  <2>. QED BY <2>1, <2>2
<1>. QED BY <1>4, <1>7, <1>9, <1>10, <1>11, <1>14 DEF SearchInv

(* Gathering the front gives each of its vertices a slot of its own.       *)
LEMMA BitmapToQueueInv ==
  ASSUME IInv, BitmapToQueue
  PROVE  Searching' /\ TypeOK' /\ SearchInv'
<1>1. /\ Searching /\ Searching' /\ stage = "convert" /\ stage' = "convert" /\ n \in V
      /\ n' = n + 1
      /\ UNCHANGED <<given, pickers, trial, parent, start, end, pointers, bitmaps, counters,
                     stage, printed>>
  BY DEF BitmapToQueue, Searching
<1>2. /\ TypeOK /\ IsGraph(g) /\ source \in V /\ SlotsInv /\ TreeInv
  BY <1>1, DuringSearch
<1>3. PICK l \in Nat : GatherInv(l)
  BY <1>1, DuringSearch DEF LevelInv
<1>4. /\ front = Level(l) /\ Visited = UpTo(l) /\ start = 0 /\ end = 0
      /\ Slots(0, in) = {m \in front : m < n}
  BY <1>3 DEF GatherInv
<1>5. n \in Nat /\ n' \in Nat /\ n' <= NumNodes /\ front \subseteq V /\ front \subseteq Nat
  BY <1>1, <1>2, LocalTypes, VerticesAreNumbers, NumNodesAssumption DEF V
<1>6. Level(l)' = Level(l) /\ UpTo(l)' = UpTo(l) /\ front' = front
  BY <1>1, LevelsStay DEF bitmaps
<1>7. Visited' = Visited /\ TreeInv'
  BY <1>1, <1>2, ParentsStay
<1>8. /\ SlotsInv' /\ block' \in Nat /\ shared' \in Seq(V \cup {NoNode})
      /\ {in', start', end'} \subseteq 0 .. capacity'
      /\ Slots(0, in)' = {m \in front : m < n + 1}
  <2>1. CASE n \in front
    <3>1. PushBack(n)
      BY <2>1 DEF BitmapToQueue
    <3>2. \A i \in 0 .. in - 1 : Slot(i) # n
      BY <1>4, <1>5 DEF Slots
    <3>3. n \in Visited
      BY <1>2, <1>4, <2>1, LevelFacts
    <3>4. /\ SlotsInv' /\ block' = block /\ shared' \in Seq(V \cup {NoNode})
          /\ {in', start', end'} \subseteq 0 .. capacity'
          /\ Slots(end, in)' = Slots(end, in) \cup {n}
      BY <1>1, <1>7, <3>1, <3>2, <3>3, PushKeepsSlots
    <3>5. Slots(end, in)' = Slots(0, in)' /\ Slots(end, in) = Slots(0, in)
      BY <1>1, <1>4 DEF Slots
    <3>6. {m \in front : m < n + 1} = {m \in front : m < n} \cup {n}
      <4>1. \A m \in front : m < n + 1 <=> m < n \/ m = n
        BY <1>5, BelowNext
      <4>. QED BY <2>1, <4>1
    <3>. QED BY <1>2, <1>4, <3>4, <3>5, <3>6, LocalTypes
  <2>2. CASE n \notin front
    <3>1. UNCHANGED <<shared, in, block>>
      BY <2>2 DEF BitmapToQueue
    <3>2. \A i : Slot(i)' = Slot(i)
      BY <3>1 DEF Slot
    <3>3. SlotsInv'
      BY <1>1, <1>2, <1>7, <3>1, <3>2 DEF SlotsInv
    <3>4. Slots(0, in)' = Slots(0, in)
      BY <3>1, <3>2 DEF Slots
    <3>5. {m \in front : m < n + 1} = {m \in front : m < n}
      <4>1. \A m \in front : m < n + 1 <=> m < n \/ m = n
        BY <1>5, BelowNext
      <4>. QED BY <2>2, <4>1
    <3>. QED BY <1>1, <1>2, <1>4, <3>1, <3>3, <3>4, <3>5, QueueStays, LocalTypes
  <2>. QED BY <2>1, <2>2
<1>9. TypeOK'
  <2>1. /\ it' \in Nat /\ last' \in Nat /\ held' \in Nat /\ k' \in Nat
        /\ front' \subseteq V /\ curr' \subseteq V
        /\ edges_to_check' \in Nat /\ scout_count' \in Nat
        /\ awake_count' \in Nat /\ old_awake_count' \in Nat
    BY <1>1, <1>2, LocalTypes DEF pointers, bitmaps, counters
  <2>2. /\ parent' \in [V -> Int]
        /\ \A m \in V : parent'[m] \in V \cup {-1, -OutDegree(g', m)}
    BY <1>1, <1>2, ParentsStay
  <2>. QED BY <1>1, <1>2, <1>5, <1>8, <2>1, <2>2, SearchTypes
<1>10. GatherInv(l)'
  BY <1>1, <1>4, <1>5, <1>6, <1>7, <1>8 DEF GatherInv
<1>. QED BY <1>1, <1>7, <1>8, <1>9, <1>10 DEF SearchInv, LevelInv

LEMMA EndBitmapToQueueInv ==
  ASSUME IInv, EndBitmapToQueue
  PROVE  Searching' /\ TypeOK' /\ SearchInv'
<1>1. /\ Searching /\ Searching' /\ stage = "convert" /\ stage' = "decide" /\ n = NumNodes
      /\ n' = 0 /\ start' = end /\ end' = in /\ scout_count' = 1
      /\ UNCHANGED <<given, pickers, trial, parent, shared, in, block, pointers, bitmaps,
                     edges_to_check, awake_count, old_awake_count, printed>>
  BY DEF EndBitmapToQueue, Searching, SlideWindow
<1>2. /\ TypeOK /\ IsGraph(g) /\ source \in V /\ SlotsInv /\ TreeInv
  BY <1>1, DuringSearch
<1>3. PICK l \in Nat : GatherInv(l)
  BY <1>1, DuringSearch DEF LevelInv
<1>4. start \in Nat /\ end \in Nat /\ in \in Nat /\ start <= end /\ end <= in
  BY <1>2, SharedType DEF SlotsInv
<1>5. Level(l)' = Level(l) /\ UpTo(l)' = UpTo(l)
  BY <1>1, LevelsStay
<1>6. /\ TreeInv' /\ Visited' = Visited /\ \A i : Slot(i)' = Slot(i)
  BY <1>1, <1>2, ParentsStay DEF Slot
<1>7. SlotsInv'
  BY <1>1, <1>2, <1>4, <1>6 DEF SlotsInv
<1>8. TypeOK'
  <2>1. /\ block' \in Nat /\ it' \in Nat /\ last' \in Nat /\ held' \in Nat /\ k' \in Nat
        /\ front' \subseteq V /\ curr' \subseteq V /\ n' \in Nat
        /\ edges_to_check' \in Nat /\ scout_count' \in Nat
        /\ awake_count' \in Nat /\ old_awake_count' \in Nat
    BY <1>1, <1>2, LocalTypes DEF pointers, bitmaps
  <2>2. /\ shared' \in Seq(V \cup {NoNode}) /\ {in', start', end'} \subseteq 0 .. capacity'
    BY <1>1, <1>2, QueueStays
  <2>3. /\ parent' \in [V -> Int]
        /\ \A m \in V : parent'[m] \in V \cup {-1, -OutDegree(g', m)}
    BY <1>1, <1>2, ParentsStay
  <2>. QED BY <1>1, <1>2, <2>1, <2>2, <2>3, SearchTypes
<1>9. Slots(start, end)' = Level(l)
  <2>1. Slots(start, end)' = Slots(0, in)
    BY <1>1, <1>3, <1>6 DEF Slots, GatherInv
  <2>2. \A m \in Level(l) : m < n
    BY <1>1, NumNodesAssumption DEF Level, LevelOf, V
  <2>. QED BY <1>3, <2>1, <2>2 DEF GatherInv
<1>10. LevelInv(l)'
  BY <1>1, <1>3, <1>5, <1>6, <1>9 DEF LevelInv, GatherInv
<1>. QED BY <1>1, <1>6, <1>7, <1>8, <1>10 DEF SearchInv
-----------------------------------------------------------------------------
(***************************************************************************)
(* The statistics: the edges added up vertex by vertex are the edges out   *)
(* of the vertices that were reached.                                      *)
(***************************************************************************)
EdgesFrom(S) == {e \in Edges(g) : e[1] \in S}
Degrees == [m \in V |-> OutDegree(g, m)]

(* No neighbour is counted twice.                                          *)
LEMMA DegreeCounts ==
  ASSUME TypeOK, NEW m \in V
  PROVE  /\ IsFiniteSet(EdgesFrom({m}))
         /\ Cardinality(EdgesFrom({m})) = OutDegree(g, m)
<1>. DEFINE d == OutDegree(g, m)
            f == [j \in 1 .. d |-> <<m, g.out[m][j]>>]
<1>1. /\ d \in Nat /\ DOMAIN g.out[m] = 1 .. d
      /\ \A j \in 1 .. d : g.out[m][j] \in V
      /\ \A i, j \in 1 .. d : g.out[m][i] = g.out[m][j] => i = j
  BY GraphType DEF IsSimple
<1>. HIDE DEF d
<1>2. \A e : e \in EdgesFrom({m}) <=> \E j \in 1 .. d : e = <<m, g.out[m][j]>>
  <2>1. \A e : e \in EdgesFrom({m}) <=> e \in V \X V /\ e[1] = m /\ e[2] \in Elems(g.out[m])
    BY DEF EdgesFrom, Edges
  <2>2. \A v : v \in Elems(g.out[m]) <=> \E j \in 1 .. d : v = g.out[m][j]
    BY <1>1 DEF Elems
  <2>3. ASSUME NEW j \in 1 .. d PROVE <<m, g.out[m][j]>> \in EdgesFrom({m})
    BY <1>1, <2>1, <2>2
  <2>4. ASSUME NEW e \in EdgesFrom({m}) PROVE \E j \in 1 .. d : e = <<m, g.out[m][j]>>
    <3>1. e \in V \X V /\ e[1] = m /\ e[2] \in Elems(g.out[m])
      BY <2>1, <2>4
    <3>2. PICK j \in 1 .. d : e[2] = g.out[m][j]
      BY <2>2, <3>1
    <3>3. e = <<e[1], e[2]>>
      BY <3>1
    <3>. QED BY <3>1, <3>2, <3>3
  <2>. QED BY <2>3, <2>4
<1>3. /\ f \in [1 .. d -> EdgesFrom({m})]
      /\ \A i, j \in 1 .. d : f[i] = f[j] => i = j
      /\ \A e \in EdgesFrom({m}) : \E j \in 1 .. d : f[j] = e
  <2>1. f \in [1 .. d -> EdgesFrom({m})]
    BY <1>2
  <2>2. \A i, j \in 1 .. d : f[i] = f[j] => i = j
    BY <1>1
  <2>3. \A e \in EdgesFrom({m}) : \E j \in 1 .. d : f[j] = e
    BY <1>2
  <2>. QED BY <2>1, <2>2, <2>3
<1>4. IsFiniteSet(1 .. d) /\ Cardinality(1 .. d) = d
  <2>1. d \in Nat
    BY <1>1
  <2>. QED BY <2>1, FS_Interval
<1>. HIDE DEF f
<1>5. IsFiniteSet(EdgesFrom({m})) /\ Cardinality(EdgesFrom({m})) = d
  BY <1>3, <1>4, SameSize
<1>. QED BY <1>5 DEF d

LEMMA EdgesCounted ==
  ASSUME TypeOK, NEW S \in SUBSET V, NEW f, AddsUp(f, Degrees, S)
  PROVE  f[NumNodes] = Cardinality(EdgesFrom(S))
<1>. DEFINE Below(c) == {m \in S : m < c}
            T == {c \in Nat : c <= NumNodes => f[c] = Cardinality(EdgesFrom(Below(c)))}
<1>1. NumNodes \in Nat /\ S \subseteq Nat /\ \A m \in S : m < NumNodes
  BY NumNodesAssumption DEF V
<1>2. \A A : IsFiniteSet(EdgesFrom(A)) /\ Cardinality(EdgesFrom(A)) \in Nat
  <2>1. \A A : EdgesFrom(A) \in SUBSET Edges(g)
    BY DEF EdgesFrom
  <2>. QED BY <2>1, EdgesFinite, FS_Subset, FS_CardinalityType
<1>3. 0 \in T
  <2>1. Below(0) = {}
    <3>1. \A m \in Nat : ~(m < 0)
      OBVIOUS
    <3>. QED BY <1>1, <3>1
  <2>2. EdgesFrom({}) = {}
    BY DEF EdgesFrom
  <2>3. EdgesFrom(Below(0)) = {}
    BY <2>1, <2>2
  <2>. QED BY <2>3, FS_EmptySet DEF AddsUp
<1>4. ASSUME NEW c \in T PROVE c + 1 \in T
  <2>. SUFFICES ASSUME c + 1 <= NumNodes PROVE f[c + 1] = Cardinality(EdgesFrom(Below(c + 1)))
    OBVIOUS
  <2>1. c \in V /\ f[c] = Cardinality(EdgesFrom(Below(c))) /\ f[c + 1] = f[c] + Share(Degrees, S, c)
    <3>1. c \in V /\ c <= NumNodes
      BY <1>1 DEF V
    <3>. QED BY <3>1 DEF AddsUp
  <2>2. CASE c \in S
    <3>1. Below(c + 1) = Below(c) \cup {c} /\ c \notin Below(c)
      <4>1. \A m \in S : m < c + 1 <=> m < c \/ m = c
        BY <1>1, BelowNext
      <4>2. ~(c < c)
        OBVIOUS
      <4>. QED BY <2>2, <4>1, <4>2
    <3>. DEFINE B == Below(c)
    <3>. HIDE DEF B
    <3>2. EdgesFrom(B \cup {c}) = EdgesFrom(B) \cup EdgesFrom({c})
      BY DEF EdgesFrom
    <3>3. EdgesFrom(B) \cap EdgesFrom({c}) = {}
      BY <3>1 DEF EdgesFrom, B
    <3>4. Cardinality(EdgesFrom({c})) = OutDegree(g, c)
      BY <2>1, DegreeCounts
    <3>5. Cardinality(EdgesFrom(B) \cup EdgesFrom({c})) = Cardinality(EdgesFrom(B)) + Cardinality(EdgesFrom({c})) - 0
      <4>1. IsFiniteSet(EdgesFrom(B)) /\ IsFiniteSet(EdgesFrom({c}))
        BY <1>2
      <4>2. Cardinality(EdgesFrom(B) \cup EdgesFrom({c}))
              = Cardinality(EdgesFrom(B)) + Cardinality(EdgesFrom({c}))
                - Cardinality(EdgesFrom(B) \cap EdgesFrom({c}))
        BY <4>1, FS_Union, Zenon
      <4>. QED BY <3>3, <4>2, FS_EmptySet, Zenon
    <3>6. Share(Degrees, S, c) = OutDegree(g, c)
      BY <2>1, <2>2 DEF Share, Degrees
    <3>7. Below(c + 1) = B \cup {c}
      BY <3>1 DEF B
    <3>8. f[c] = Cardinality(EdgesFrom(B))
      BY <2>1 DEF B
    <3>9. f[c + 1] = Cardinality(EdgesFrom(B \cup {c}))
      <4>1. Cardinality(EdgesFrom(B)) \in Nat /\ Cardinality(EdgesFrom({c})) \in Nat
        BY <1>2
      <4>2. f[c + 1] = f[c] + Share(Degrees, S, c)
        BY <2>1
      <4>. DEFINE x == Cardinality(EdgesFrom(B))
                  y == Cardinality(EdgesFrom({c}))
      <4>3. f[c + 1] = x + y
        BY <3>4, <3>6, <3>8, <4>2
      <4>4. Cardinality(EdgesFrom(B \cup {c})) = x + y - 0
        BY <3>2, <3>5
      <4>5. x \in Nat /\ y \in Nat
        BY <4>1
      <4>. HIDE DEF x, y
      <4>6. x + y - 0 = x + y
        BY <4>5
      <4>. QED BY <4>3, <4>4, <4>6
    <3>. QED BY <3>7, <3>9
  <2>3. CASE c \notin S
    <3>1. Below(c + 1) = Below(c)
      <4>1. \A m \in S : m < c + 1 <=> m < c \/ m = c
        BY <1>1, BelowNext
      <4>. QED BY <2>3, <4>1
    <3>2. Share(Degrees, S, c) = 0
      BY <2>3 DEF Share
    <3>3. Cardinality(EdgesFrom(Below(c))) \in Nat
      BY <1>2
    <3>. QED BY <2>1, <3>1, <3>2, <3>3
  <2>. QED BY <2>2, <2>3
<1>5. T = Nat
  <2>1. T \subseteq Nat /\ \A c \in T : c + 1 \in T
    BY <1>4
  <2>. HIDE DEF T
  <2>. QED BY <1>3, <2>1, Induction
<1>6. f[NumNodes] = Cardinality(EdgesFrom(Below(NumNodes)))
  <2>1. NumNodes \in T
    BY <1>1, <1>5
  <2>. QED BY <1>1, <2>1
<1>7. Below(NumNodes) = S
  BY <1>1
<1>. QED BY <1>6, <1>7

LEMMA StatsExact ==
  ASSUME TypeOK
  PROVE  PrintBFSStats = [nodes |-> Cardinality(Visited), edges |-> Cardinality(EdgesFrom(Visited))]
<1>. DEFINE N == NumNodes
            R == {m \in V : parent[m] >= 0}
            Sums(f) == [m \in 0 .. N |->
                         IF m = 0 THEN 0
                         ELSE f[m - 1] + IF m - 1 \in R THEN OutDegree(g, m - 1) ELSE 0]
            e == CHOOSE e : e = [m \in 0 .. N |->
                         IF m = 0 THEN 0
                         ELSE e[m - 1] + IF m - 1 \in R THEN OutDegree(g, m - 1) ELSE 0]
<1>1. N \in Nat /\ V = 0 .. N - 1 /\ R = Visited /\ R \in SUBSET V
  BY NumNodesAssumption DEF V, Visited
<1>2. Degrees \in [V -> Nat]
  BY GraphType DEF Degrees
<1>3. PICK f : AddsUp(f, Degrees, R)
  BY <1>2, SumExists
<1>4. ASSUME NEW m \in 0 .. N, m # 0
      PROVE  /\ m - 1 \in V /\ (m - 1) + 1 = m
             /\ Share(Degrees, R, m - 1) = IF m - 1 \in R THEN OutDegree(g, m - 1) ELSE 0
  <2>1. m - 1 \in V /\ (m - 1) + 1 = m
    BY <1>1, <1>4
  <2>. QED BY <2>1 DEF Share, Degrees
<1>5. f = Sums(f)
  <2>1. f \in [0 .. N -> Nat] /\ f[0] = 0
    BY <1>3 DEF AddsUp
  <2>2. \A m \in 0 .. N : m # 0 => f[m] = f[m - 1] + Share(Degrees, R, m - 1)
    BY <1>3, <1>4 DEF AddsUp
  <2>3. \A m \in 0 .. N : f[m] = IF m = 0 THEN 0
                         ELSE f[m - 1] + IF m - 1 \in R THEN OutDegree(g, m - 1) ELSE 0
    BY <1>4, <2>1, <2>2
  <2>. QED BY <2>1, <2>3
<1>6. e = Sums(e)
  BY <1>5, Zenon
<1>7. PrintBFSStats = [nodes |-> Cardinality(R), edges |-> e[N]]
  BY Zenon DEF PrintBFSStats
<1>. HIDE DEF e, R
<1>8. e[N] = f[N]
  <2>. DEFINE T == {c \in Nat : c <= N => e[c] = f[c]}
  <2>1. 0 \in T
    <3>1. 0 \in 0 .. N
      BY <1>1
    <3>. QED BY <1>5, <1>6, <3>1
  <2>2. ASSUME NEW c \in T PROVE c + 1 \in T
    <3>. SUFFICES ASSUME c + 1 <= N PROVE e[c + 1] = f[c + 1]
      OBVIOUS
    <3>1. c + 1 \in 0 .. N /\ c + 1 # 0 /\ (c + 1) - 1 = c /\ c <= N
      BY <1>1
    <3>2. e[c] = f[c]
      BY <3>1
    <3>. QED BY <1>5, <1>6, <3>1, <3>2
  <2>3. T \subseteq Nat /\ \A c \in T : c + 1 \in T
    BY <2>2
  <2>4. T = Nat
    <3>. HIDE DEF T
    <3>. QED BY <2>1, <2>3, Induction
  <2>. QED BY <1>1, <2>4
<1>9. f[N] = Cardinality(EdgesFrom(R))
  BY <1>1, <1>3, EdgesCounted
<1>. QED BY <1>1, <1>7, <1>8, <1>9
-----------------------------------------------------------------------------
(***************************************************************************)
(* The steps between searches.                                             *)
(***************************************************************************)
(* Nothing but the trial's own variables moves.                            *)
LEMMA Resting ==
  ASSUME IInv, ~Searching, ~Searching',
         UNCHANGED <<given, parent, queue, pointers, bitmaps, counters, n>>,
         {rng', verifier_rng'} \subseteq States,
         {source', verify_source'} \subseteq V \cup {NoNode},
         trial' \in 0 .. cl.num_trials,
         stage' \in {"trial", "pick", "search", "returned", "verify", "judge", "free"},
         stats' \in Seq([nodes : Nat, edges : Nat]), verdicts' \in Seq(BOOLEAN)
  PROVE  TypeOK' /\ OptionsInv' /\ SearchInv'
<1>. USE DEF given, queue, pointers, bitmaps, counters, States
<1>1. TypeOK'
  <2>1. /\ g' \in Graphs /\ stream' \in Streams /\ alpha' \in Alphas /\ beta' \in Betas
        /\ {rng', verifier_rng'} \subseteq 1 .. Cycle(stream')
        /\ trial' \in 0 .. cl'.num_trials
    BY DEF IInv, TypeOK
  <2>2. /\ parent' \in [V -> Int] /\ \A m \in V : parent'[m] \in V \cup {-1, -OutDegree(g', m)}
        /\ shared' \in Seq(V \cup {NoNode}) /\ {in', start', end'} \subseteq 0 .. capacity'
    BY DEF IInv, TypeOK, capacity
  <2>3. /\ {block', it', last', held', k', n'} \subseteq Nat
        /\ {front', curr'} \subseteq SUBSET V
        /\ {edges_to_check', scout_count', awake_count', old_awake_count'} \subseteq Nat
    BY DEF IInv, TypeOK
  <2>4. stage' \in {"trial", "pick", "search", "decide", "td", "bu", "convert", "returned",
                    "verify", "judge", "free"}
    OBVIOUS
  <2>. QED BY <2>1, <2>2, <2>3, <2>4 DEF TypeOK
<1>2. OptionsInv'
  BY DEF IInv, OptionsInv
<1>3. SearchInv'
  BY DEF IInv, SearchInv
<1>. QED BY <1>1, <1>2, <1>3

LEMMA RestTypes ==
  ASSUME IInv
  PROVE  /\ TypeOK /\ {rng, verifier_rng} \subseteq States
         /\ {source, verify_source} \subseteq V \cup {NoNode}
         /\ trial \in 0 .. cl.num_trials /\ trial \in Nat /\ cl.num_trials \in Nat
         /\ stats \in Seq([nodes : Nat, edges : Nat]) /\ verdicts \in Seq(BOOLEAN)
         /\ stream \in Streams
<1>1. TypeOK /\ cl.num_trials \in Nat
  BY DEF IInv, OptionsInv
<1>2. /\ {rng, verifier_rng} \subseteq States
      /\ {source, verify_source} \subseteq V \cup {NoNode}
      /\ trial \in 0 .. cl.num_trials
      /\ stats \in Seq([nodes : Nat, edges : Nat]) /\ verdicts \in Seq(BOOLEAN)
      /\ stream \in Streams
  BY <1>1, Zenon DEF TypeOK, States
<1>3. trial \in Nat
  BY <1>1, <1>2
<1>. QED BY <1>1, <1>2, <1>3

LEMMA StartTrialInv ==
  ASSUME IInv, StartTrial
  PROVE  IInv'
<1>1. /\ stage = "trial" /\ stage' = "pick" /\ trial < cl.num_trials
      /\ UNCHANGED <<given, pickers, trial, parent, queue, pointers, bitmaps, counters, n, printed>>
      /\ UNCHANGED <<g, cl, stream, rng, verifier_rng, source, verify_source, stats, verdicts>>
      /\ ~Searching /\ ~Searching'
  BY DEF StartTrial, Searching, given, pickers, printed
<1>2. TypeOK' /\ OptionsInv' /\ SearchInv'
  BY <1>1, RestTypes, Resting
<1>3. SourceInv' /\ ResultInv'
  BY <1>1 DEF SourceInv, ResultInv
<1>4. PickersInv'
  BY <1>1 DEF IInv, PickersInv, Given
<1>5. PrintedInv'
  BY <1>1 DEF IInv, PrintedInv
<1>. QED BY <1>2, <1>3, <1>4, <1>5 DEF IInv

LEMMA PickNextInv ==
  ASSUME IInv, PickNext
  PROVE  IInv'
<1>1. /\ stage = "pick"
      /\ IF Given THEN source' = cl.start_vertex /\ UNCHANGED rng
         ELSE rng' = PickerRand(rng) /\ source' = stream[rng']
      /\ stage' = IF Given \/ OutDegree(g, source') # 0 THEN "search" ELSE "pick"
      /\ UNCHANGED <<given, trial, parent, queue, pointers, bitmaps, counters, n>>
      /\ UNCHANGED <<g, cl, stream, verifier_rng, verify_source, stats, verdicts>>
      /\ ~Searching /\ ~Searching'
  BY DEF PickNext, Searching, given, printed
<1>2. rng' \in States /\ source' \in V
  <2>1. CASE Given
    BY <1>1, <2>1, RestTypes DEF IInv, OptionsInv, Given
  <2>2. CASE ~Given
    BY <1>1, <2>2, RestTypes, StreamType
  <2>. QED BY <2>1, <2>2
<1>3. TypeOK' /\ OptionsInv' /\ SearchInv'
  BY <1>1, <1>2, RestTypes, Resting
<1>4. \A s : Barren(s)' = Barren(s)
  BY <1>1 DEF Barren
<1>5. SourceInv'
  <2>1. stage' = "search" \/ stage' = "pick"
    BY <1>1
  <2>2. stage' = "search" => IF Given' THEN source' = cl'.start_vertex
                             ELSE source' = stream'[rng'] /\ OutDegree(g', stream'[rng']) # 0
    BY <1>1 DEF Given
  <2>. QED BY <1>2, <2>1, <2>2 DEF SourceInv, Barren
<1>6. ResultInv'
  BY <1>1 DEF ResultInv
<1>7. PickersInv'
  <2>. SUFFICES ASSUME cl.do_verify, ~Given PROVE PickersInv'
    BY <1>1 DEF PickersInv, Given
  <2>1. verifier_rng = rng \/ (DrawnFrom(verifier_rng, rng) /\ Barren(rng))
    BY <1>1 DEF IInv, PickersInv
  <2>2. DrawnFrom(verifier_rng, PickerRand(rng))
    BY <2>1, RestTypes, DrawFirst, DrawNext
  <2>3. \A a, b : DrawnFrom(a, b)' = DrawnFrom(a, b)
    BY <1>1, <1>4 DEF DrawnFrom, States, PickerRand, Cycle
  <2>4. DrawnFrom(verifier_rng, rng)'
    BY <1>1, <2>2, <2>3
  <2>5. stage' = "pick" => Barren(rng)'
    BY <1>1 DEF Barren
  <2>6. stage' = "search" \/ stage' = "pick"
    BY <1>1
  <2>. QED BY <2>4, <2>5, <2>6 DEF PickersInv
<1>8. PrintedInv'
  BY <1>1 DEF IInv, PrintedInv
<1>. QED BY <1>3, <1>5, <1>6, <1>7, <1>8 DEF IInv

(* Drawing from where it is, the verifier comes to the kernel's source.    *)
LEMMA VerifierPickNextInv ==
  ASSUME IInv, VerifierPickNext
  PROVE  IInv'
<1>1. /\ stage = "verify"
      /\ IF Given THEN verify_source' = cl.start_vertex /\ UNCHANGED verifier_rng
         ELSE verifier_rng' = PickerRand(verifier_rng) /\ verify_source' = stream[verifier_rng']
      /\ stage' = IF Given \/ OutDegree(g, verify_source') # 0 THEN "judge" ELSE "verify"
      /\ UNCHANGED <<given, trial, parent, queue, pointers, bitmaps, counters, n>>
      /\ UNCHANGED <<g, cl, stream, rng, source, parent, trial, stats, verdicts>>
      /\ ~Searching /\ ~Searching'
  BY DEF VerifierPickNext, Searching, given, printed
<1>2. /\ source \in V /\ cl.do_verify
      /\ IF Given THEN source = cl.start_vertex ELSE source = stream[rng] /\ ~Barren(rng)
  BY <1>1 DEF IInv, SourceInv
<1>3. verifier_rng' \in States /\ verify_source' \in V
  <2>1. CASE Given
    BY <1>1, <1>2, <2>1, RestTypes
  <2>2. CASE ~Given
    BY <1>1, <2>2, RestTypes, StreamType
  <2>. QED BY <2>1, <2>2
<1>4. TypeOK' /\ OptionsInv' /\ SearchInv'
  BY <1>1, <1>3, RestTypes, Resting
<1>5. /\ Given' = Given /\ \A s : Barren(s)' = Barren(s)
      /\ stage' = "verify" \/ stage' = "judge"
      /\ \A a, b : DrawnFrom(a, b)' = DrawnFrom(a, b)
  BY <1>1 DEF Given, Barren, DrawnFrom, States, PickerRand, Cycle
<1>6. ~Given => IF stage' = "verify" THEN DrawnFrom(verifier_rng', rng) ELSE verifier_rng' = rng
  <2>. SUFFICES ASSUME ~Given
                PROVE  IF stage' = "verify" THEN DrawnFrom(verifier_rng', rng) ELSE verifier_rng' = rng
    OBVIOUS
  <2>1. DrawnFrom(verifier_rng, rng)
    BY <1>1, <1>2 DEF IInv, PickersInv
  <2>2. IF Barren(verifier_rng') THEN DrawnFrom(verifier_rng', rng) ELSE rng = verifier_rng'
    BY <1>1, <1>2, <2>1, RestTypes, DrawAgain
  <2>3. stage' = "verify" <=> Barren(verifier_rng')
    BY <1>1 DEF Barren
  <2>. QED BY <2>2, <2>3
<1>7. SourceInv'
  <2>1. stage' = "judge" => verify_source' = source
    BY <1>1, <1>2, <1>6
  <2>. QED BY <1>1, <1>2, <1>5, <2>1 DEF SourceInv
<1>8. PickersInv'
  BY <1>1, <1>5, <1>6 DEF PickersInv
<1>9. PrintedInv'
  BY <1>1, <1>5 DEF IInv, PrintedInv
<1>10. ResultInv'
  <2>1. IsShortestPathTree
    BY <1>1 DEF IInv, ResultInv
  <2>2. IsShortestPathTree'
    BY <1>1, <2>1 DEF IsShortestPathTree
  <2>3. Reachable' = Reachable
    BY <1>1 DEF Reachable
  <2>. QED BY <1>1, <1>5, <2>2, <2>3 DEF IInv, ResultInv
<1>. QED BY <1>4, <1>7, <1>8, <1>9, <1>10 DEF IInv

LEMMA StartSearchInv ==
  ASSUME IInv, StartSearch
  PROVE  IInv'
<1>1. /\ stage = "search" /\ stage' = "decide"
      /\ parent' = [InitParent EXCEPT ![source] = source]
      /\ shared' = [i \in 1 .. SlidingQueueInit |-> IF i = 1 THEN source ELSE NoNode]
      /\ in' = 1 /\ start' = 0 /\ end' = 1 /\ block' = 0 /\ front' = {} /\ curr' = {}
      /\ edges_to_check' = NumEdgesDirected /\ scout_count' = OutDegree(g, source)
      /\ UNCHANGED <<given, pickers, trial, pointers, awake_count, old_awake_count, n, printed>>
      /\ UNCHANGED <<g, cl, stream, rng, verifier_rng, source, verify_source, stats, verdicts>>
      /\ Searching'
  BY DEF StartSearch, Searching, given, pickers, printed
<1>2. TypeOK /\ IsGraph(g) /\ source \in V /\ NumNodes \in Nat \ {0} /\ source \in Nat
  BY <1>1, GraphType, NumNodesAssumption, VerticesAreNumbers DEF IInv, SourceInv
<1>3. \A m \in V : /\ OutDegree(g, m) \in Nat
                   /\ InitParent[m] = (IF OutDegree(g, m) # 0 THEN -OutDegree(g, m) ELSE -1)
  BY <1>2, GraphType DEF InitParent
<1>4. \A m \in V : parent'[m] = IF m = source THEN source ELSE InitParent[m]
  BY <1>1, <1>2 DEF InitParent
<1>5. /\ parent' \in [V -> Int] /\ \A m \in V : parent'[m] \in V \cup {-1, -OutDegree(g', m)}
  <2>1. \A m \in V : parent'[m] \in V \cup {-1, -OutDegree(g', m)} /\ parent'[m] \in Int
    BY <1>1, <1>2, <1>3, <1>4
  <2>2. parent' = [m \in V |-> parent'[m]]
    BY <1>1 DEF InitParent
  <2>. QED BY <2>1, <2>2
<1>6. Visited' = {source}
  <2>1. \A m \in V : m # source => ~(parent'[m] >= 0)
    BY <1>3, <1>4
  <2>2. parent'[source] >= 0
    BY <1>2, <1>4
  <2>. QED BY <1>2, <2>1, <2>2 DEF Visited
<1>7. /\ shared' \in Seq(V \cup {NoNode}) /\ Len(shared') = NumNodes /\ shared'[1] = source
      /\ {in', start', end'} \subseteq 0 .. capacity'
  <2>1. 1 \in 1 .. NumNodes
    BY <1>2
  <2>2. shared' = [i \in 1 .. NumNodes |-> IF i = 1 THEN source ELSE NoNode]
    BY <1>1 DEF SlidingQueueInit
  <2>3. \A i \in 1 .. NumNodes : (IF i = 1 THEN source ELSE NoNode) \in V \cup {NoNode}
    BY <1>2
  <2>4. shared' \in Seq(V \cup {NoNode}) /\ Len(shared') = NumNodes /\ shared'[1] = source
    BY <1>2, <2>1, <2>2, <2>3
  <2>5. capacity' = NumNodes
    BY <2>4 DEF capacity
  <2>6. {in', start', end'} \subseteq 0 .. NumNodes
    BY <1>1, <1>2
  <2>. QED BY <2>4, <2>5, <2>6
<1>8. TypeOK'
  <2>1. /\ block' \in Nat /\ it' \in Nat /\ last' \in Nat /\ held' \in Nat /\ k' \in Nat /\ n' \in Nat
        /\ awake_count' \in Nat /\ old_awake_count' \in Nat
    BY <1>1, <1>2, LocalTypes DEF pointers
  <2>2. front' \subseteq V /\ curr' \subseteq V /\ scout_count' \in Nat /\ edges_to_check' \in Nat
    BY <1>1, <1>2, <1>3, EdgesFinite DEF NumEdgesDirected
  <2>. QED BY <1>1, <1>2, <1>5, <1>7, <2>1, <2>2, SearchTypes
<1>9. SlotsInv' /\ Slots(start, end)' = {source}
  <2>1. \A i : i \in 0 .. in' - 1 <=> i = 0
    BY <1>1
  <2>2. \A i : i = 0 => Slot(i)' = source
    BY <1>7 DEF Slot
  <2>3. SlotsInv'
    <3>1. Len(shared') = NumNodes /\ block' = 0
      BY <1>1, <1>7
    <3>2. start' <= end' /\ end' <= in' /\ in' <= NumNodes
      BY <1>1, <1>2
    <3>3. \A i \in 0 .. in' - 1 : Slot(i)' \in Visited'
      BY <1>6, <2>1, <2>2
    <3>4. \A i, j \in 0 .. in' - 1 : Slot(i)' = Slot(j)' => i = j
      BY <2>1
    <3>. QED BY <3>1, <3>2, <3>3, <3>4 DEF SlotsInv
  <2>4. \A i : i \in start' .. end' - 1 <=> i = 0
    BY <1>1
  <2>5. Slots(start, end)' = {Slot(i)' : i \in start' .. end' - 1}
    BY DEF Slots
  <2>6. Slots(start, end)' = {source}
    BY <2>2, <2>4, <2>5
  <2>. QED BY <2>3, <2>6
<1>10. TreeInv'
  BY <1>1, <1>2, <1>4, <1>6 DEF TreeInv
<1>11. 0 \in Nat /\ LevelInv(0)'
  <2>1. Level(0) = {source} /\ UpTo(0) = {source}
    <3>. DEFINE d == Hops
    <3>1. d = Depth(g, source)
      BY DEF Hops
    <3>. HIDE DEF d
    <3>2. LevelOf(d, 0) = {source} /\ UpToOf(d, 0) = {source}
      BY <1>2, <3>1, FirstLevelOf
    <3>. QED BY <3>2 DEF d, Level, UpTo
  <2>2. Level(0)' = {source} /\ UpTo(0)' = {source}
    BY <1>1, <2>1, LevelsStay
  <2>. QED BY <1>1, <1>6, <1>9, <2>2 DEF LevelInv
<1>12. SearchInv'
  BY <1>1, <1>9, <1>10, <1>11 DEF SearchInv
<1>13. OptionsInv' /\ SourceInv'
  BY <1>1 DEF IInv, OptionsInv, SourceInv, Given, Barren
<1>14. PickersInv'
  BY <1>1 DEF IInv, PickersInv, Given, Barren, DrawnFrom, States, PickerRand, Cycle
<1>15. PrintedInv' /\ ResultInv'
  BY <1>1 DEF IInv, PrintedInv, ResultInv
<1>. QED BY <1>8, <1>12, <1>13, <1>14, <1>15 DEF IInv

(* The queue is empty at the level behind the last one.                    *)
LEMMA SearchedAll ==
  ASSUME IInv, stage = "decide", start = end
  PROVE  Visited = Reachable
<1>1. Searching
  BY DEF Searching
<1>2. PICK l \in Nat : LevelInv(l)
  BY <1>1, DuringSearch
<1>3. Slots(start, end) = Level(l) /\ Visited = UpTo(l)
  BY <1>2 DEF LevelInv
<1>4. \A i : i \notin start .. end - 1
  BY <1>1, DuringSearch, SharedType
<1>5. Level(l) = {}
  BY <1>3, <1>4 DEF Slots
<1>. DEFINE d == Hops
<1>6. d = Depth(g, source)
  BY DEF Hops
<1>7. LevelOf(d, l) = {}
  BY <1>5 DEF Level
<1>. HIDE DEF d
<1>8. UpToOf(d, l) = Reachable
  BY <1>1, <1>6, <1>7, DuringSearch, LastLevelOf DEF Reachable
<1>. QED BY <1>3, <1>8 DEF d, UpTo

LEMMA ReturnInv ==
  ASSUME IInv, Return
  PROVE  IInv'
<1>1. /\ stage = "decide" /\ stage' = "returned" /\ start = end
      /\ parent' = [m \in V |-> IF parent[m] < -1 THEN -1 ELSE parent[m]]
      /\ shared' = <<>> /\ in' = 0 /\ start' = 0 /\ end' = 0 /\ front' = {} /\ curr' = {}
      /\ UNCHANGED <<given, pickers, trial, block, pointers, counters, n, printed>>
      /\ UNCHANGED <<g, cl, stream, rng, verifier_rng, source, verify_source, stats, verdicts>>
      /\ Searching /\ ~Searching'
  BY DEF Return, Searching, given, pickers, printed
<1>2. /\ TypeOK /\ IsGraph(g) /\ source \in V /\ TreeInv /\ Visited \subseteq V
      /\ \A m \in V : parent[m] \in Int
      /\ \A m \in V \ Visited : parent[m] < 0
  BY <1>1, DuringSearch
<1>3. \A m \in Visited : parent'[m] = parent[m]
  BY <1>1, <1>2 DEF Visited
<1>4. \A m \in V \ Visited : parent'[m] = -1
  <2>1. \A m \in V \ Visited : parent'[m] = IF parent[m] < -1 THEN -1 ELSE parent[m]
    BY <1>1
  <2>. QED BY <1>2, <2>1
<1>5. TypeOK'
  <2>1. /\ block' \in Nat /\ it' \in Nat /\ last' \in Nat /\ held' \in Nat /\ k' \in Nat /\ n' \in Nat
        /\ front' \subseteq V /\ curr' \subseteq V
        /\ edges_to_check' \in Nat /\ scout_count' \in Nat /\ awake_count' \in Nat
        /\ old_awake_count' \in Nat
    BY <1>1, <1>2, LocalTypes DEF pointers, counters
  <2>2. /\ shared' \in Seq(V \cup {NoNode}) /\ {in', start', end'} \subseteq 0 .. capacity'
    BY <1>1 DEF capacity
  <2>3. \A m \in V : parent'[m] \in V \cup {-1, -OutDegree(g', m)} /\ parent'[m] \in Int
    <3>1. \A m \in V : parent[m] \in V \cup {-1, -OutDegree(g, m)}
      BY <1>2 DEF TypeOK
    <3>2. \A m \in Visited : parent'[m] \in V \cup {-1, -OutDegree(g', m)} /\ parent'[m] \in Int
      BY <1>1, <1>2, <1>3, <3>1
    <3>. QED BY <1>4, <3>2
  <2>4. parent' = [m \in V |-> parent'[m]]
    BY <1>1
  <2>5. parent' \in [V -> Int]
    BY <2>3, <2>4
  <2>. QED BY <1>1, <1>2, <2>1, <2>2, <2>3, <2>5, SearchTypes
<1>6. IsShortestPathTree'
  <2>. DEFINE d == Hops
  <2>1. d = Depth(g, source)
    BY DEF Hops
  <2>2. Depth(g', source') = d
    BY <1>1, <2>1
  <2>. HIDE DEF d
  <2>3. \A m \in V : d[m] # Unreachable <=> m \in Visited
    BY <1>1, <1>2, <2>1, DepthFacts, SearchedAll DEF Reachable
  <2>4. \A m \in V : d[m] \in Nat
    BY <1>2, <2>1, DepthFacts, NumNodesAssumption
  <2>5. ASSUME NEW m \in V
        PROVE  IF m = source THEN parent'[m] = m
               ELSE IF d[m] = Unreachable THEN parent'[m] = -1
               ELSE parent'[m] \in Elems(g.in[m]) /\ d[parent'[m]] = d[m] - 1
    <3>1. CASE m = source
      <4>1. parent[source] = source /\ source \in Visited
        BY <1>2, VerticesAreNumbers DEF TreeInv, Visited
      <4>. QED BY <1>3, <3>1, <4>1
    <3>2. CASE m # source /\ m \in Visited
      <4>1. Hangs(m)
        BY <1>2, <3>2 DEF TreeInv
      <4>2. parent[m] \in V /\ m \in Elems(g.out[parent[m]]) /\ d[m] = d[parent[m]] + 1
        BY <4>1 DEF Hangs, d
      <4>3. parent[m] \in Elems(g.in[m])
        BY <1>2, <4>2 DEF IsGraph
      <4>. QED BY <1>3, <2>3, <2>4, <3>2, <4>2, <4>3
    <3>3. CASE m # source /\ m \notin Visited
      BY <1>4, <2>3, <3>3
    <3>. QED BY <3>1, <3>2, <3>3
  <2>. QED BY <1>1, <2>2, <2>5 DEF IsShortestPathTree
<1>7. SearchInv' /\ ResultInv'
  BY <1>1, <1>6 DEF SearchInv, ResultInv
<1>8. OptionsInv' /\ SourceInv'
  BY <1>1 DEF IInv, OptionsInv, SourceInv, Given, Barren
<1>9. PickersInv'
  BY <1>1 DEF IInv, PickersInv, Given, Barren, DrawnFrom, States, PickerRand, Cycle
<1>10. PrintedInv'
  BY <1>1 DEF IInv, PrintedInv
<1>. QED BY <1>5, <1>7, <1>8, <1>9, <1>10 DEF IInv

(* In a tree of shortest paths the vertices with a parent are those that   *)
(* can be reached.                                                         *)
LEMMA TreeFacts ==
  ASSUME IsGraph(g), source \in V, IsShortestPathTree
  PROVE  /\ Visited = Reachable
         /\ \A m \in V : /\ Hops[m] \in 0 .. NumNodes
                         /\ m # source /\ Hops[m] # Unreachable =>
                              parent[m] \in V /\ parent[m] \in Elems(g.in[m])
         /\ Hops[source] = 0 /\ parent[source] = source
         /\ \A m \in V : m # source /\ Hops[m] = Unreachable => parent[m] = -1
<1>. DEFINE d == Hops
<1>1. d = Depth(g, source)
  BY DEF Hops
<1>. HIDE DEF d
<1>2. /\ \A m \in V : d[m] \in 0 .. NumNodes
      /\ \A m \in V : d[m] # Unreachable <=> m \in Reachable
      /\ d[source] = 0 /\ 0 # Unreachable
  BY <1>1, DepthFacts, NumNodesAssumption DEF Reachable, Unreachable
<1>3. \A m \in V : IF m = source THEN parent[m] = m
                   ELSE IF d[m] = Unreachable THEN parent[m] = -1
                   ELSE parent[m] \in Elems(g.in[m])
  BY <1>1 DEF IsShortestPathTree
<1>4. \A m \in V : Elems(g.in[m]) \subseteq V
  <2>1. \A m \in V : g.in[m] \in Seq(V)
    BY DEF IsGraph
  <2>. QED BY <2>1, ElemsType
<1>5. \A m \in V : m # source /\ d[m] # Unreachable => parent[m] \in V /\ parent[m] \in Elems(g.in[m])
  BY <1>3, <1>4
<1>6. \A m \in V : parent[m] >= 0 <=> m \in Reachable
  <2>1. \A m \in V : m >= 0 /\ ~(-1 >= 0)
    BY VerticesAreNumbers
  <2>. SUFFICES ASSUME NEW m \in V PROVE parent[m] >= 0 <=> m \in Reachable
    OBVIOUS
  <2>2. CASE m = source
    BY <1>2, <1>3, <2>1, <2>2
  <2>3. CASE m # source /\ d[m] = Unreachable
    BY <1>2, <1>3, <2>1, <2>3
  <2>4. CASE m # source /\ d[m] # Unreachable
    BY <1>2, <1>5, <2>1, <2>4
  <2>. QED BY <2>2, <2>3, <2>4
<1>7. Reachable \subseteq V
  BY BallsGrow, NumNodesAssumption DEF GrowsBalls, Reachable
<1>8. Visited = Reachable
  BY <1>6, <1>7 DEF Visited
<1>. QED BY <1>2, <1>3, <1>5, <1>8 DEF d

LEMMA AnalyseInv ==
  ASSUME IInv, Analyse
  PROVE  IInv'
<1>1. /\ stage = "returned"
      /\ stats' = IF cl.do_analysis /\ trial = cl.num_trials - 1
                    THEN Append(stats, PrintBFSStats) ELSE stats
      /\ stage' = IF cl.do_verify THEN "verify" ELSE "free"
      /\ UNCHANGED <<given, pickers, trial, parent, queue, pointers, bitmaps, counters, n,
                     verdicts>>
      /\ UNCHANGED <<g, cl, stream, rng, verifier_rng, source, verify_source, trial, parent>>
      /\ ~Searching /\ ~Searching'
  BY DEF Analyse, Searching, given, pickers
<1>2. /\ TypeOK /\ IsGraph(g) /\ source \in V /\ IsShortestPathTree /\ OptionsInv
  BY <1>1, GraphType DEF IInv, SourceInv, ResultInv
<1>3. /\ PrintBFSStats = [nodes |-> Cardinality(Reachable), edges |-> Cardinality(EdgesFrom(Reachable))]
      /\ PrintBFSStats \in [nodes : Nat, edges : Nat]
  <2>1. Visited = Reachable
    BY <1>2, TreeFacts
  <2>2. PrintBFSStats = [nodes |-> Cardinality(Reachable), edges |-> Cardinality(EdgesFrom(Reachable))]
    BY <1>2, <2>1, StatsExact
  <2>3. Reachable \in SUBSET V /\ EdgesFrom(Reachable) \in SUBSET Edges(g)
    BY <2>1 DEF Visited, EdgesFrom
  <2>4. Cardinality(Reachable) \in Nat /\ Cardinality(EdgesFrom(Reachable)) \in Nat
    BY <2>3, VerticesCounted, EdgesFinite, FS_Subset, FS_CardinalityType
  <2>. QED BY <2>2, <2>4
<1>4. stats = <<>> /\ trial < cl.num_trials /\ trial \in Nat /\ cl.num_trials \in Nat
  <2>1. Len(stats) = 0 /\ trial < cl.num_trials
    BY <1>1, RestTypes DEF IInv, PrintedInv
  <2>. QED BY <2>1, RestTypes
<1>5. /\ stats' \in Seq([nodes : Nat, edges : Nat])
      /\ IF cl.do_analysis /\ trial = cl.num_trials - 1
           THEN Len(stats') = 1 /\ stats'[1] = PrintBFSStats ELSE stats' = <<>>
  <2>. DEFINE x == PrintBFSStats
              R == [nodes : Nat, edges : Nat]
  <2>1. x \in R /\ stats = <<>>
    BY <1>3, <1>4
  <2>2. stats' = IF cl.do_analysis /\ trial = cl.num_trials - 1 THEN Append(stats, x) ELSE stats
    BY <1>1
  <2>. HIDE DEF x, R
  <2>3. Append(<<>>, x) = <<x>> /\ <<x>> \in Seq(R) /\ Len(<<x>>) = 1 /\ <<x>>[1] = x
    BY <2>1
  <2>4. stats \in Seq(R)
    BY <2>1
  <2>5. /\ stats' \in Seq(R)
        /\ IF cl.do_analysis /\ trial = cl.num_trials - 1
             THEN Len(stats') = 1 /\ stats'[1] = x ELSE stats' = <<>>
    BY <2>1, <2>2, <2>3, <2>4
  <2>. QED BY <2>5 DEF x, R
<1>6. TypeOK' /\ OptionsInv' /\ SearchInv'
  BY <1>1, <1>5, RestTypes, Resting
<1>7. SourceInv'
  BY <1>1 DEF IInv, SourceInv, Given, Barren
<1>8. PickersInv'
  BY <1>1 DEF IInv, PickersInv, Given, Barren, DrawnFrom, States, PickerRand, Cycle
<1>9. PrintedInv'
  <2>1. /\ Len(verdicts) = (IF cl.do_verify THEN trial ELSE 0)
        /\ \A i \in DOMAIN verdicts : verdicts[i]
    BY <1>1, <1>4 DEF IInv, PrintedInv
  <2>2. /\ cl'.num_trials > 0 /\ trial' # cl'.num_trials /\ stage' \in {"verify", "judge", "free"}
    BY <1>1, <1>4
  <2>3. Len(stats') = IF cl.do_analysis /\ trial = cl.num_trials - 1 THEN 1 ELSE 0
    BY <1>5
  <2>4. verdicts' = verdicts /\ trial' = trial /\ trial' < cl'.num_trials /\ trial' <= cl'.num_trials
    BY <1>1, <1>4
  <2>5. Len(verdicts') = IF cl'.do_verify THEN trial' + (IF stage' = "free" THEN 1 ELSE 0) ELSE 0
    BY <1>1, <1>4, <2>1, <2>4
  <2>. QED BY <1>1, <2>1, <2>2, <2>3, <2>4, <2>5 DEF PrintedInv
<1>10. ResultInv'
  <2>1. IsShortestPathTree'
    BY <1>1, <1>2 DEF IsShortestPathTree
  <2>2. stats' # <<>> => stats'[1] = PrintBFSStats
    BY <1>5
  <2>3. Reachable' = Reachable /\ EdgesFrom(Reachable)' = EdgesFrom(Reachable)
    BY <1>1 DEF Reachable, EdgesFrom
  <2>4. EdgesFrom(Reachable)' = {e \in Edges(g') : e[1] \in Reachable'}
    BY DEF EdgesFrom
  <2>. QED BY <1>3, <2>1, <2>2, <2>3, <2>4 DEF ResultInv
<1>. QED BY <1>6, <1>7, <1>8, <1>9, <1>10 DEF IInv

(* BFSVerifier accepts a tree of shortest paths from the source it drew.   *)
LEMMA TreeAccepted ==
  ASSUME IsGraph(g), source \in V, IsShortestPathTree
  PROVE  BFSVerifier(source)
<1>. DEFINE d == Hops
            depth == FoundDepth(source)
<1>1. d = Depth(g, source)
  BY DEF Hops
<1>2. \A m \in V : depth[m] = IF d[m] = Unreachable THEN -1 ELSE d[m]
  BY DEF FoundDepth, Hops
<1>. HIDE DEF d, depth
<1>3. /\ \A m \in V : d[m] \in Nat
      /\ \A m \in V : m # source /\ d[m] # Unreachable => parent[m] \in V /\ parent[m] # -1
      /\ d[source] = 0 /\ d[source] # Unreachable /\ parent[source] = source /\ source # -1
      /\ \A m \in V : m # source /\ d[m] = Unreachable => parent[m] = -1
  BY TreeFacts, VerticesAreNumbers, NumNodesAssumption DEF d, Unreachable, NoNode
<1>4. \A m \in V : m # source /\ d[m] # Unreachable =>
        parent[m] \in Elems(g.in[m]) /\ d[parent[m]] = d[m] - 1
  BY <1>1 DEF IsShortestPathTree
<1>5. \A m \in V : d[m] <= Unreachable /\ Unreachable \in Nat
  BY TreeFacts, NumNodesAssumption DEF d, Unreachable
<1>6. ASSUME NEW m \in V
      PROVE  IF depth[m] # -1 /\ parent[m] # -1
               THEN IF m = source THEN parent[m] = m
                    ELSE parent[m] \in Elems(g.in[m]) /\ depth[parent[m]] = depth[m] - 1
               ELSE depth[m] = parent[m]
  <2>1. CASE m = source
    BY <1>2, <1>3, <2>1
  <2>2. CASE m # source /\ d[m] # Unreachable
    <3>1. /\ parent[m] \in V /\ parent[m] # -1 /\ parent[m] \in Elems(g.in[m])
          /\ d[parent[m]] = d[m] - 1 /\ d[m] \in Nat
      BY <1>3, <1>4, <2>2
    <3>2. d[parent[m]] # Unreachable
      BY <1>5, <3>1
    <3>3. depth[m] = d[m] /\ depth[parent[m]] = d[parent[m]]
      BY <1>2, <2>2, <3>1, <3>2
    <3>. QED BY <2>2, <3>1, <3>3
  <2>3. CASE m # source /\ d[m] = Unreachable
    BY <1>2, <1>3, <2>3
  <2>. QED BY <2>1, <2>2, <2>3
<1>. QED BY <1>6 DEF BFSVerifier, depth

LEMMA JudgeInv ==
  ASSUME IInv, Judge
  PROVE  IInv'
<1>1. /\ stage = "judge" /\ stage' = "free"
      /\ verdicts' = Append(verdicts, BFSVerifier(verify_source))
      /\ UNCHANGED <<given, pickers, trial, parent, queue, pointers, bitmaps, counters, n, stats>>
      /\ UNCHANGED <<g, cl, stream, rng, verifier_rng, source, verify_source, trial, parent>>
      /\ ~Searching /\ ~Searching'
  BY DEF Judge, Searching, given, pickers
<1>2. /\ IsGraph(g) /\ source \in V /\ IsShortestPathTree /\ verify_source = source /\ cl.do_verify
  BY <1>1, GraphType DEF IInv, SourceInv, ResultInv
<1>3. BFSVerifier(verify_source) = TRUE
  <2>1. BFSVerifier(source)
    BY <1>2, TreeAccepted
  <2>2. BFSVerifier(source) \in BOOLEAN
    BY DEF BFSVerifier
  <2>. QED BY <1>2, <2>1, <2>2
<1>4. /\ verdicts \in Seq(BOOLEAN) /\ trial \in Nat
      /\ Len(verdicts) = trial /\ \A i \in DOMAIN verdicts : verdicts[i]
  BY <1>1, <1>2, RestTypes DEF IInv, PrintedInv
<1>5. verdicts' = Append(verdicts, TRUE)
  BY <1>1, <1>3
<1>6. /\ verdicts' \in Seq(BOOLEAN) /\ Len(verdicts') = trial + 1
      /\ \A i \in DOMAIN verdicts' : verdicts'[i]
  <2>1. /\ verdicts' \in Seq(BOOLEAN) /\ Len(verdicts') = trial + 1
        /\ \A i \in 1 .. trial : verdicts'[i] = verdicts[i]
        /\ verdicts'[trial + 1] = TRUE
    <3>. DEFINE x == TRUE
                B == BOOLEAN
    <3>1. x \in B /\ verdicts \in Seq(B)
      BY <1>4
    <3>2. verdicts' = Append(verdicts, x) /\ Len(verdicts) = trial /\ trial \in Nat
      BY <1>4, <1>5
    <3>. HIDE DEF x, B
    <3>3. /\ verdicts' \in Seq(B) /\ Len(verdicts') = trial + 1
          /\ \A i \in 1 .. trial : verdicts'[i] = verdicts[i]
          /\ verdicts'[trial + 1] = x
      BY <3>1, <3>2
    <3>4. x = TRUE
      BY DEF x
    <3>. QED BY <3>3, <3>4 DEF B
  <2>2. \A i \in DOMAIN verdicts' : i \in 1 .. trial \/ i = trial + 1
    BY <1>4, <2>1
  <2>3. DOMAIN verdicts = 1 .. trial
    BY <1>4
  <2>. QED BY <1>4, <2>1, <2>2, <2>3
<1>7. TypeOK' /\ OptionsInv' /\ SearchInv'
  BY <1>1, <1>6, RestTypes, Resting
<1>8. SourceInv' /\ ResultInv'
  BY <1>1 DEF IInv, SourceInv, ResultInv, Given, Barren
<1>9. PickersInv'
  BY <1>1 DEF IInv, PickersInv, Given
<1>10. PrintedInv'
  BY <1>1, <1>2, <1>6 DEF IInv, PrintedInv
<1>. QED BY <1>7, <1>8, <1>9, <1>10 DEF IInv

LEMMA EndTrialInv ==
  ASSUME IInv, EndTrial
  PROVE  IInv'
<1>1. /\ stage = "free" /\ stage' = "trial" /\ trial' = trial + 1
      /\ parent' = [m \in V |-> NoNode]
      /\ UNCHANGED <<given, pickers, queue, pointers, bitmaps, counters, n, printed>>
      /\ UNCHANGED <<g, cl, stream, rng, verifier_rng, source, verify_source, stats, verdicts>>
      /\ ~Searching /\ ~Searching'
  BY DEF EndTrial, Searching, given, pickers, printed
<1>2. trial \in Nat /\ cl.num_trials \in Nat /\ trial < cl.num_trials
  BY <1>1, RestTypes DEF IInv, PrintedInv
<1>3. TypeOK'
  <2>1. trial' \in 0 .. cl'.num_trials
    BY <1>1, <1>2
  <2>2. /\ g' \in Graphs /\ stream' \in Streams /\ alpha' \in Alphas /\ beta' \in Betas
        /\ {rng', verifier_rng'} \subseteq 1 .. Cycle(stream')
        /\ {source', verify_source'} \subseteq V \cup {NoNode}
        /\ stats' \in Seq([nodes : Nat, edges : Nat]) /\ verdicts' \in Seq(BOOLEAN)
    BY <1>1 DEF IInv, TypeOK, given
  <2>3. /\ parent' \in [V -> Int] /\ \A m \in V : parent'[m] \in V \cup {-1, -OutDegree(g', m)}
    BY <1>1 DEF NoNode
  <2>4. /\ shared' \in Seq(V \cup {NoNode}) /\ {in', start', end'} \subseteq 0 .. capacity'
    BY <1>1 DEF IInv, TypeOK, capacity, queue
  <2>5. /\ {block', it', last', held', k', n'} \subseteq Nat
        /\ {front', curr'} \subseteq SUBSET V
        /\ {edges_to_check', scout_count', awake_count', old_awake_count'} \subseteq Nat
    BY <1>1 DEF IInv, TypeOK, queue, pointers, bitmaps, counters
  <2>. QED BY <1>1, <2>1, <2>2, <2>3, <2>4, <2>5 DEF TypeOK
<1>4. OptionsInv' /\ SourceInv' /\ ResultInv'
  BY <1>1 DEF IInv, OptionsInv, SourceInv, ResultInv
<1>5. PickersInv'
  BY <1>1 DEF IInv, PickersInv, Given
<1>6. PrintedInv'
  BY <1>1, <1>2 DEF IInv, PrintedInv
<1>7. SearchInv'
  BY <1>1 DEF IInv, SearchInv, Searching, queue
<1>. QED BY <1>3, <1>4, <1>5, <1>6, <1>7 DEF IInv

LEMMA StutterInv ==
  ASSUME IInv, UNCHANGED vars
  PROVE  IInv'
<1>. USE DEF vars, given, pickers, queue, pointers, bitmaps, counters, printed
<1>1. TypeOK'
  BY DEF IInv, TypeOK, capacity
<1>2. OptionsInv' /\ SourceInv' /\ PrintedInv'
  BY DEF IInv, OptionsInv, SourceInv, PrintedInv, Given, Barren
<1>3. PickersInv'
  BY DEF IInv, PickersInv, Given, Barren, DrawnFrom, States, PickerRand, Cycle
<1>4. ResultInv'
  BY DEF IInv, ResultInv, IsShortestPathTree, Reachable
<1>5. SearchInv'
  <2>1. /\ \A i : Slot(i)' = Slot(i) /\ \A a, b : Slots(a, b)' = Slots(a, b)
        /\ UNCHANGED <<Slots(start, end), Slots(end, in), Slots(0, in)>>
        /\ Visited' = Visited /\ Searching' = Searching
    BY DEF Slot, Slots, Visited, Searching
  <2>2. TreeInv => TreeInv'
    BY ParentsStay
  <2>3. SlotsInv => SlotsInv'
    BY <2>1 DEF SlotsInv
  <2>4. /\ \A l : Level(l)' = Level(l) /\ UpTo(l)' = UpTo(l)
    BY LevelsStay
  <2>5. ASSUME NEW l \in Nat, LevelInv(l) PROVE LevelInv(l)'
    <3>1. TopDownInv(l) => TopDownInv(l)'
      BY <2>1, <2>4 DEF TopDownInv, Between
    <3>2. BottomUpInv(l) => BottomUpInv(l)'
      BY <2>1, <2>4 DEF BottomUpInv, Between
    <3>3. GatherInv(l) => GatherInv(l)'
      BY <2>1, <2>4 DEF GatherInv
    <3>. QED BY <2>1, <2>4, <2>5, <3>1, <3>2, <3>3 DEF LevelInv
  <2>. QED BY <2>1, <2>2, <2>3, <2>5 DEF IInv, SearchInv
<1>. QED BY <1>1, <1>2, <1>3, <1>4, <1>5 DEF IInv
-----------------------------------------------------------------------------
(***************************************************************************)
(* The theorems.                                                           *)
(***************************************************************************)
LEMMA InitIInv ==
  ASSUME Init
  PROVE  IInv
<1>1. /\ g \in Graphs /\ stream \in Streams /\ alpha \in Alphas /\ beta \in Betas
      /\ rng = Seed /\ verifier_rng = Seed /\ source = NoNode /\ verify_source = NoNode
      /\ trial = 0 /\ parent = [m \in V |-> NoNode]
      /\ shared = <<>> /\ in = 0 /\ start = 0 /\ end = 0 /\ block = 0
      /\ it = 0 /\ last = 0 /\ held = 0 /\ k = 0 /\ front = {} /\ curr = {}
      /\ edges_to_check = 0 /\ scout_count = 0 /\ awake_count = 0 /\ old_awake_count = 0
      /\ n = 0 /\ stage = "trial" /\ stats = <<>> /\ verdicts = <<>>
  BY DEF Init
<1>2. OptionsInv
  BY OptionsAssumption DEF Init, OptionsInv
<1>3. TypeOK
  <2>1. Seed \in 1 .. Cycle(stream)
    BY <1>1, StreamType DEF States
  <2>2. trial \in 0 .. cl.num_trials
    BY <1>1, <1>2 DEF OptionsInv
  <2>3. parent \in [V -> Int] /\ \A m \in V : parent[m] \in V \cup {-1, -OutDegree(g, m)}
    BY <1>1 DEF NoNode
  <2>4. shared \in Seq(V \cup {NoNode}) /\ {in, start, end} \subseteq 0 .. capacity
    BY <1>1 DEF capacity
  <2>5. stats \in Seq([nodes : Nat, edges : Nat]) /\ verdicts \in Seq(BOOLEAN)
    BY <1>1
  <2>. QED BY <1>1, <2>1, <2>2, <2>3, <2>4, <2>5 DEF TypeOK
<1>4. ~Searching
  BY <1>1 DEF Searching
<1>5. SourceInv /\ PickersInv /\ ResultInv /\ SearchInv
  BY <1>1, <1>4 DEF SourceInv, PickersInv, ResultInv, SearchInv
<1>6. PrintedInv
  BY <1>1, <1>2 DEF PrintedInv, OptionsInv
<1>. QED BY <1>2, <1>3, <1>5, <1>6 DEF IInv

(* One step of the search after the other.                                 *)
LEMMA SearchKeepsIInv ==
  ASSUME IInv, \/ GoTopDown \/ TDStep \/ TDNext \/ EndTDStep
               \/ GoBottomUp \/ BUStep \/ EndBUStep \/ BitmapToQueue \/ EndBitmapToQueue
  PROVE  IInv'
<1>1. Searching /\ UNCHANGED <<given, pickers, trial, printed>>
  <2>1. CASE GoTopDown \/ TDStep \/ TDNext \/ EndTDStep
    BY <2>1 DEF Searching, GoTopDown, TDStep, TDNext, EndTDStep
  <2>2. CASE GoBottomUp \/ BUStep \/ EndBUStep \/ BitmapToQueue \/ EndBitmapToQueue
    BY <2>2 DEF Searching, GoBottomUp, BUStep, EndBUStep, BitmapToQueue, EndBitmapToQueue
  <2>. QED BY <2>1, <2>2
<1>2. Searching' /\ TypeOK' /\ SearchInv'
  BY GoTopDownInv, TDStepInv, TDNextInv, EndTDStepInv,
     GoBottomUpInv, BUStepInv, EndBUStepInv, BitmapToQueueInv, EndBitmapToQueueInv
<1>. QED BY <1>1, <1>2, TrialStays DEF IInv

LEMMA NextIInv ==
  ASSUME IInv, [Next]_vars
  PROVE  IInv'
<1>1. CASE StartTrial \/ PickNext \/ VerifierPickNext \/ Analyse \/ Judge \/ EndTrial
  BY <1>1, StartTrialInv, PickNextInv, VerifierPickNextInv, AnalyseInv, JudgeInv, EndTrialInv
<1>2. CASE StartSearch \/ Return
  BY <1>2, StartSearchInv, ReturnInv
<1>3. CASE \/ GoTopDown \/ TDStep \/ TDNext \/ EndTDStep
           \/ GoBottomUp \/ BUStep \/ EndBUStep \/ BitmapToQueue \/ EndBitmapToQueue
  BY <1>3, SearchKeepsIInv
<1>4. CASE Terminated \/ UNCHANGED vars
  BY <1>4, StutterInv DEF Terminated
<1>. QED BY <1>1, <1>2, <1>3, <1>4 DEF Next

LEMMA SpecIInv == Spec => []IInv
<1>1. Init => IInv
  BY InitIInv
<1>2. IInv /\ [Next]_vars => IInv'
  BY NextIInv
<1>. QED BY <1>1, <1>2, PTL DEF Spec

(* TDStep's pointers never outlive the queue's memory: every vertex has    *)
(* one slot at most, so push_back, which would reallocate it, never has to *)
(* (src/srcc/sliding_queue.h, src/srcc/bfs.c).                             *)
THEOREM PointersNeverDangle == Spec => []PointersInv
<1>1. IInv => PointersInv
  <2>. SUFFICES ASSUME IInv PROVE PointersInv
    OBVIOUS
  <2>1. CASE Searching
    <3>1. SlotsInv /\ TypeOK
      BY <2>1, DuringSearch
    <3>2. stage = "td" => held = block
      BY <2>1, DuringSearch DEF LevelInv, TopDownInv
    <3>. QED BY <3>1, <3>2 DEF SlotsInv, PointersInv, PointersValid
  <2>2. CASE ~Searching
    <3>1. in = 0 /\ start = 0 /\ end = 0 /\ stage # "td" /\ TypeOK
      BY <2>2 DEF IInv, SearchInv, Searching
    <3>2. \A i : i \notin 0 .. in - 1
      BY <3>1
    <3>. QED BY <3>1, <3>2 DEF PointersInv, PointersValid
  <2>. QED BY <2>1, <2>2
<1>. QED BY <1>1, SpecIInv, PTL

(* In whichever directions DOBFS goes it returns a tree of shortest paths, *)
(* the verifier draws the kernel's sources a second time and accepts every *)
(* trial, and PrintBFSStats counts the part that was reached               *)
(* (src/srcc/bfs.c, src/srcc/benchmark.h).                                 *)
THEOREM TrialsAlwaysExact == Spec => []TrialsExact
<1>1. IInv => TrialsExact
  <2>. SUFFICES ASSUME IInv PROVE TrialsExact
    OBVIOUS
  <2>1. stage = "returned" => IsShortestPathTree
    BY DEF IInv, ResultInv
  <2>2. \A i \in DOMAIN verdicts : verdicts[i]
    BY DEF IInv, PrintedInv
  <2>3. Done => /\ Len(verdicts) = IF cl.do_verify THEN cl.num_trials ELSE 0
                /\ Len(stats) = IF cl.do_analysis /\ cl.num_trials > 0 THEN 1 ELSE 0
    BY RestTypes DEF IInv, PrintedInv, Done
  <2>4. stage = "verify" /\ stats # <<>> =>
          stats[1] = [nodes |-> Cardinality(Ball(g, source)[NumNodes]),
                      edges |-> Cardinality({e \in Edges(g) : e[1] \in Ball(g, source)[NumNodes]})]
    BY DEF IInv, ResultInv, Reachable
  <2>. QED BY <2>1, <2>2, <2>3, <2>4 DEF TrialsExact
<1>. QED BY <1>1, SpecIInv, PTL
=============================================================================
