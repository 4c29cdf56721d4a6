-------------------------------- MODULE CBFS --------------------------------
(***************************************************************************)
(* The bfs program of the C port: main, DOBFS and its steps                *)
(* (src/srcc/bfs.c) over the queue that grows (src/srcc/sliding_queue.h)   *)
(* and the bitmaps (src/srcc/bitmap.h), trial after trial, with the        *)
(* sources drawn by SourcePicker (src/srcc/benchmark.h).  The program is   *)
(* sequential: one action per loop iteration that pushes to the queue,     *)
(* draws a number or writes a parent.                                      *)
(*                                                                         *)
(* The generator of SourcePicker runs through a cycle of states: `stream`  *)
(* is the vertex each state gives, and every vertex is given by one.       *)
(***************************************************************************)
EXTENDS Distances, CommandLine
LOCAL INSTANCE SequencesExt

CONSTANTS
  Graphs,         \* the inputs considered
  CommandLines,   \* the options given
  Streams,        \* what the generator may give
  Alphas, Betas   \* the arguments alpha and beta of DOBFS, 15 and 18 in main

Cycle(s) == Len(s)
Parsed(argv) == ParseArgs(FoldLeft(CLAppHandleOption, CLAppInit, argv))

(* BuilderDeduplicateEdges leaves no vertex a neighbour twice.  -n and -r  *)
(* are not checked by the program: the number of trials is one, the source *)
(* is a vertex of the graph.                                               *)
IsSimple(gr) ==
  \A m \in V : \A i, j \in DOMAIN gr.out[m] : gr.out[m][i] = gr.out[m][j] => i = j

ASSUME GraphsAssumption == \A gr \in Graphs : IsGraph(gr) /\ IsSimple(gr)
ASSUME OptionsAssumption ==
  \A argv \in CommandLines :
    /\ Parsed(argv).num_trials \in Nat /\ Parsed(argv).start_vertex \in V \cup {-1}
    /\ {Parsed(argv).do_analysis, Parsed(argv).do_verify} \subseteq BOOLEAN
ASSUME StreamsAssumption == \A s \in Streams : s \in Seq(V) /\ Elems(s) = V
ASSUME TuningAssumption == Alphas \cup Betas \subseteq Nat \ {0}

VARIABLES
  g, cl, stream, alpha, beta,
  rng, verifier_rng,      \* rng_state of the two pickers
  trial, source, verify_source,
  parent,
  shared, in, start, end, \* the SlidingQueue: its memory and its indexes
  block,                  \* how often that memory was reallocated
  it, last, held,         \* TDStep's pointers, and the memory they point into
  k,                      \* position in the list of the vertex TDStep is at
  front, curr,            \* the Bitmaps, as the sets of their 1 bits
  edges_to_check, scout_count, awake_count, old_awake_count,
  n,                      \* the loop variable of the sweeps over all vertices
  stage,                  \* where the program is
  stats, verdicts         \* what was printed

given == <<g, cl, stream, alpha, beta>>
pickers == <<rng, verifier_rng, source, verify_source>>
queue == <<shared, in, start, end, block>>
pointers == <<it, last, held, k>>
bitmaps == <<front, curr>>
counters == <<edges_to_check, scout_count, awake_count, old_awake_count>>
printed == <<stats, verdicts>>
vars == <<given, pickers, trial, parent, queue, pointers, bitmaps, counters, n, stage,
          printed>>

NoNode == -1
capacity == Len(shared)
Seed == 1
Slot(i) == shared[i + 1]
Window == start .. end - 1
Frontier == {Slot(i) : i \in Window}

Init ==
  /\ g \in Graphs /\ stream \in Streams /\ alpha \in Alphas /\ beta \in Betas
  /\ \E argv \in CommandLines : cl = Parsed(argv)
  /\ rng = Seed /\ verifier_rng = Seed /\ source = NoNode /\ verify_source = NoNode
  /\ trial = 0 /\ parent = [m \in V |-> NoNode]
  /\ shared = <<>> /\ in = 0 /\ start = 0 /\ end = 0 /\ block = 0
  /\ it = 0 /\ last = 0 /\ held = 0 /\ k = 0
  /\ front = {} /\ curr = {}
  /\ edges_to_check = 0 /\ scout_count = 0 /\ awake_count = 0 /\ old_awake_count = 0
  /\ n = 0 /\ stage = "trial" /\ stats = <<>> /\ verdicts = <<>>
-----------------------------------------------------------------------------
(* SourcePicker.                                                           *)

(* Mutant: the state is a copy, never stored.                              *)
PickerRand_ByValue(state) == (Seed % Cycle(stream)) + 1
PickerRand(state) == (state % Cycle(stream)) + 1

Given == cl.start_vertex # -1

StartTrial ==
  /\ stage = "trial" /\ trial < cl.num_trials
  /\ stage' = "pick"
  /\ UNCHANGED <<given, pickers, trial, parent, queue, pointers, bitmaps, counters, n, printed>>

(* Mutant: one generator for the kernel's picker and the verifier's.       *)
PickNext_Shared ==
  /\ stage = "pick"
  /\ \/ /\ Given /\ source' = cl.start_vertex /\ UNCHANGED <<rng, verifier_rng>>
     \/ /\ ~Given
        /\ rng' = PickerRand(rng) /\ verifier_rng' = rng'
        /\ source' = stream[rng']
  /\ stage' = IF Given \/ OutDegree(g, source') # 0 THEN "search" ELSE "pick"
  /\ UNCHANGED <<given, verify_source, trial, parent, queue, pointers, bitmaps,
                 counters, n, printed>>

(* One turn of the loop that looks for a vertex with out-edges.            *)
PickNext ==
  /\ stage = "pick"
  /\ \/ /\ Given /\ source' = cl.start_vertex /\ UNCHANGED rng
     \/ /\ ~Given
        /\ rng' = PickerRand(rng)
        /\ source' = stream[rng']
  /\ stage' = IF Given \/ OutDegree(g, source') # 0 THEN "search" ELSE "pick"
  /\ UNCHANGED <<given, verifier_rng, verify_source, trial, parent, queue, pointers,
                 bitmaps, counters, n, printed>>

(* The verifier has a picker of its own, drawn from only with -v.          *)
VerifierPickNext ==
  /\ stage = "verify"
  /\ \/ /\ Given /\ verify_source' = cl.start_vertex /\ UNCHANGED verifier_rng
     \/ /\ ~Given
        /\ verifier_rng' = PickerRand(verifier_rng)
        /\ verify_source' = stream[verifier_rng']
  /\ stage' = IF Given \/ OutDegree(g, verify_source') # 0 THEN "judge" ELSE "verify"
  /\ UNCHANGED <<given, rng, source, trial, parent, queue, pointers, bitmaps, counters, n,
                 printed>>
-----------------------------------------------------------------------------
(* The queue.                                                              *)

(* Mutant: the queue starts small, as one that grows may.                  *)
SlidingQueueInit_Small == 1
SlidingQueueInit == NumNodes

(* push_back, which reallocates a full queue to twice its size.            *)
PushBack(value) ==
  LET grown == IF in < capacity THEN capacity
               ELSE IF capacity = 0 THEN 1 ELSE 2 * capacity
  IN  /\ shared' = [i \in 1 .. grown |->
                      IF i = in + 1 THEN value
                      ELSE IF i <= capacity THEN shared[i] ELSE NoNode]
      /\ block' = IF grown = capacity THEN block ELSE block + 1
      /\ in' = in + 1

SlideWindow == start' = end /\ end' = in
-----------------------------------------------------------------------------
(* DOBFS.                                                                  *)

InitParent == [m \in V |-> IF OutDegree(g, m) # 0 THEN -OutDegree(g, m) ELSE -1]
NumEdgesDirected == Cardinality(Edges(g))

(* Up to the while loop.                                                   *)
StartSearch ==
  /\ stage = "search"
  /\ parent' = [InitParent EXCEPT ![source] = source]
  /\ shared' = [i \in 1 .. SlidingQueueInit |-> IF i = 1 THEN source ELSE NoNode]
  /\ in' = 1 /\ start' = 0 /\ end' = 1 /\ block' = 0
  /\ front' = {} /\ curr' = {}
  /\ edges_to_check' = NumEdgesDirected /\ scout_count' = OutDegree(g, source)
  /\ stage' = "decide"
  /\ UNCHANGED <<given, pickers, trial, pointers, awake_count, old_awake_count, n, printed>>

GoTopDown ==
  /\ stage = "decide" /\ start # end
  /\ scout_count <= edges_to_check \div alpha
  /\ edges_to_check' = edges_to_check - scout_count /\ scout_count' = 0
  /\ it' = start /\ last' = end /\ held' = block /\ k' = 1
  /\ stage' = "td"
  /\ UNCHANGED <<given, pickers, trial, parent, queue, bitmaps, awake_count,
                 old_awake_count, n, printed>>

(* One neighbour of the vertex TDStep points at.                           *)
TDStep ==
  /\ stage = "td" /\ it < last /\ k <= OutDegree(g, Slot(it))
  /\ LET v == g.out[Slot(it)][k] IN
       IF parent[v] < 0
         THEN /\ parent' = [parent EXCEPT ![v] = Slot(it)]
              /\ scout_count' = scout_count + (-parent[v])
              /\ PushBack(v)
         ELSE UNCHANGED <<parent, scout_count, shared, in, block>>
  /\ k' = k + 1
  /\ UNCHANGED <<given, pickers, trial, start, end, it, last, held, bitmaps,
                 edges_to_check, awake_count, old_awake_count, n, stage, printed>>

TDNext ==
  /\ stage = "td" /\ it < last /\ k > OutDegree(g, Slot(it))
  /\ it' = it + 1 /\ k' = 1
  /\ UNCHANGED <<given, pickers, trial, parent, queue, last, held, bitmaps, counters, n,
                 stage, printed>>

EndTDStep ==
  /\ stage = "td" /\ it = last
  /\ SlideWindow
  /\ it' = 0 /\ last' = 0 /\ held' = 0 /\ k' = 0
  /\ stage' = "decide"
  /\ UNCHANGED <<given, pickers, trial, parent, shared, in, block, bitmaps, counters, n,
                 printed>>

(* BUStep clears the next bitmap before it looks at any vertex.            *)
StartBUStep(awake) ==
  /\ old_awake_count' = awake /\ awake_count' = 0
  /\ curr' = {} /\ n' = 0
  /\ stage' = "bu"

(* QueueToBitmap, which resets the bitmap, and the first turn of the loop. *)
GoBottomUp ==
  /\ stage = "decide" /\ start # end
  /\ scout_count > edges_to_check \div alpha
  /\ front' = Frontier
  /\ SlideWindow
  /\ StartBUStep(end - start)
  /\ UNCHANGED <<given, pickers, trial, parent, shared, in, block, pointers,
                 edges_to_check, scout_count, printed>>

InFront(m) == {i \in DOMAIN g.in[m] : g.in[m][i] \in front}
FirstInFront(m) == CHOOSE i \in InFront(m) : \A j \in InFront(m) : i <= j

BUStep ==
  /\ stage = "bu" /\ n \in V
  /\ IF parent[n] < 0 /\ InFront(n) # {}
       THEN /\ parent' = [parent EXCEPT ![n] = g.in[n][FirstInFront(n)]]
            /\ awake_count' = awake_count + 1
            /\ curr' = curr \cup {n}
       ELSE UNCHANGED <<parent, awake_count, curr>>
  /\ n' = n + 1
  /\ UNCHANGED <<given, pickers, trial, queue, pointers, front, edges_to_check,
                 scout_count, old_awake_count, stage, printed>>

(* BitmapSwap and the test of the do-while loop; BitmapToQueue starts with *)
(* a reset of the queue.                                                   *)
EndBUStep ==
  /\ stage = "bu" /\ n = NumNodes
  /\ front' = curr
  /\ IF awake_count >= old_awake_count \/ awake_count > NumNodes \div beta
       THEN StartBUStep(awake_count) /\ UNCHANGED <<in, start, end>>
       ELSE /\ curr' = front
            /\ in' = 0 /\ start' = 0 /\ end' = 0
            /\ n' = 0 /\ stage' = "convert"
            /\ UNCHANGED <<awake_count, old_awake_count>>
  /\ UNCHANGED <<given, pickers, trial, parent, shared, block, pointers, edges_to_check,
                 scout_count, printed>>

BitmapToQueue ==
  /\ stage = "convert" /\ n \in V
  /\ IF n \in front THEN PushBack(n) ELSE UNCHANGED <<shared, in, block>>
  /\ n' = n + 1
  /\ UNCHANGED <<given, pickers, trial, parent, start, end, pointers, bitmaps, counters,
                 stage, printed>>

EndBitmapToQueue ==
  /\ stage = "convert" /\ n = NumNodes
  /\ SlideWindow
  /\ scout_count' = 1
  /\ n' = 0 /\ stage' = "decide"
  /\ UNCHANGED <<given, pickers, trial, parent, shared, in, block, pointers, bitmaps,
                 edges_to_check, awake_count, old_awake_count, printed>>

(* The end of DOBFS: unvisited vertices get -1, and the queue is freed.    *)
Return ==
  /\ stage = "decide" /\ start = end
  /\ parent' = [m \in V |-> IF parent[m] < -1 THEN -1 ELSE parent[m]]
  /\ shared' = <<>> /\ in' = 0 /\ start' = 0 /\ end' = 0
  /\ front' = {} /\ curr' = {}
  /\ stage' = "returned"
  /\ UNCHANGED <<given, pickers, trial, block, pointers, counters, n, printed>>
-----------------------------------------------------------------------------
(* The rest of a trial: the analysis of the last one, and the verifier.    *)

PrintBFSStats ==
  LET reached == {m \in V : parent[m] >= 0}
      n_edges[m \in 0 .. NumNodes] ==
        IF m = 0 THEN 0
        ELSE n_edges[m - 1] + IF m - 1 \in reached THEN OutDegree(g, m - 1) ELSE 0
  IN  [nodes |-> Cardinality(reached), edges |-> n_edges[NumNodes]]

Analyse ==
  /\ stage = "returned"
  /\ stats' = IF cl.do_analysis /\ trial = cl.num_trials - 1
                THEN Append(stats, PrintBFSStats) ELSE stats
  /\ stage' = IF cl.do_verify THEN "verify" ELSE "free"
  /\ UNCHANGED <<given, pickers, trial, parent, queue, pointers, bitmaps, counters, n,
                 verdicts>>

(* The depths that BFSVerifier finds; its search is the subject of module  *)
(* Verifiers.                                                              *)
FoundDepth(s) ==
  LET dist == Depth(g, s) IN [m \in V |-> IF dist[m] = Unreachable THEN -1 ELSE dist[m]]

BFSVerifier(s) ==
  LET depth == FoundDepth(s) IN
    \A m \in V :
      IF depth[m] # -1 /\ parent[m] # -1
        THEN IF m = s THEN parent[m] = m
             ELSE parent[m] \in Elems(g.in[m]) /\ depth[parent[m]] = depth[m] - 1
        ELSE depth[m] = parent[m]

Judge ==
  /\ stage = "judge"
  /\ verdicts' = Append(verdicts, BFSVerifier(verify_source))
  /\ stage' = "free"
  /\ UNCHANGED <<given, pickers, trial, parent, queue, pointers, bitmaps, counters, n,
                 stats>>

EndTrial ==
  /\ stage = "free"
  /\ trial' = trial + 1
  /\ parent' = [m \in V |-> NoNode]
  /\ stage' = "trial"
  /\ UNCHANGED <<given, pickers, queue, pointers, bitmaps, counters, n, printed>>

Done == stage = "trial" /\ trial = cl.num_trials
Terminated == Done /\ UNCHANGED vars

Next ==
  \/ StartTrial \/ PickNext \/ VerifierPickNext \/ Analyse \/ Judge \/ EndTrial
  \/ StartSearch \/ GoTopDown \/ GoBottomUp \/ Return
  \/ TDStep \/ TDNext \/ EndTDStep
  \/ BUStep \/ EndBUStep \/ BitmapToQueue \/ EndBitmapToQueue
  \/ Terminated

Spec == Init /\ [][Next]_vars

(* A sequential program goes on.                                           *)
FairSpec == Spec /\ WF_vars(Next)
-----------------------------------------------------------------------------
(* The type invariant of the program.                                      *)
TypeOK ==
  /\ g \in Graphs /\ stream \in Streams /\ alpha \in Alphas /\ beta \in Betas
  /\ {rng, verifier_rng} \subseteq 1 .. Cycle(stream)
  /\ {source, verify_source} \subseteq V \cup {NoNode}
  /\ trial \in 0 .. cl.num_trials
  /\ parent \in [V -> Int] /\ \A m \in V : parent[m] \in V \cup {-1, -OutDegree(g, m)}
  /\ shared \in Seq(V \cup {NoNode}) /\ {in, start, end} \subseteq 0 .. capacity
  /\ {block, it, last, held, k, n} \subseteq Nat
  /\ {front, curr} \subseteq SUBSET V
  /\ {edges_to_check, scout_count, awake_count, old_awake_count} \subseteq Nat
  /\ stage \in {"trial", "pick", "search", "decide", "td", "bu", "convert", "returned",
                "verify", "judge", "free"}
  /\ stats \in Seq([nodes : Nat, edges : Nat]) /\ verdicts \in Seq(BOOLEAN)

(* TDStep keeps two pointers into the queue's memory while it pushes: that *)
(* memory must not be reallocated before TDStep is through, although       *)
(* push_back would.  Every vertex is pushed once at most, and those that   *)
(* BitmapToQueue pushes stand in the place of the earlier ones.            *)
PointersValid ==
  /\ stage = "td" => held = block
  /\ \A i, j \in 0 .. in - 1 : i # j => Slot(i) # Slot(j)
  /\ start <= end /\ end <= in

(* Every variable has its type, and no pointer dangles.                    *)
PointersInv == TypeOK /\ PointersValid

IsShortestPathTree ==
  LET dist == Depth(g, source) IN
    \A m \in V :
      IF m = source THEN parent[m] = m
      ELSE IF dist[m] = Unreachable THEN parent[m] = -1
      ELSE parent[m] \in Elems(g.in[m]) /\ dist[parent[m]] = dist[m] - 1

(* Whichever directions the search takes, every trial returns a tree of    *)
(* shortest paths from the source drawn for it; the verifier draws the     *)
(* same sources from its own picker, so that it accepts every trial; and   *)
(* the last trial's statistics are those of the reachable part.            *)
TrialsExact ==
  /\ stage = "returned" => IsShortestPathTree
  /\ \A i \in DOMAIN verdicts : verdicts[i]
  /\ Done => /\ Len(verdicts) = IF cl.do_verify THEN cl.num_trials ELSE 0
             /\ Len(stats) = IF cl.do_analysis /\ cl.num_trials > 0 THEN 1 ELSE 0
  /\ stage = "verify" /\ stats # <<>> =>
       stats[1] = [nodes |-> Cardinality(Ball(g, source)[NumNodes]),
                   edges |-> Cardinality({e \in Edges(g) : e[1] \in Ball(g, source)[NumNodes]})]

(* The program ends when there is a source to be found, and never when it  *)
(* has to draw one on a graph without edges: SourcePicker then draws for   *)
(* ever.                                                                   *)
SourceExists == Edges(g) # {} \/ Given \/ cl.num_trials = 0
Termination == IF SourceExists THEN <>Done ELSE [](stage \in {"trial", "pick"} /\ ~Done)
=============================================================================
