-------------------------------- MODULE Suite --------------------------------
(***************************************************************************)
(* The programs that share no state with another: triangle counting,       *)
(* betweenness centrality, PageRank and the verifiers of BFS and connected *)
(* components.  Which one is started is settled at the start; the          *)
(* variables of the others never leave one fixed state.  Variables that    *)
(* more than one module has are shared, since one program runs at most.    *)
(***************************************************************************)
EXTENDS CSRGraph

CONSTANTS
  Threads,                              \* of betweenness centrality and PageRank
  TCGraphs, MinAverageDegree, MaxSamples,                     \* of Triangles
  BCGraphs, NumIters, BufferSize, Unit,                       \* of Brandes
  VFGraphs,                                                   \* of Verifiers
  PRNodes, PRGraphs, PRUnit, Damp, DampOf, CommandLines, TopSize  \* of PageRank

VARIABLES
  which,                                             \* the program started
  graph, work, at, control,                          \* g, todo, u and pc of a module
  port, stage, source, iter, place, depth, sum, scores,  \* of more than one; place
                                                         \* is k and sum total of one
  out, vpos, wpos, it,                               \* of Triangles, i and j in the middle
  given, picked, depths, counts, succ, slots, in, start, end, index, deltas,
  divisor, buf, pos,                                 \* of Brandes
  kernel, result, visited, labels, label, list, next, nbrs,       \* of Verifiers
  program, cl, trial, error, next_scores, outgoing, verdicts, top \* of PageRank

TC == INSTANCE Triangles WITH
  Graphs <- TCGraphs,
  g <- graph, todo <- work, u <- at, pc <- control, i <- vpos, j <- wpos, total <- sum

BC == INSTANCE Brandes WITH
  Graphs <- BCGraphs, g <- graph, todo <- work, u <- at, pc <- control, k <- place

VF == INSTANCE Verifiers WITH Graphs <- VFGraphs, g <- graph, u <- at

PR == INSTANCE PageRank WITH
  NumNodes <- PRNodes, Graphs <- PRGraphs, Unit <- PRUnit,
  g <- graph, todo <- work, u <- at, k <- place, total <- sum

ASSUME TrianglesAssumption == TC!Assumptions
ASSUME BrandesAssumption == BC!Assumptions
ASSUME VerifiersAssumption == VF!Assumptions
ASSUME PageRankAssumption == PR!Assumptions

Shared == <<graph, work, at, control, port, stage, source, iter, place, depth, sum, scores>>
OfTC == <<out, vpos, wpos, it>>
OfBC == <<given, picked, depths, counts, succ, slots, in, start, end, index, deltas,
          divisor, buf, pos>>
OfVF == <<kernel, result, visited, labels, label, list, next, nbrs>>
OfPR == <<program, cl, trial, error, next_scores, outgoing, verdicts, top>>

vars == <<which, Shared, OfTC, OfBC, OfVF, OfPR>>

(* The variables of a program not started.                                 *)
TCRests == out = 0 /\ vpos = 0 /\ wpos = 0 /\ it = 0
BCRests ==
  /\ given = 0 /\ picked = 0 /\ depths = 0 /\ counts = 0 /\ succ = 0 /\ slots = 0
  /\ in = 0 /\ start = 0 /\ end = 0 /\ index = 0 /\ deltas = 0 /\ divisor = 0
  /\ buf = 0 /\ pos = 0
VFRests ==
  /\ kernel = 0 /\ result = 0 /\ visited = 0 /\ labels = 0 /\ label = 0 /\ list = 0
  /\ next = 0 /\ nbrs = 0
PRRests ==
  /\ program = 0 /\ cl = 0 /\ trial = 0 /\ error = 0 /\ next_scores = 0 /\ outgoing = 0
  /\ verdicts = 0 /\ top = 0

Init ==
  \/ /\ which = "tc" /\ TC!Init /\ BCRests /\ VFRests /\ PRRests
     /\ port = 0 /\ stage = 0 /\ source = 0 /\ iter = 0 /\ place = 0 /\ depth = 0
     /\ scores = 0
  \/ /\ which = "bc" /\ BC!Init /\ TCRests /\ VFRests /\ PRRests
     /\ source = 0 /\ sum = 0
  \/ /\ which = "verifiers" /\ VF!Init /\ TCRests /\ BCRests /\ PRRests
     /\ work = 0 /\ control = 0 /\ iter = 0 /\ place = 0 /\ sum = 0 /\ scores = 0
  \/ /\ which = "pr" /\ PR!Init /\ TCRests /\ BCRests /\ VFRests
     /\ control = 0 /\ port = 0 /\ source = 0 /\ depth = 0

Next ==
  \/ /\ which = "tc" /\ TC!Next
     /\ UNCHANGED <<which, port, stage, source, iter, place, depth, scores, OfBC, OfVF, OfPR>>
  \/ /\ which = "bc" /\ BC!Next
     /\ UNCHANGED <<which, source, sum, OfTC, OfVF, OfPR>>
  \/ /\ which = "verifiers" /\ VF!Next
     /\ UNCHANGED <<which, work, control, iter, place, sum, scores, OfTC, OfBC, OfPR>>
  \/ /\ which = "pr" /\ PR!Next
     /\ UNCHANGED <<which, control, port, source, depth, OfTC, OfBC, OfVF>>

Spec == Init /\ [][Next]_vars
-----------------------------------------------------------------------------
(* The properties of the program started.                                  *)

(* ScanInv of Triangles: the iterator stays within the list it walks.      *)
ScanInv == which = "tc" => TC!ScanInv
(* ResultExact of Triangles: every triangle is counted, and counted once.  *)
ResultExact == which = "tc" => TC!ResultExact
(* PathsInv of Brandes: every shortest path found is counted once.         *)
PathsInv == which = "bc" => BC!PathsInv
(* ScoresExact of Brandes: the scores are the centralities.                *)
ScoresExact == which = "bc" => BC!ScoresExact
(* ListInv of Verifiers: the list never outgrows what was reserved.        *)
ListInv == which = "verifiers" => VF!ListInv
(* VerdictExact of Verifiers: exactly the correct results are accepted.    *)
VerdictExact == which = "verifiers" => VF!VerdictExact
(* RanksInv of PageRank: the error bounds what the verifier finds.         *)
RanksInv == which = "pr" => PR!RanksInv
(* RanksExact of PageRank: a result within the tolerance is accepted.      *)
RanksExact == which = "pr" => PR!RanksExact
=============================================================================
