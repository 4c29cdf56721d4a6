------------------------------ MODULE Triangles ------------------------------
(***************************************************************************)
(* Triangle counting: Hybrid, WorthRelabelling and OrderedCount of         *)
(* src/src/tc.cc, RelabelByDegree of src/src/builder.h and the C port's    *)
(* src/srcc/tc.c, with TCVerifier judging the result.  OrderedCount walks  *)
(* the list of v with an iterator that it never compares with the end of   *)
(* the list; the C port does compare.  The iterations of its parallel loop *)
(* share nothing but the reduction, so they run one at a time here, in any *)
(* order.                                                                  *)
(***************************************************************************)
EXTENDS CSRGraph

CONSTANTS
  Graphs,           \* the inputs considered: undirected, without self-loops
  MinAverageDegree, \* average degree from which relabelling is considered, 10
  MaxSamples        \* vertices sampled at most, 1000

(* What squishing leaves: every edge in both lists, no self-loop, and      *)
(* lists in order in which no vertex is twice.                             *)
Mirrored(out) ==
  \A a, b \in V : b \in Elems(out[a]) => a # b /\ a \in Elems(out[b])
Squished(out) ==
  \A n \in V : \A a, b \in DOMAIN out[n] : a < b => out[n][a] < out[n][b]

Assumptions ==
  /\ \A gr \in Graphs : IsGraph(gr) /\ ~gr.directed /\ Mirrored(gr.out) /\ Squished(gr.out)
  /\ {MinAverageDegree, MaxSamples} \subseteq Nat \ {0}

VARIABLES
  g,       \* the input graph
  out,     \* the neighbour lists OrderedCount reads: g's or relabelled ones
  pc,      \* where Hybrid is
  todo,    \* iterations not handed out yet, of the loop that runs
  u, i, j, \* OrderedCount: the vertex, positions of v and of w in its list
  it,      \* position of the iterator in the list of v
  total    \* the reduction variable

loop == <<u, i, j, it, total>>
vars == <<g, out, pc, todo, u, i, j, it, total>>

v == out[u][i]
w == out[u][j]

Sum(f, m) ==
  LET upTo[k \in 0 .. m] == IF k = 0 THEN 0 ELSE upTo[k - 1] + f[k] IN upTo[m]

InOrder(s) == \A a, b \in DOMAIN s : a < b => s[a] <= s[b]
PermutationsOf(S) == {p \in [S -> S] : Elems(p) = S}

Init ==
  /\ g \in Graphs
  /\ out = g.out
  /\ pc = "worth" /\ todo = V
  /\ u = 0 /\ i = 0 /\ j = 0 /\ it = 0 /\ total = 0
-----------------------------------------------------------------------------
(* WorthRelabelling.  The vertices are drawn by SourcePicker, which skips  *)
(* those without edges; any draw may come up.  1.3 is 13/10, exactly.      *)
Degrees == {OutDegree(g, n) : n \in V} \ {0}
NumSamples == IF MaxSamples < NumNodes THEN MaxSamples ELSE NumNodes
NumEdges == Sum([n \in 1 .. NumNodes |-> OutDegree(g, n - 1)], NumNodes) \div 2
AverageDegree == NumEdges \div NumNodes

Total(samples) == Sum(samples, NumSamples)
Median(samples) ==
  CHOOSE d \in Elems(samples) :
    /\ Cardinality({k \in DOMAIN samples : samples[k] < d}) <= NumSamples \div 2
    /\ Cardinality({k \in DOMAIN samples : samples[k] <= d}) > NumSamples \div 2
Skewed(samples) == 10 * Total(samples) > 13 * NumSamples * Median(samples)

CountDirectly ==
  /\ pc = "worth"
  /\ \/ AverageDegree < MinAverageDegree
     \/ \E samples \in [1 .. NumSamples -> Degrees] : ~Skewed(samples)
  /\ pc' = "count"
  /\ UNCHANGED <<g, out, todo, loop>>

(* RelabelByDegree: the vertex at each new place, by falling degree.  Of   *)
(* equal degrees the C++ code has the greater vertex first (pairs compared *)
(* with greater), the C port the lesser.                                   *)
ByDegree(order, lesserFirst) ==
  \A a, b \in V : a < b =>
    \/ OutDegree(g, order[a]) > OutDegree(g, order[b])
    \/ /\ OutDegree(g, order[a]) = OutDegree(g, order[b])
       /\ IF lesserFirst THEN order[a] < order[b] ELSE order[a] > order[b]

NewId(order, n) == CHOOSE k \in V : order[k] = n
Placed(order) ==
  [k \in V |-> [p \in 1 .. OutDegree(g, order[k]) |-> NewId(order, g.out[order[k]][p])]]

Relabel ==
  /\ pc = "worth"
  /\ AverageDegree >= MinAverageDegree
  /\ \E samples \in [1 .. NumSamples -> Degrees] : Skewed(samples)
  /\ \E order \in PermutationsOf(V), lesserFirst \in BOOLEAN :
       ByDegree(order, lesserFirst) /\ out' = Placed(order)
  /\ pc' = "sort"
  /\ UNCHANGED <<g, todo, loop>>

(* Each list is sorted in place, one after the other.                      *)
SortNeighbours ==
  /\ pc = "sort"
  /\ \E n \in todo :
       /\ \A m \in todo : n <= m
       /\ \E p \in PermutationsOf(DOMAIN out[n]) :
            LET sorted == [k \in DOMAIN out[n] |-> out[n][p[k]]] IN
              InOrder(sorted) /\ out' = [out EXCEPT ![n] = sorted]
       /\ todo' = todo \ {n}
  /\ UNCHANGED <<g, pc, loop>>

EndSort ==
  /\ pc = "sort" /\ todo = {}
  /\ pc' = "count" /\ todo' = V
  /\ UNCHANGED <<g, out, loop>>
-----------------------------------------------------------------------------
(* OrderedCount.                                                           *)
NextVertex ==
  /\ pc = "count"
  /\ \E n \in todo : u' = n /\ todo' = todo \ {n}
  /\ i' = 1 /\ j' = 0 /\ it' = 0
  /\ pc' = "neighbour"
  /\ UNCHANGED <<g, out, total>>

(* Mutant: the loop goes on above u.                                       *)
Lower_All == i <= Len(out[u])
Lower == i <= Len(out[u]) /\ v <= u

NextNeighbour ==
  /\ pc = "neighbour" /\ Lower
  /\ j' = 1 /\ it' = 1
  /\ pc' = "candidate"
  /\ UNCHANGED <<g, out, todo, u, i, total>>

EndVertex ==
  /\ pc = "neighbour" /\ ~Lower
  /\ u' = 0 /\ i' = 0
  /\ pc' = "count"
  /\ UNCHANGED <<g, out, todo, j, it, total>>

NextCandidate ==
  /\ pc = "candidate" /\ j <= Len(out[u]) /\ w <= v
  /\ pc' = "scan"
  /\ UNCHANGED <<g, out, todo, loop>>

EndCandidates ==
  /\ pc = "candidate" /\ ~(j <= Len(out[u]) /\ w <= v)
  /\ i' = i + 1 /\ j' = 0 /\ it' = 0
  /\ pc' = "neighbour"
  /\ UNCHANGED <<g, out, todo, u, total>>

(* The read of *it; ScanStaysInList says that it is one of v's neighbours. *)
Advance ==
  /\ pc = "scan" /\ it \in DOMAIN out[v] /\ out[v][it] < w
  /\ it' = it + 1
  /\ UNCHANGED <<g, out, pc, todo, u, i, j, total>>

(* Mutant: the iterator moves on after every comparison.                   *)
Match_SkipsNext ==
  /\ pc = "scan" /\ it \in DOMAIN out[v] /\ out[v][it] >= w
  /\ total' = IF out[v][it] = w THEN total + 1 ELSE total
  /\ j' = j + 1 /\ it' = it + 1
  /\ pc' = "candidate"
  /\ UNCHANGED <<g, out, todo, u, i>>

Match ==
  /\ pc = "scan" /\ it \in DOMAIN out[v] /\ out[v][it] >= w
  /\ total' = IF out[v][it] = w THEN total + 1 ELSE total
  /\ j' = j + 1
  /\ pc' = "candidate"
  /\ UNCHANGED <<g, out, todo, u, i, it>>

Return ==
  /\ pc = "count" /\ todo = {}
  /\ pc' = "done"
  /\ UNCHANGED <<g, out, todo, loop>>

Done == pc = "done" /\ UNCHANGED vars

Next ==
  \/ CountDirectly \/ Relabel \/ SortNeighbours \/ EndSort
  \/ NextVertex \/ NextNeighbour \/ EndVertex \/ NextCandidate \/ EndCandidates
  \/ Advance \/ Match \/ Return \/ Done

Spec == Init /\ [][Next]_vars
-----------------------------------------------------------------------------
(* TCVerifier: the neighbours that two sorted lists have in common, walked *)
(* in step, summed over all edges and divided by 6.                        *)
InCommon(s, t) ==
  LET common[p \in (1 .. Len(s) + 1) \X (1 .. Len(t) + 1)] ==
        IF p[1] > Len(s) \/ p[2] > Len(t) THEN 0
        ELSE IF s[p[1]] = t[p[2]] THEN 1 + common[<<p[1] + 1, p[2] + 1>>]
        ELSE IF s[p[1]] < t[p[2]] THEN common[<<p[1] + 1, p[2]>>]
        ELSE common[<<p[1], p[2] + 1>>]
  IN  common[<<1, 1>>]

InCommonOf(n) ==
  Sum([k \in DOMAIN g.out[n] |-> InCommon(g.out[n], g.out[g.out[n][k]])], OutDegree(g, n))
Counted == Sum([n \in 1 .. NumNodes |-> InCommonOf(n - 1)], NumNodes) \div 6

TCVerifier(test_total) == Counted = test_total
-----------------------------------------------------------------------------
TypeOK ==
  /\ g \in Graphs /\ out \in [V -> Seq(V)]
  /\ pc \in {"worth", "sort", "count", "neighbour", "candidate", "scan", "done"}
  /\ todo \in SUBSET V /\ u \in V
  /\ {i, j, it, total} \subseteq Nat

(* The iterator of OrderedCount never reaches the end of the list it walks *)
(* although the while loop that moves it has no test for it: the list of v *)
(* u itself, at the iterator or behind it, and u is above every w looked   *)
(* for.  The C port's test (src/srcc/tc.c) is never true.                  *)
ScanStaysInList ==
  pc \in {"candidate", "scan"} =>
    /\ i \in DOMAIN out[u] /\ v < u
    /\ \E k \in DOMAIN out[v] : k >= it /\ out[v][k] = u

(* The inductive invariant: it rests on the lists staying mirror images    *)
(* of one another when RelabelByDegree renumbers and sorts them.           *)
ScanInv ==
  /\ TypeOK
  /\ Mirrored(out)
  /\ pc \in {"neighbour", "candidate", "scan"} => i >= 1
  /\ pc \in {"candidate", "scan"} => it >= 1 /\ j >= 1
  /\ pc = "scan" => j \in DOMAIN out[u] /\ w <= v
  /\ ScanStaysInList

Clique(lists) ==
  {t \in V \X V \X V :
     /\ t[1] > t[2] /\ t[2] > t[3]
     /\ {t[2], t[3]} \subseteq Elems(lists[t[1]]) /\ t[3] \in Elems(lists[t[2]])}

Before(k, n) == \E p \in 1 .. k - 1 : p \in DOMAIN out[u] /\ out[u][p] = n

Passed(t) ==
  /\ t[1] \notin todo
  /\ t[1] = u /\ pc \in {"neighbour", "candidate", "scan"} =>
       Before(i, t[2]) \/ (pc # "neighbour" /\ t[2] = v /\ Before(j, t[3]))

(* At every step the total is the number of triangles u > v > w the loops  *)
(* have passed, none of them twice: the early exits of the three loops and *)
(* the iterator that never goes back skip no triangle.                     *)
TrianglesCounted ==
  pc \notin {"worth", "sort"} => total = Cardinality({t \in Clique(out) : Passed(t)})

(* Triangles are counted one by one as the loops pass them, and whether it *)
(* relabels or not, Hybrid returns the number of triangles of the graph it *)
(* was given, which TCVerifier accepts.                                    *)
ResultExact ==
  /\ TrianglesCounted
  /\ pc = "done" => total = Cardinality(Clique(g.out)) /\ TCVerifier(total)
=============================================================================
