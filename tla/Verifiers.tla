------------------------------ MODULE Verifiers ------------------------------
(***************************************************************************)
(* The verifiers that judge a result by a serial search: BFSVerifier       *)
(* (src/src/bfs.cc, src/srcc/bfs.c) and CCVerifier (src/src/cc.cc and      *)
(* cc_sv.cc, src/srcc/cc.c and cc_sv.c).  The search walks a list it       *)
(* appends to; in C++ it does so with an iterator, which stays valid only  *)
(* while the vector does not outgrow what was reserved.  One action per    *)
(* vertex taken from the list and per neighbour.  The result is any that a *)
(* kernel, right or wrong, could return.                                   *)
(***************************************************************************)
EXTENDS Distances

CONSTANT Graphs        \* the inputs considered

Assumptions == \A gr \in Graphs : IsGraph(gr)

VARIABLES
  kernel,      \* whose result is judged: "bfs" or "cc"
  port,        \* of CCVerifier, "cpp" or "c"; BFSVerifier is the same in both
  g, source,
  result,      \* the parents or the labels to judge
  depth,       \* BFSVerifier's depths
  visited,     \* CCVerifier's bitmap
  labels,      \* labels no search was started for yet
  label,       \* curr_label
  list, next,  \* to_visit or frontier, and the position of the iterator
  u, nbrs,     \* the vertex being visited and its neighbours still to see
  stage

given == <<kernel, port, g, source, result>>
vars == <<given, depth, visited, labels, label, list, next, u, nbrs, stage>>

Init ==
  /\ kernel \in {"bfs", "cc"} /\ port \in {"cpp", "c"}
  /\ g \in Graphs /\ visited = {} /\ u = 0 /\ nbrs = <<>> /\ next = 1 /\ label = 0
  /\ \/ /\ kernel = "bfs" /\ port = "cpp" /\ source \in V /\ result \in [V -> V \cup {-1}]
        /\ depth = [n \in V |-> IF n = source THEN 0 ELSE -1]
        /\ list = <<source>> /\ labels = {}
        /\ stage = "search"
     \/ /\ kernel = "cc" /\ source = 0 /\ result \in [V -> V]
        /\ depth = [n \in V |-> -1]
        /\ list = <<>> /\ labels = Elems(result)
        /\ stage = "labels"
-----------------------------------------------------------------------------
(* CCVerifier starts a search from one vertex of each label: in C++ from   *)
(* the last one, the labels in the order of a hash map, in the C port from *)
(* the first one, in the order of these.                                   *)
SourceOf(n) ==
  IF port = "cpp"
    THEN \A m \in V : result[m] = result[n] => m <= n
    ELSE \A m \in V : result[m] \in labels => n <= m

StartLabel ==
  /\ stage = "labels"
  /\ \E n \in V :
       /\ result[n] \in labels /\ SourceOf(n)
       /\ label' = result[n] /\ labels' = labels \ {result[n]}
       /\ list' = <<n>> /\ next' = 1 /\ visited' = visited \cup {n}
  /\ stage' = "search"
  /\ UNCHANGED <<given, depth, u, nbrs>>

(* A directed graph is searched as if it was undirected.                   *)
Neighbours(n) ==
  IF kernel = "cc" /\ g.directed THEN g.out[n] \o g.in[n] ELSE g.out[n]

Visit ==
  /\ stage = "search" /\ nbrs = <<>> /\ next <= Len(list)
  /\ u' = list[next] /\ next' = next + 1
  /\ nbrs' = Neighbours(u')
  /\ UNCHANGED <<given, depth, visited, labels, label, list, stage>>

FindDepth ==
  /\ stage = "search" /\ kernel = "bfs" /\ nbrs # <<>>
  /\ LET v == Head(nbrs) IN
       IF depth[v] = -1
         THEN depth' = [depth EXCEPT ![v] = depth[u] + 1] /\ list' = Append(list, v)
         ELSE UNCHANGED <<depth, list>>
  /\ nbrs' = Tail(nbrs)
  /\ UNCHANGED <<given, visited, labels, label, next, u, stage>>

(* Mutant: a vertex is marked when it is visited, not when it is found.    *)
FindLabel_MarksLate ==
  /\ stage = "search" /\ kernel = "cc" /\ nbrs # <<>>
  /\ LET v == Head(nbrs) IN
       IF result[v] # label
         THEN stage' = "rejected" /\ UNCHANGED <<visited, list, nbrs>>
         ELSE /\ visited' = visited \cup {u}
              /\ list' = IF v \in visited THEN list ELSE Append(list, v)
              /\ nbrs' = Tail(nbrs)
              /\ UNCHANGED stage
  /\ UNCHANGED <<given, depth, labels, label, next, u>>

(* A neighbour with another label ends the verifier.                       *)
FindLabel ==
  /\ stage = "search" /\ kernel = "cc" /\ nbrs # <<>>
  /\ LET v == Head(nbrs) IN
       IF result[v] # label
         THEN stage' = "rejected" /\ UNCHANGED <<visited, list, nbrs>>
         ELSE /\ visited' = visited \cup {v}
              /\ list' = IF v \in visited THEN list ELSE Append(list, v)
              /\ nbrs' = Tail(nbrs)
              /\ UNCHANGED stage
  /\ UNCHANGED <<given, depth, labels, label, next, u>>

EndSearch ==
  /\ stage = "search" /\ nbrs = <<>> /\ next > Len(list)
  /\ stage' = IF kernel = "bfs" THEN "check" ELSE "labels"
  /\ UNCHANGED <<given, depth, visited, labels, label, list, next, u, nbrs>>

(* A vertex with a depth and a parent hangs, by an edge, from a vertex one *)
(* level up; one without has neither.                                      *)
ParentOk(n) ==
  IF depth[n] # -1 /\ result[n] # -1
    THEN IF n = source THEN result[n] = n /\ depth[n] = 0
         ELSE result[n] \in Elems(g.in[n]) /\ depth[result[n]] = depth[n] - 1
    ELSE depth[n] = result[n]

CheckParents ==
  /\ stage = "check"
  /\ stage' = IF \A n \in V : ParentOk(n) THEN "accepted" ELSE "rejected"
  /\ UNCHANGED <<given, depth, visited, labels, label, list, next, u, nbrs>>

(* Mutant: no test that the searches reached every vertex.                 *)
CheckVisited_Not ==
  /\ stage = "labels" /\ labels = {}
  /\ stage' = "accepted"
  /\ UNCHANGED <<given, depth, visited, labels, label, list, next, u, nbrs>>

CheckVisited ==
  /\ stage = "labels" /\ labels = {}
  /\ stage' = IF visited = V THEN "accepted" ELSE "rejected"
  /\ UNCHANGED <<given, depth, visited, labels, label, list, next, u, nbrs>>

Judged == stage \in {"accepted", "rejected"}
Terminated == Judged /\ UNCHANGED vars

Next ==
  \/ StartLabel \/ Visit \/ FindDepth \/ FindLabel \/ EndSearch
  \/ CheckParents \/ CheckVisited \/ Terminated

Spec == Init /\ [][Next]_vars
-----------------------------------------------------------------------------
TypeOK ==
  /\ kernel \in {"bfs", "cc"} /\ port \in {"cpp", "c"}
  /\ IsGraph(g) /\ source \in V /\ result \in [V -> V \cup {-1}]
  /\ depth \in [V -> V \cup {-1}]
  /\ visited \in SUBSET V /\ labels \in SUBSET V /\ label \in V
  /\ list \in Seq(V) /\ next \in 1 .. Len(list) + 1
  /\ u \in V /\ nbrs \in Seq(V)
  /\ stage \in {"labels", "search", "check", "accepted", "rejected"}

(* No vertex is put into the list twice, so the list never outgrows the    *)
(* num_nodes entries reserved for it (src/src/bfs.cc:206, cc.cc:184) and   *)
(* the iterator of the loop that appends to it stays valid.                *)
ReserveSuffices ==
  /\ Len(list) <= NumNodes
  /\ \A i, j \in DOMAIN list : list[i] = list[j] => i = j
ListInv == TypeOK /\ ReserveSuffices

(* BFSVerifier accepts the trees of shortest paths over what is reachable  *)
(* and nothing else.                                                       *)
IsShortestPathTree ==
  LET dist == Depth(g, source) IN
    \A n \in V :
      IF n = source THEN result[n] = n
      ELSE IF dist[n] = Unreachable THEN result[n] = -1
      ELSE result[n] \in Elems(g.in[n]) /\ dist[result[n]] = dist[n] - 1

(* CCVerifier accepts the labellings that give two vertices one label      *)
(* exactly when they are connected: two components with one label are told *)
(* apart although the search for that label sees one of them only.         *)
IsLabelling == \A m, n \in V : result[m] = result[n] <=> Connected(g, m, n)

(* Each verifier accepts the correct results of its kernel and no others.  *)
VerdictExact ==
  Judged =>
    (stage = "accepted" <=> IF kernel = "bfs" THEN IsShortestPathTree ELSE IsLabelling)
=============================================================================
