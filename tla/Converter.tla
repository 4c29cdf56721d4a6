------------------------------ MODULE Converter ------------------------------
(***************************************************************************)
(* The converter of both ports, invoked several times over one set of      *)
(* files: src/srcc/converter.c and src/src/converter.cc, with the building *)
(* of a graph from a file or a generator.  The C port's builder is         *)
(* CBuilder; of the C++ port's builder only what it promises is used here: *)
(* Builder.tla checks the promise.                                         *)
(***************************************************************************)
EXTENDS CBuilder, CommandLine
LOCAL INSTANCE SequencesExt
LOCAL INSTANCE FiniteSetsExt

CONSTANTS
  Inputs,          \* name and contents of the files an execution may start with
  Invocations,     \* how often the converter is invoked
  Commands(_, _)   \* the commands, port and options, an invocation may be, of
                   \* its number and the name of the file last given or written

VARIABLES
  files,      \* the files, by name
  listed,     \* the list the builder was given
  log         \* the invocations that have ended

vars == <<port, cl, pc, edges, generatorVars, builderVars, files, listed, log>>
kept == <<port, cl, files, log>>

weighted == cl.out_weighted

NoOptions == CLConvertInit

Init ==
  /\ \E f \in Inputs : files = (f.name :> [lines |-> f.lines, newline |-> f.newline])
  /\ port = "C" /\ cl = NoOptions /\ pc = "idle" /\ edges = <<>> /\ listed = <<>>
  /\ GeneratorInit /\ BuilderInit
  /\ log = <<>>

LastName == IF log = <<>> THEN CHOOSE f \in DOMAIN files : TRUE ELSE log[Len(log)].cl.out_filename

Start ==
  /\ pc = "idle" /\ Len(log) < Invocations
  /\ \E command \in Commands(Len(log) + 1, LastName) :
       /\ port' = command.port
       /\ cl' = ParseArgs(FoldLeft(CLConvertHandleOption, CLConvertInit, command.argv))
  /\ pc' = "main"
  /\ UNCHANGED <<edges, generatorVars, builderVars, files, listed, log>>

(* The program ends: what it allocated is gone.                            *)
EndWith(code) ==
  /\ log' = Append(log, [port |-> port, cl |-> cl, status |-> code, graph |-> graph,
                         listed |-> listed])
  /\ pc' = "idle" /\ port' = "C" /\ cl' = NoOptions
  /\ edges' = <<>> /\ listed' = <<>>
  /\ num_nodes' = -1 /\ pass' = 0 /\ read' = 0 /\ write' = 0 /\ graph' = NoGraph
  /\ UNCHANGED generatorVars

(* The C port looks at the options first; the C++ port only at -m.         *)
Refused ==
  IF cl.help THEN 0
  ELSE IF port = "C" THEN IF GraphGiven(cl) /\ cl.out_filename # <<>> THEN 1 ELSE -1
  ELSE IF cl.in_place /\ weighted THEN -30 ELSE 1

Refuse == pc = "main" /\ Refused # 1 /\ EndWith(Refused) /\ UNCHANGED files

(* A file is preferred to a generator.  Without either, the C++ port goes  *)
(* on with an empty list.                                                  *)
Main ==
  /\ pc = "main" /\ Refused = 1
  /\ pc' = IF cl.filename # <<>> THEN "open" ELSE IF cl.scale # -1 THEN "generate" ELSE "process"
  /\ UNCHANGED <<kept, edges, generatorVars, builderVars, listed>>

IsSerialized(name) ==
  IF port = "C" THEN ReaderGetSuffix(name) = IF weighted THEN ".wsg" ELSE ".sg"
  ELSE ReaderGetSuffix(name) \in {".sg", ".wsg"}

Opened == files[cl.filename]

ListSuffixes == {".el", ".wel", ".gr", ".graph", ".mtx"}

(* A file that is not there.  What is wrong with its suffix comes first in *)
(* the C port, and for serialized graphs in the C++ port.                  *)
NoFile ==
  /\ pc = "open" /\ cl.filename \notin DOMAIN files
  /\ EndWith(CASE IsSerialized(cl.filename) /\ port = "C++" ->
                  IF WrongKind(cl.filename, weighted) THEN -5 ELSE -6
             [] ~IsSerialized(cl.filename) /\ port = "C"
                  /\ ReaderGetSuffix(cl.filename) \notin ListSuffixes -> -3
             [] OTHER -> -2)
  /\ UNCHANGED files

(* A serialized file is the graph.  The C++ port's PrintStats divides by   *)
(* the number of vertices.                                                 *)
SIGFPE == -8

Deserialize ==
  /\ pc = "open" /\ cl.filename \in DOMAIN files /\ IsSerialized(cl.filename)
  /\ LET r == IF port = "C" THEN ReaderReadSerializedGraph(Opened, weighted)
              ELSE ReadSerializedGraph(cl.filename, Opened, weighted)
         crash == port = "C++" /\ r.status = 0 /\ r.graph.num_nodes = 0
     IN  IF r.status # 0 \/ crash
           THEN EndWith(IF crash THEN SIGFPE ELSE r.status) /\ UNCHANGED files
           ELSE /\ graph' = r.graph /\ pc' = "write"
                /\ UNCHANGED <<kept, edges, generatorVars, num_nodes, pass, read, write, listed>>

(* The number of vertices of a list; C++ graphs always have a vertex 0.    *)
NumNodes(list) == Max({IF port = "C" THEN 0 ELSE 1, BuilderMaxNode(list) + 1})

(* Any other file is a list, to which weights are added when it has none.  *)
ReadList ==
  /\ pc = "open" /\ cl.filename \in DOMAIN files /\ ~IsSerialized(cl.filename)
  /\ \E r \in IF port = "C" THEN {ReaderReadEdgeList(cl.filename, Opened, weighted)}
               ELSE {ReadFile(cl.filename, Opened, weighted, unset) : unset \in Unset} :
         \/ /\ r.status < 0
            /\ EndWith(r.status) /\ UNCHANGED files
         \/ /\ r.status = Spins
            /\ pc' = "spin"
            /\ UNCHANGED <<kept, edges, generatorVars, builderVars, listed>>
         \/ /\ r.status = 0
            /\ edges' = r.edges /\ num_nodes' = NumNodes(r.edges)
            /\ IF r.needs
                 THEN pc' = "insert" /\ StartBlocks(Len(r.edges))
                 ELSE pc' = "process" /\ UNCHANGED generatorVars
            /\ UNCHANGED <<kept, pass, read, write, graph, listed>>

(* A generated list, given weights of 1 before they are drawn.  The C port *)
(* keeps the vertices no edge has drawn.                                   *)
Generated ==
  /\ pc = "generated"
  /\ num_nodes' = IF port = "C" THEN GeneratedNodes ELSE NumNodes(edges)
  /\ IF weighted
       THEN /\ edges' = [i \in DOMAIN edges |-> edges[i] \o <<1>>]
            /\ pc' = "insert" /\ StartBlocks(Len(edges))
       ELSE pc' = "process" /\ UNCHANGED <<edges, generatorVars>>
  /\ UNCHANGED <<kept, pass, read, write, graph, listed>>

(* What the C++ port's builder makes of a list: sources and targets in     *)
(* order, no loops, the least of several weights.                          *)
Symmetrized(list) == IF cl.symmetrize THEN list \o [i \in DOMAIN list |-> Reversed(list[i])] ELSE list

Parallel(list, u, v) == {e \in Range(list) : Source(e) = u /\ Target(e) = v}

Lightest(E) ==
  CHOOSE e \in E : \A x \in E : Len(e) = 2 \/ e[3] <= x[3]

Squished(list, n) ==
  LET From(u) == FlattenSeq([v \in 1 .. n |->
        LET E == Parallel(list, u, v - 1)
        IN  IF E = {} \/ u = v - 1 THEN <<>> ELSE <<Lightest(E)>>])
  IN  FlattenSeq([u \in 1 .. n |-> From(u - 1)])

MakeGraphFromEL ==
  /\ pc = "process" /\ port = "C++"
  /\ LET n == NumNodes(edges) IN
       /\ num_nodes' = n
       /\ graph' = BuilderEdgesToCSR(Squished(Symmetrized(edges), n), n, cl.symmetrize)
  /\ listed' = edges /\ pc' = "write"
  /\ UNCHANGED <<kept, edges, generatorVars, pass, read, write>>

(* WriteGraph: there must be a name, and the file must open.               *)
WriteGraph ==
  /\ pc = "write" /\ cl.out_filename # <<>>
  /\ files' = (cl.out_filename :> WriterWriteGraph(graph, cl.out_sg)) @@ files
  /\ EndWith(0)

FailWrite ==
  /\ pc = "write"
  /\ EndWith(IF cl.out_filename = <<>> THEN -8 ELSE -5)
  /\ UNCHANGED files

Next ==
  \/ Start \/ Refuse \/ Main \/ NoFile \/ Deserialize \/ ReadList
  \/ GeneratorStep(IF pc = "insert" THEN "process" ELSE "generated")
       /\ UNCHANGED <<builderVars, files, listed, log>>
  \/ Generated
  \/ BuilderStep /\ listed' = (IF pc = "process" THEN edges ELSE listed) /\ UNCHANGED <<files, log>>
  \/ MakeGraphFromEL \/ WriteGraph \/ FailWrite

Spec == Init /\ [][Next]_vars
-----------------------------------------------------------------------------
(* Properties.                                                             *)

Loopless(E) == {e \in E : ~IsLoop(e)}
Ends(E) == {<<Source(e), Target(e)>> : e \in E}

(* What a file says, without regard to how it is read: its edges, with a   *)
(* weight of 1 where the file has none.                                    *)
Denoted(name, lines) ==
  LET suffix == ReaderGetSuffix(name)
      At(S) == {lines[i] : i \in S}
      Below(k) == {i \in k + 1 .. Len(lines) : ~IsComment(lines[i])}
      first == Min({i \in DOMAIN lines : lines[i].mark = ""})
      Row(i) == Cardinality({j \in Below(first) : j < i})
      step == IF Format(lines[first]) = 1 THEN 2 ELSE 1
  IN  CASE suffix \in {".el", ".wel"} -> {l.nums \o <<1>> : l \in At(DOMAIN lines)}
        [] suffix = ".gr" -> {FromOne(l.nums \o <<1>>) : l \in {l \in At(DOMAIN lines) : l.mark = "a"}}
        [] suffix = ".graph" ->
             UNION {{<<Row(i), lines[i].nums[k] - 1, IF step = 2 THEN lines[i].nums[k + 1] ELSE 1>> :
                       k \in {k \in DOMAIN lines[i].nums : k % step = 1 % step}} : i \in Below(first)}
        [] suffix = ".mtx" ->
             LET E == {FromOne(l.nums \o <<1>>) : l \in {l \in At(Below(first)) : ~IsBlank(l)}}
             IN  E \cup IF lines[1].words[4] = "symmetric" THEN {Reversed(e) : e \in E} ELSE {}

HasWeights(name, lines) ==
  \/ ReaderGetSuffix(name) \in {".wel", ".gr"}
  \/ ReaderGetSuffix(name) = ".graph" /\ \E l \in Range(lines) : l.mark = "" /\ Len(l.nums) = 3
  \/ ReaderGetSuffix(name) = ".mtx" /\ FieldHasWeights(lines[1].words[3])

Trimmed(E) == {SubSeq(e, 1, Width(weighted)) : e \in E}

(* A file with an arc that has no weight, and something else after it.     *)
BreaksOff(lines) ==
  \E i, j \in DOMAIN lines : i < j /\ ShortArc(lines[i]) /\ ~IsBlank(lines[j])

(* Whatever the format and the port, the builder is handed the edges the   *)
(* file says, and weights of the file, or else within the range drawn      *)
(* from; both ports leave loops to the builder.  Only the C++ port's .gr   *)
(* reader does not get that far, with a file that breaks off, and takes    *)
(* some other weight for one that is missing at the end.                   *)
ReadsExactly ==
  pc \in {"process", "spin"} /\ cl.filename # <<>> =>
    LET lines == Opened.lines
        said == Loopless(Denoted(cl.filename, lines))
        got == Loopless(Range(edges))
        short == {FromOne(l.nums) : l \in {l \in Range(lines) : port = "C++" /\ ShortArc(l)}}
    IN  /\ pc = "spin" <=> port = "C++" /\ BreaksOff(lines)
        /\ pc = "process" =>
             /\ Ends(got) = Ends(said)
             /\ IF HasWeights(cl.filename, lines)
                  THEN \A e \in (got \ Trimmed(said)) \cup (Trimmed(said) \ got) :
                         <<Source(e), Target(e)>> \in short
                  ELSE \A e \in got : weighted => e[3] \in 1 .. MaxWeight

(* The list a generator would make alone: block by block, from the seed of *)
(* each.                                                                   *)
Alone(n, First(_)) ==
  LET item[i \in 0 .. n - 1] ==
        First(IF i % BlockSize = 0 THEN Seeded(kRandSeed + i \div BlockSize) ELSE item[i - 1].rng)
  IN  [i \in 1 .. n |-> item[i - 1]]

Drawn(n) ==
  LET items == IF cl.uniform THEN Alone(n, UniformEdge) ELSE Alone(n, RMatEdge)
      list == [i \in 1 .. n |-> items[i].edge]
  IN  IF cl.uniform THEN list ELSE PermuteIDs(list)

DrawnWeights(n) ==
  LET Weight(r) == Bounded(r, MaxWeight - 1)
      items == Alone(n, Weight)
  IN  [i \in 1 .. n |-> items[i].value + 1]

(* The list generated does not depend on which threads take which blocks:  *)
(* edges, renamed vertices and weights are those of the seeds, and within  *)
(* their ranges.                                                           *)
GeneratesAlone ==
  /\ pc = "generated" =>
       /\ edges = Drawn(GeneratedEdges)
       /\ \A e \in Range(edges) : Source(e) < GeneratedNodes /\ Target(e) < GeneratedNodes
  /\ pc = "process" /\ weighted
       /\ (cl.filename = <<>> \/ ~HasWeights(cl.filename, Opened.lines)) =>
       [i \in DOMAIN edges |-> edges[i][3]] = DrawnWeights(Len(edges))

EdgesOf(offsets, neighs, n) ==
  UNION {{<<u>> \o d : d \in Range(GraphOutNeighbors(offsets, neighs, u))} : u \in 0 .. n - 1}

InOrder(offsets, neighs, n) ==
  \A u \in 0 .. n - 1 :
    LET list == GraphOutNeighbors(offsets, neighs, u)
    IN  \A i, j \in DOMAIN list : i < j => list[i][1] < list[j][1]

OutEdges(g) == EdgesOf(g.out_offsets, g.out_neighs, g.num_nodes)
InEdges(g) == {Reversed(e) : e \in EdgesOf(g.in_offsets, g.in_neighs, g.num_nodes)}

(* The graph built has the edges of the list, turned around as well when   *)
(* symmetrized, without loops, each once and with a weight that the list   *)
(* gives it; the incoming lists hold the same edges; all in order.         *)
GraphExact ==
  pc = "write" /\ num_nodes # -1 =>
    LET given == Loopless(Range(Symmetrized(listed)))
        S == OutEdges(graph)
    IN  /\ S \subseteq given /\ Ends(S) = Ends(given)
        /\ InEdges(graph) = S
        /\ InOrder(graph.out_offsets, graph.out_neighs, graph.num_nodes)
        /\ InOrder(graph.in_offsets, graph.in_neighs, graph.num_nodes)
        /\ GraphNumEdgesDirected(graph) = Cardinality(S)
        /\ \A e \in Range(listed) : Source(e) < graph.num_nodes /\ Target(e) < graph.num_nodes

(* The edges of both directions have one weight.                           *)
OneWeight(g) == \A e \in OutEdges(g) : ~g.directed => Reversed(e) \in OutEdges(g)

(* Types, and the compaction within the array: it never writes to an edge  *)
(* not yet read, and no pair of ends is lost.                              *)
ConverterInv ==
  /\ port \in {"C", "C++"} /\ todo \subseteq Nat
  /\ \A e \in Range(edges) : Source(e) \in Nat /\ Target(e) \in Nat
  /\ num_nodes \in Nat \cup {-1} /\ pass \in 0 .. 4
  /\ \A t \in Threads : at[t].next <= at[t].end
  /\ pc \in {"radix", "dedup", "csr"} =>
       LET left == IF pc = "dedup"
                     THEN Range(SubSeq(edges, 1, write)) \cup Range(SubSeq(edges, read, Len(edges)))
                     ELSE Range(edges)
       IN  Ends(Loopless(left)) = Ends(Loopless(Range(Symmetrized(listed))))
  /\ pc = "dedup" => write < read

(* A graph read back from the file one port wrote is the graph, whichever  *)
(* port reads it: array for array from a serialized file, but for a graph  *)
(* that has no edges in the C port and one without vertices in the C++     *)
(* port; and the same edges from a text file, as many vertices as have     *)
(* edges.                                                                  *)
RoundTrip ==
  Len(log) = 2 =>
    LET first == log[1]
        second == log[2]
        g == first.graph
        h == second.graph
    IN  first.status = 0 /\ second.cl.filename = first.cl.out_filename =>
          CASE first.cl.out_sg /\ second.port = "C" /\ g.out_neighs = <<>> -> second.status = -6
            [] first.cl.out_sg /\ second.port = "C++" /\ g.num_nodes = 0 -> second.status = SIGFPE
            [] first.cl.out_sg /\ ~(second.port = "C++" /\ g.num_nodes = 0) ->
                 /\ second.status \in {0, -5}
                 /\ [h EXCEPT !.in_neighs = <<>>] = [g EXCEPT !.in_neighs = <<>>]
                 /\ g.directed \/ OneWeight(g) => h = g
            [] OTHER ->
                 /\ second.status \in {0, -5}
                 /\ second.port = "C" \/ OneWeight(g) => OutEdges(h) = OutEdges(g)
                 /\ h.num_nodes <= Max({g.num_nodes, 1})
=============================================================================
