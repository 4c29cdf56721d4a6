------------------------------ MODULE GraphFile ------------------------------
(***************************************************************************)
(* The graph file formats as both ports read and write them: reader.h and  *)
(* writer.h of src/src and of src/srcc.                                    *)
(*                                                                         *)
(* An edge is <<u, v>>, or <<u, v, w>> in a weighted list; its tail is     *)
(* what a neighbour list holds.  A file is a sequence of lines, each with  *)
(* the mark it starts with (a comment's, an arc's, .mtx's), the words and  *)
(* the numbers that follow.  The arrays of a serialized file are its       *)
(* lines.  A name is a stem and a suffix.                                  *)
(***************************************************************************)
EXTENDS Integers, Sequences
LOCAL INSTANCE SequencesExt

CONSTANTS
  WsFails,  \* std::ws fails at the end of a line, as from libstdc++ 11 on
  Unset     \* what a number may hold that nothing was assigned to

ASSUME WsFailsAssumption == WsFails \in BOOLEAN
ASSUME UnsetAssumption == Unset \subseteq Int /\ Unset # {}

Line(mark, words, nums) == [mark |-> mark, words |-> words, nums |-> nums]
Numbers(nums) == Line("", <<>>, nums)
IsComment(line) == line.mark = "%"
IsBlank(line) == line.mark = "" /\ line.nums = <<>>

Source(e) == e[1]
Target(e) == e[2]
Reversed(e) == <<Target(e), Source(e)>> \o SubSeq(e, 3, Len(e))
IsLoop(e) == Source(e) = Target(e)

Width(weighted) == IF weighted THEN 3 ELSE 2

(* What a reader answers: 0 or the exit code, the list, needs_weights.     *)
List(el, needs) == [status |-> 0, edges |-> el, needs |-> needs]
Exit(code) == [status |-> code, edges |-> <<>>, needs |-> FALSE]
Spins == 1

ReaderGetSuffix(name) == name[2]

(* An edge as it is stored: WEL files leave their weights out of an        *)
(* unweighted list.                                                        *)
ReaderPushEdge(weighted, e) == SubSeq(e, 1, Width(weighted))

(* The numbers of a file up to the first thing that is not one, by k.      *)
Tokens(lines) ==
  LET stop == SelectInSeq(lines, LAMBDA l : l.mark # "")
      upTo == IF stop = 0 THEN lines ELSE SubSeq(lines, 1, stop - 1)
  IN  FlattenSeq([i \in DOMAIN upTo |-> upTo[i].nums])

InGroups(nums, k) == [i \in 1 .. Len(nums) \div k |-> SubSeq(nums, (i - 1) * k + 1, i * k)]

ReaderReadEL(lines, weighted) ==
  LET pairs == InGroups(Tokens(lines), 2)
  IN  [i \in DOMAIN pairs |-> ReaderPushEdge(weighted, pairs[i] \o <<1>>)]

ReaderReadWEL(lines, weighted) ==
  LET triples == InGroups(Tokens(lines), 3)
  IN  [i \in DOMAIN triples |-> ReaderPushEdge(weighted, triples[i])]

(* Extraction from a stream stops where fscanf does.                       *)
ReadInEL(lines, weighted) == ReaderReadEL(lines, weighted)

ReadInWEL(lines, weighted) == ReaderReadWEL(lines, weighted)

Arcs(lines) == SelectSeq(lines, LAMBDA l : l.mark = "a")

(* From vertices that start at 1 to vertices that start at 0.              *)
FromOne(nums) == <<nums[1] - 1, nums[2] - 1>> \o SubSeq(nums, 3, Len(nums))

(* The C port takes an arc without a weight for one of weight 1.           *)
ReaderReadGR(lines, weighted) ==
  LET arcs == SelectSeq(Arcs(lines), LAMBDA l : Len(l.nums) >= 2)
  IN  [i \in DOMAIN arcs |-> ReaderPushEdge(weighted, FromOne(arcs[i].nums \o <<1>>))]

ShortArc(line) == line.mark = "a" /\ Len(line.nums) < 3

(* The C++ port extracts three numbers from an arc, and a blank line is as *)
(* good as a blank.  When another line follows one that is too short, the  *)
(* stream fails before its end: nothing is read any more, and the loop     *)
(* that waits for the end goes on for ever.  (The lines of these files all *)
(* have a mark.)  When none does, that is the end, and the numbers not     *)
(* there are those of the arc before, or whatever u and v held at first.   *)
ReadInGR(lines, weighted, unset) ==
  LET arcs == Arcs(lines)
      last == SelectLastInSeq(lines, LAMBDA l : ~IsBlank(l))
      Held(i) == IF i = 1 THEN <<unset, unset, unset>> ELSE arcs[i - 1].nums
      Read(i) == arcs[i].nums \o SubSeq(Held(i), Len(arcs[i].nums) + 1, 3)
  IN  IF \E i \in 1 .. last - 1 : ShortArc(lines[i]) THEN Exit(Spins)
      ELSE List([i \in DOMAIN arcs |-> ReaderPushEdge(weighted, FromOne(Read(i)))], FALSE)
-----------------------------------------------------------------------------
(* METIS: a header of the numbers of vertices and edges and the format,    *)
(* and a line of neighbours per vertex, with their weights in format 1.    *)
(* The files read here have a line for every vertex.                       *)

WithoutComments(lines) == SelectSeq(lines, LAMBDA l : ~IsComment(l))

Format(header) == IF Len(header.nums) >= 3 THEN header.nums[3] ELSE 0

(* The edges of the rows below the header, one row per vertex; loses tells *)
(* whether the last entry of a row is lost.                                *)
RowEdges(rows, header, k, loses, weighted) ==
  LET n == Len(rows)
      last == IF header.nums[1] < n THEN header.nums[1] ELSE n
      Row(u) == LET all == InGroups(rows[u].nums, k)
                    entries == IF loses /\ all # <<>> THEN Front(all) ELSE all
                IN  [j \in DOMAIN entries |->
                       ReaderPushEdge(weighted, <<u - 1, entries[j][1] - 1>>
                                                \o Tail(entries[j]) \o <<1>>)]
  IN  FlattenSeq([u \in 1 .. last |-> Row(u)])

ReadRows(lines, at, loses, weighted) ==
  LET header == lines[at]
      k == IF Format(header) = 1 THEN 2 ELSE 1
  IN  IF Format(header) \notin {0, 1, 100} THEN Exit(-20)
      ELSE List(RowEdges(SubSeq(lines, at + 1, Len(lines)), header, k, loses, weighted),
                weighted /\ Format(header) # 1)

(* Mutant: a comment stands for a vertex.                                  *)
ReaderReadMetis_CountsComments(lines, weighted) ==
  LET at == SelectInSeq(lines, LAMBDA l : Len(l.nums) >= 2)
  IN  IF at = 0 THEN List(<<>>, weighted)
      ELSE ReadRows(lines, at, FALSE, weighted)

(* Lines with less than two numbers before the header are passed over.     *)
ReaderReadMetis(lines, weighted) ==
  LET plain == WithoutComments(lines)
      at == SelectInSeq(plain, LAMBDA l : Len(l.nums) >= 2)
  IN  IF at = 0 THEN List(<<>>, weighted)
      ELSE ReadRows(plain, at, FALSE, weighted)

(* The loop over a line tests the stream after it has skipped blanks: if   *)
(* that fails at the end of the line, its last entry is not taken.         *)
ReadInMetis(lines, weighted) ==
  ReadRows(WithoutComments(lines), 1, WsFails, weighted)
-----------------------------------------------------------------------------
(* Matrix Market: a header in words, a line of sizes, and an entry a line. *)

FieldHasWeights(field) == field \in {"real", "double", "integer"}
Symmetries == {"symmetric", "general", "skew-symmetric"}

Entry(line, valued) ==
  FromOne(IF valued THEN line.nums ELSE SubSeq(line.nums, 1, 2) \o <<1>>)

(* The C port gives a diagonal entry of a symmetric matrix once.           *)
ReaderReadMTX(lines, newline, weighted) ==
  LET words == lines[1].words
      valued == FieldHasWeights(words[3])
      at == SelectInSeq(Tail(lines), LAMBDA l : ~IsComment(l)) + 1
      sizes == lines[at].nums
      entries == SelectSeq(SubSeq(lines, at + 1, Len(lines)),
                           LAMBDA l : ~IsComment(l) /\ Len(l.nums) >= IF valued THEN 3 ELSE 2)
      Both(e) == IF words[4] = "symmetric" /\ ~IsLoop(e) THEN <<e, Reversed(e)>> ELSE <<e>>
      Push(l) == LET both == Both(Entry(l, valued))
                 IN  [j \in DOMAIN both |-> ReaderPushEdge(weighted, both[j])]
  IN  CASE Len(words) # 4 -> Exit(-21)
        [] lines[1].mark # "%%MatrixMarket" \/ words[1] # "matrix" \/ words[2] # "coordinate" ->
             Exit(-22)
        [] ~(words[3] = "pattern" \/ valued) -> Exit(-24)
        [] words[4] \notin Symmetries -> Exit(-25)
        [] at = 1 \/ (at = Len(lines) /\ ~newline) -> Exit(-26)
        [] Len(sizes) < 3 \/ sizes[1] # sizes[2] -> Exit(-26)
        [] OTHER -> List(FlattenSeq([i \in DOMAIN entries |-> Push(entries[i])]),
                         weighted /\ ~valued)

(* The C++ port gives it twice, and knows a complex field by its name.     *)
ReadInMTX(lines, weighted) ==
  LET words == lines[1].words
      valued == FieldHasWeights(words[3])
      plain == SelectSeq(Tail(lines), LAMBDA l : ~IsBlank(l))
      at == SelectInSeq(plain, LAMBDA l : ~IsComment(l))
      sizes == plain[at].nums
      Both(e) == IF words[4] = "symmetric" THEN <<e, Reversed(e)>> ELSE <<e>>
      Push(l) == LET both == Both(Entry(l, valued))
                 IN  [j \in DOMAIN both |-> ReaderPushEdge(weighted, both[j])]
  IN  CASE lines[1].mark # "%%MatrixMarket" -> Exit(-21)
        [] words[1] # "matrix" \/ words[2] # "coordinate" -> Exit(-22)
        [] words[3] = "complex" -> Exit(-23)
        [] ~(words[3] = "pattern" \/ valued) -> Exit(-24)
        [] words[4] \notin Symmetries -> Exit(-25)
        [] sizes[1] # sizes[2] -> Exit(-26)
        [] OTHER -> List(FlattenSeq([i \in 1 .. Len(plain) - at |-> Push(plain[at + i])]),
                         weighted /\ ~valued)
-----------------------------------------------------------------------------
(* The readers by suffix.                                                  *)

ReaderReadEdgeList(name, file, weighted) ==
  CASE ReaderGetSuffix(name) = ".el" -> List(ReaderReadEL(file.lines, weighted), weighted)
    [] ReaderGetSuffix(name) = ".wel" -> List(ReaderReadWEL(file.lines, weighted), FALSE)
    [] ReaderGetSuffix(name) = ".gr" -> List(ReaderReadGR(file.lines, weighted), FALSE)
    [] ReaderGetSuffix(name) = ".graph" -> ReaderReadMetis(file.lines, weighted)
    [] ReaderGetSuffix(name) = ".mtx" -> ReaderReadMTX(file.lines, file.newline, weighted)
    [] OTHER -> Exit(-3)

ReadFile(name, file, weighted, unset) ==
  CASE ReaderGetSuffix(name) = ".el" -> List(ReadInEL(file.lines, weighted), weighted)
    [] ReaderGetSuffix(name) = ".wel" -> List(ReadInWEL(file.lines, weighted), FALSE)
    [] ReaderGetSuffix(name) = ".gr" -> ReadInGR(file.lines, weighted, unset)
    [] ReaderGetSuffix(name) = ".graph" -> ReadInMetis(file.lines, weighted)
    [] ReaderGetSuffix(name) = ".mtx" -> ReadInMTX(file.lines, weighted)
    [] OTHER -> Exit(-3)
-----------------------------------------------------------------------------
(* A graph in memory: offsets into the array of neighbours, of num_nodes + *)
(* 1 entries, both ways.  An undirected graph has its arrays once.         *)

GraphOutNeighbors(offsets, neighs, u) == SubSeq(neighs, offsets[u + 1] + 1, offsets[u + 2])

GraphNumEdgesDirected(g) == IF g.directed THEN g.num_edges ELSE 2 * g.num_edges

GraphVertexOffsets(g, in_graph) == IF in_graph THEN g.in_offsets ELSE g.out_offsets

(* An edge list, sources in ascending order.                               *)
WriterWriteELToFile(g) ==
  FlattenSeq([u \in 1 .. g.num_nodes |->
    LET neighs == GraphOutNeighbors(g.out_offsets, g.out_neighs, u - 1)
    IN  [j \in DOMAIN neighs |-> Numbers(<<u - 1>> \o neighs[j])]])

Side(offsets, neighs) == <<Numbers(offsets), Numbers(FlattenSeq(neighs))>>

(* A header and the arrays, the incoming ones of a directed graph only.    *)
WriterWriteSerialized(g) ==
  <<Line(IF g.directed THEN "directed" ELSE "undirected", <<>>,
         <<GraphNumEdgesDirected(g), g.num_nodes>>)>>
  \o Side(GraphVertexOffsets(g, FALSE), g.out_neighs)
  \o IF g.directed THEN Side(GraphVertexOffsets(g, TRUE), g.in_neighs) ELSE <<>>

WriterWriteGraph(g, serialized) ==
  [lines |-> IF serialized THEN WriterWriteSerialized(g) ELSE WriterWriteELToFile(g),
   newline |-> TRUE]

(* Mutant: the incoming lists of a directed graph are not read.            *)
Deserialized_NoInverse(lines, weighted) ==
  LET Neighs(l) == InGroups(l.nums, Width(weighted) - 1)
      directed == lines[1].mark = "directed"
      num_edges == lines[1].nums[1]
  IN  [directed |-> directed, num_nodes |-> lines[1].nums[2],
       num_edges |-> IF directed THEN num_edges ELSE num_edges \div 2,
       out_offsets |-> lines[2].nums, out_neighs |-> Neighs(lines[3]),
       in_offsets |-> lines[2].nums, in_neighs |-> Neighs(lines[3])]

(* The graph of a serialized file.                                         *)
Deserialized(lines, weighted) ==
  LET Neighs(l) == InGroups(l.nums, Width(weighted) - 1)
      directed == lines[1].mark = "directed"
      in == IF directed THEN 4 ELSE 2
      num_edges == lines[1].nums[1]
  IN  [directed |-> directed, num_nodes |-> lines[1].nums[2],
       num_edges |-> IF directed THEN num_edges ELSE num_edges \div 2,
       out_offsets |-> lines[2].nums, out_neighs |-> Neighs(lines[3]),
       in_offsets |-> lines[in].nums, in_neighs |-> Neighs(lines[in + 1])]

(* The C port asks fread for one item of all the neighbours' bytes: of     *)
(* none, fread never delivers one.                                         *)
ReaderReadSerializedGraph(file, weighted) ==
  [status |-> IF file.lines[3].nums = <<>> THEN -6 ELSE 0,
   graph |-> Deserialized(file.lines, weighted)]

(* The C++ port takes the suffix for the kind of graph in the file, before *)
(* it opens it.                                                            *)
WrongKind(name, weighted) == (ReaderGetSuffix(name) = ".wsg") # weighted

ReadSerializedGraph(name, file, weighted) ==
  [status |-> IF WrongKind(name, weighted) THEN -5 ELSE 0,
   graph |-> Deserialized(file.lines, weighted)]
=============================================================================
