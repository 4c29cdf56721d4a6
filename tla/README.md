# A TLA+ verification of the GAP benchmark kernels

The repository holds the GAP Benchmark Suite twice: the C++/OpenMP reference
(`src/src`) and a sequential port to C (`src/srcc`), which the Makefile builds.
A benchmark reads or generates a graph, builds a compressed sparse row (CSR)
form of it and runs one kernel for a number of trials: breadth-first search
(BFS), shortest paths (SSSP), connected components (CC), betweenness centrality
(BC), triangle counting (TC) or PageRank (PR); a converter writes the graph to a
file instead.  Two things are hard in it.  The parallel kernels: threads of an
OpenMP region race on shared arrays with a few compare-and-swaps, plain stores
that are argued to be harmless, reservations by fetch-and-add, and barriers that
are left out where the author saw no need.  And that there are two programs of
everything, which have to agree on files, options, sources and results.

## Inventory

| component | state | operations | hard behaviour | what makes it correct |
|---|---|---|---|---|
| CSR graph (`graph.h`) | index and neighbour arrays, immutable once built | `out_neigh`, `in_neigh` with an offset, degrees | clamped offsets; one index shared by both directions of an undirected graph | both indexes describe the same edges |
| CC by Afforest (`cc.cc`, `cc.c`) | `comp`, a forest of parent pointers | `Link`, `Compress`, `SampleFrequentElement`, sampling rounds, final loop | CAS lost and retried from stale labels, concurrent path compression, a skip decided on a label others change | a label per component, no merge lost, none invented |
| CC by Shiloach-Vishkin (`cc_sv.cc`, `cc_sv.c`) | `comp`, `change` | hooking, pointer jumping | hooks are plain stores that overwrite one another | a quiet round is final |
| BFS (`bfs.cc`) with `SlidingQueue`, `QueueBuffer`, `Bitmap` | `parent`, queue and window, two bitmaps | `TDStep`, `BUStep`, `QueueToBitmap`, `BitmapToQueue`, the choice of direction | CAS races, buffers flushed concurrently, word-wide non-atomic bit sets, bits left over | a tree of shortest paths; the queue never overflows |
| BFS of the C port (`bfs.c`) | the same over a queue that can grow; two source pickers | the same, with resets; trials, analysis, verification | pointers into a queue being pushed to; kernel and verifier must draw the same sources | no reallocation while pointers are held; every trial accepted |
| SSSP, parallel (`sssp.cc`) | `dist`, thread-local bins, shared frontier, double-buffered indexes | `RelaxEdges`, bucket fusion, vote, reset, copy | CAS retries, stale entries, a reset that overlaps the next iteration | exact distances; no improvement lost; the frontier fits |
| SSSP of the C port (`sssp.c`) | `dist`, bins, bag | `DeltaStep`, `EnsureBin`, a heap for the verifier | entries re-inserted into the bin being scanned, a narrowed constant | exact distances |
| BC (`bc.cc`, `bc.c`) | path counts, depths, successor bits, scores | `PBFS`, back-propagation, `BCVerifier` | path counts added by racing threads, one thread sliding the window | counts and scores exact |
| TC (`tc.cc`, `tc.c`) | a counter | `OrderedCount`, relabelling by degree | early exits in sorted lists | each triangle once |
| PR (`pr*.cc`, `pr*.c`) | scores, contributions | Gauss-Seidel and Jacobi iterations, verifier, list of top scores | contributions read while others replace them | the error that ends the loop bounds what the verifier finds |
| Builder (`builder.h`) | edge list, degrees, offsets | symmetrize, deduplicate, prefix sum, CSR in and out of place, relabel | block-parallel prefix sum, in-place compaction, fetch-and-add placement | the CSR holds exactly the edges |
| Builder of the C port (`srcc/builder.h`) | edge list, arrays | symmetrize, radix sort, compaction, counting passes | stability of the passes, indices of the compaction | the same |
| Readers, writers, converter | files | six formats, serialized graphs | malformed or truncated input, two implementations of each | what one port writes the other reads back |
| Generator | random numbers | uniform and R-MAT edges, permutation, weights | blocks seeded one by one and generated by any thread | the list does not depend on the schedule |
| Benchmark driver and command line | trials, options | `SourcePicker`, `TopK`, the trial loop | a search for a vertex with edges that may not exist | kernel and verifier use the same sources |

The components interact through calls only: the driver calls the builder, which
calls a reader or the generator; the driver picks a source and calls a kernel
with the graph.  The only state shared by concurrent actors is inside one
call.

## Modules

| module | models | abstract specification |
|---|---|---|
| `CSRGraph`, `WeightedGraph` | the read interface of a built graph, and the reference notions `Connected` and shortest length | |
| `Afforest` | `Afforest`, `Link`, `Compress`, `SampleFrequentElement` of `cc.cc` | `ComponentMerge` |
| `ShiloachVishkin` | `ShiloachVishkin` of `cc_sv.cc` | |
| `ParallelBFS` | `DOBFS` and its steps, `SlidingQueue`, `QueueBuffer`, `Bitmap` | `BFSTree` |
| `CBFS` | the C port's bfs program: trials, both pickers, `DOBFS` over a queue that reallocates, analysis, verification | |
| `ParallelDeltaStep` | `DeltaStep` and `RelaxEdges` of `sssp.cc` | `ShortestPaths` |
| `DeltaStep` | `DeltaStep`, `EnsureBin`, `kDistInf` of the C port, and `SSSPVerifier` with its heap, which judges what `DeltaStep` returned | |
| `Verifiers` | `BFSVerifier` and `CCVerifier` of both ports, over any result | |
| `Brandes` | `Brandes`, `PBFS` and `BCVerifier` of both ports: threads, queue and buffers in C++, a sequential search in C | path counts and scores defined by enumerating shortest paths |
| `PageRank` | the four PageRank programs, the trial loop, `PRVerifier`, `TopK` and `PrintTopScores` | |
| `Triangles` | `Hybrid`, `WorthRelabelling`, `OrderedCount`, `TCVerifier` of `tc.cc` and `tc.c`, `RelabelByDegree` of both builders | the number of cliques of three |
| `Builder` | `MakeGraphFromEL`, `MakeCSR`, `MakeCSRInPlace`, `SquishGraph` of the C++ `builder.h` | the edges the list asks for |
| `CommandLine` | the option classes of graphs, kernels, PageRank and the converter, and the refusals of `ParseArgs` | |
| `GraphFile` | every format of both readers and writers, line by line and number by number, with their refusals | |
| `Generator` | uniform and R-MAT lists in blocks, the permutation, the weights | |
| `CBuilder` | the C port's builder: symmetrizing, radix sort pass by pass, compaction edge by edge, counting passes, inversion | |
| `Converter` | both ports' converter programs, invoked one after the other over one set of files; composes `CommandLine`, `GraphFile`, `Generator` and `CBuilder` | |
| `Distances` | reference hop distances | |
| `Suite` | composes `Triangles`, `Brandes`, `Verifiers` and `PageRank`: one of them is started, the variables of the others rest | |
| `CSRGraphProofs`, `AfforestProofs`, `ShiloachVishkinProofs`, `ParallelBFSProofs`, `CBFSProofs`, `ParallelDeltaStepProofs`, `DeltaStepProofs`, `SuiteProofs` | theorems | |
| `GraphSamples`, `WeightedSamples`, `MC*` | instances for TLC | |

How the program becomes a specification:

* A graph never changes, so it is a value `g`, chosen in `Init` from the
  constant `Graphs`.  Only where files are read and written
  (`GraphFile`, `CBuilder`, `Converter`) is it its arrays and counts.
* One action is one access to memory that threads share (a read, a store, a CAS
  or a fetch-and-add) together with the thread-local work up to the next one.
  `pc[t]` names the next access of thread `t`.  Two accesses are merged only
  when one of them is to a cell no other thread writes at that time
  (`comp[n]` in `Compress`, `parent[u]` in `BUStep`) or whose value is settled
  (`depths[v]` in `Brandes`); the comment of the action or module says so.  In a
  sequential program one action is one iteration of a loop, or a call that has
  none.
* A `parallel for` hands iterations out of a set `todo`.  Which thread takes
  which iteration and in which order is left open, and so is when: a chunk is
  a run of iterations that one thread happens to take.  Its end is a barrier
  action, unless the loop is `nowait`: then a thread leaves as soon as the
  iterations not started can be those of threads that still are in the loop
  (`LeaveLoop`), so that it flushes its buffer or fuses its bin while others are
  still at it; the last thread in the loop leaves when nothing is left.  In `BUStep` an iteration of `todo` is a chunk, since
  the safety of `set_bit` rests on the chunk size.
* A loop whose iterations share nothing, or only add atomically to cells nobody
  reads before its barrier, is one step (the degree counts and prefix sums of
  `Builder`, the contributions of `PageRank`) or one step per iteration (the
  back-propagation of `Brandes`).
* Floats are exact: scores are counted in units of 1/`Unit`, a common multiple
  of the denominators of the instance, and `kDamp` is the fraction
  `Damp`/`DampOf`.  Rounding is not modelled.
* Memory that is reused for something else is modelled word by word (`mem` in
  `Builder`); `std::binary_search` is modelled as the library computes it, since
  its argument is not sorted.
* A random number is a draw of a generator that is a constant function of the
  seed and of how many draws came before (`Draw` in `Generator`, `Streams` in
  `CBFS`); where only what may be drawn matters, it is any draw
  (`SampleFrequentElement`, `WorthRelabelling`).
* What the language leaves to the build is a constant: `RightToLeft`, the order
  in which the arguments of a call are evaluated, on which the C++ generator's
  edges depend, `WsFails`, whether `std::ws` fails at the end of a stream, and
  `Unset`, what a variable may hold that nothing was assigned to.
* An OpenMP reduction is added to the shared total at once, which the barrier
  makes equal to adding private copies.
* Locals that go out of scope are set to a dead value, so that states that
  differ in dead locals only are one.
* Sequential consistency is assumed for the racy plain accesses, as the code
  assumes it.
* With one thread `Afforest` and `ShiloachVishkin` are the C port's
  `src/srcc/cc.c` and `src/srcc/cc_sv.c`, statement by statement; a run with
  two threads contains those executions, because one thread may take every
  iteration.
* A definition `X_Suffix` before `X` is a mutant of `X`: a plausible bug.  It is
  used nowhere; putting it in the place of `X` violates the property it was
  written for.
* A cfg gives a constant set the name of a definition that only names another
  one (`MCGraphs == Samples`): TLC then evaluates the set once.


## Runs

| run | instance | shows |
|---|---|---|
| `afforest` | 16 graphs of 4 vertices, directed and undirected, 2 threads, the code's 2 rounds, fairness | `SampledThenCompressed`, `LabelsDescend`, `LabelsExact` (the skip of the largest component loses nothing), the refinement `MergesOnly`, `Termination`, and the proof's `SoundInv` |
| `sv` | all directed graphs of 3 vertices, 2 threads, fairness | lost hooks cost a round, never an edge; a vertex once hooked stays hooked; the rounds end |
| `bfs` | 24 graphs of 6 vertices, every source, chosen so that threads meet at one unvisited vertex or the direction changes twice, `alpha` 1 and 6, `beta` 6, buffers of one entry, fairness | races for a parent and concurrent flushes; bottom-up, top-down and bottom-up again with stale `front` bits; two words per bitmap chunk boundary; the refinement of `BFSTree`; `Termination` |
| `trial` | the C port's bfs program: 9 graphs of 6 vertices, one without edges, 6 streams of draws, 4 command lines with 0 to 2 trials, with and without `-r`, `-v` and `-a`, fairness | `PointersInv`: no pointer into the queue dangles, because it never grows; `TrialsExact`: right trees, and a verifier that draws the same sources; `Termination`: the program ends unless it has to draw a source from a graph without edges |
| `pds` | weighted graphs of 4 vertices with two ways to vertex 3, fairness | lost CASes, bucket fusion with a bin over and under its threshold, both sides of the double buffer; the refinement of `ShortestPaths`; `Termination` |
| `sssp_bins` | all graphs of 3 vertices, and fans of 5, with weights 0, 1, 3 and delta 2, fairness | `BinsInv`: the C port's bins lose nothing, given an infinity that is one, and the verifier's heap stays ordered with four entries and several of one vertex in it; `DistancesExact`; `VerdictExact`; `Termination` |
| `builder` | every list of up to 2 weighted edges over 3 vertices and of 3 unweighted edges over 2, placed by 2 threads, with and without `-s`; every set of edges over 3 vertices, and with `-s` of up to 6 edges over 4, built in place; prefix sums in blocks of 2 | `BuildsExactly` and `InPlaceInv` |
| `converter` | both ports, invoked twice: 12 files of the five text formats, 602 small edge lists, 6 files to be refused, each converted to every kind of output, generated graphs of 4 or 2 vertices with 2 threads, and commands to be refused, for files that do not exist among others; then the file written is read back by either port | `ReadsExactly`, `GeneratesAlone`, `GraphExact`, `RoundTrip`, and `ConverterInv`: the compaction never overtakes itself or loses an edge |
| `suite` | four programs that share no state, one started: TC on all undirected graphs of 4 vertices; BC of both ports on 12 graphs with two ways from 0 to 3, 2 threads, 2 iterations, every choice of sources and `-r`; the verifiers of BFS and CC on 32 graphs, every source and every function from vertices to parents or labels; PR on 20 graphs of 3 vertices, 2 threads, all four programs | `ScanInv`, `ResultExact`; `PathsInv`, `ScoresExact`; `ListInv`, `VerdictExact`; `RanksInv`, `RanksExact` |

An invariant called `...Inv` has the module's `TypeOK` as its first conjunct
(`ConverterInv` spells its own out).  A run is one configuration: its safety
properties, its refinement and its liveness are checked over one state space.
Three runs show a disagreement:

* `sssp_distinf`: the C port's `kDistInf` (`src/srcc/sssp.c:16`) is -1 once
  narrowed to `int32_t`, so no edge is ever relaxed.  `SSSPVerifier` shares the
  constant and accepts the result.  The module takes the constant as a
  parameter, so that `sssp_bins` can judge the rest of the function.
* `pds_frontier`: the shared frontier of `src/src/sssp.cc:92` has one slot per
  directed edge, but a vertex that improves twice within a bin puts its
  out-neighbours into a later bin twice; on a graph of seven edges eight entries
  are copied.  In the model the array is as long as it has to be, and
  `FrontierFits` states the bound; it is no property of the passing runs, which
  are too small to break it.
* `converter_metis`: the C++ reader of METIS files tests `edge_stream >> v >> std::ws`
  (`src/src/reader.h:133`), and `std::ws` fails at the end of the stream since
  LWG 3464, as libstdc++ 11 and later have it: the last neighbour of every line
  is dropped.  The passing run `converter` has `WsFails = FALSE`, an older
  library.

One more is visible without a run: the comment at `src/src/bfs.cc:34` gives the
encoding of an unvisited parent as the negated out-degree, but `InitParent`
stores -1 for degree 0, and `scout_count` counts one edge for such a vertex.

Observations the passing runs rest on:

* `MakeCSRInPlace` binary searches lists whose front is not sorted (inverses
  already added, largest first, `src/src/builder.h:277-283`); `InPlaceInv` shows
  why the search is right all the same: every such list is split into what is
  below and what is not below the vertex looked for.
* `OrderedCount` moves an iterator with no test for the end of its list
  (`src/src/tc.cc:63`); `ScanInv` shows that it always stops at or before `u`,
  which the list of `v` holds since the graph is undirected.  So the test the C
  port adds (`src/srcc/tc.c:39-42`) is never true.
* `Brandes` divides by the largest score without a test (`src/src/bc.cc:148`):
  `ScoresExact` shows that it is 0 only with `-r` on a vertex without out-edges,
  and then every score is not a number; the C port tests for it
  (`src/srcc/bc.c:141`).
* `RoundTrip` names the pairs that do not survive: the C port cannot read back
  a serialized graph without edges (it exits with -6, because `fread` of an item
  of no bytes returns 0, `src/srcc/reader.h:337`); an empty list makes the C
  port write a graph without vertices, on which the C++ program divides by zero
  when it prints the average degree (`src/src/graph.h:229`), where the C++ port
  itself makes a graph of one vertex.
* With `-s`, parallel edges of different weights leave the C port with the first
  weight it finds in each direction, which may differ (`OneWeight` fails); the
  C++ builder keeps the least both ways.  Generated graphs have 2^scale vertices
  in the C port and one more than the highest number drawn in the C++ port.
* The C++ `.gr` reader loops until it has met the end of the file
  (`src/src/reader.h:75`), which a stream that has failed never does: when
  another line follows an arc without a weight, nothing is read any more,
  nothing is appended, and the loop never ends.  `ReadsExactly` asks that no
  other file does this to it: such files are among the inputs, and the model has
  a state in which the program stays.  As the last line the same arc ends the
  loop and is appended with the weight of the arc before it, or with one nothing
  was assigned to (`Unset`); the C port takes it for an arc of weight 1.
* A converter with an input but no output name ends with an error only after it
  has built the graph.

Bounds.  Three or four vertices suffice for two threads to meet at one cell from
different edges, to lose a CAS and to retry; six are needed for a second
bottom-up phase.  In `afforest` a vertex of three neighbours gives the final loop
something to do after two rounds: its third edge is sampled from neither end
when the graph is directed.  In `sssp_bins` five vertices are needed because a
heap compares the right child of its root only when it holds four entries.  In
`converter` two `Buckets` make four vertices need two digits, and a
`BlockSize` of 3 makes lists end inside a block.  The
constants of the code that are large only for speed (`Alphas`, `Betas`,
`BufferSize`, `WordBits`, `Chunk`, `BlockSize`, `BinSizeThreshold`, `Buckets`,
`NeighborRounds`, `MinAverageDegree`, `MaxSamples`, `MaxRand`, `MaxWeight`,
`TopSize`) are parameters, given small values so that buffers fill, words are
shared, directions change and passes carry.  `Chunk` is a multiple of `WordBits`, as 1024 is of 64.
`WeightRange`, the number of values of a `WeightT`, is 256 or less and keeps TLC's
integers in range; the constant that is twice as wide is built the same way.  `Invocations` bounds how often the converter is run.
Nothing else is bounded: all the state spaces are finite by themselves.  No
symmetry is used.

`converter` and `converter_metis` run with `CHECK_DEADLOCK FALSE`: programs
that were refused, or that a `.gr` file keeps in their loop, end there.

Fairness.  `FairSpec` assumes weak fairness of each thread and of the barriers
and sequential parts: the OpenMP runtime runs every runnable thread, and a
barrier opens when all have arrived.  No thread is assumed to win a CAS.  A
sequential program goes on: weak fairness of its `Next`.

## Proofs

The theorems hold for every number of vertices, threads and sampling rounds and
for every set of graphs, under the named assumptions of the modules:
`NumNodesAssumption` (at least one vertex), `ThreadsAssumption` (finitely many
threads, at least one), `RoundsAssumption` (a natural number) and
`GraphsAssumption` (`IsGraph`: both indexes describe the same edges, and an
undirected graph has one index), for `Suite` the `Assumptions` of its four
modules, among them that the graphs `Triangles` counts are undirected, have no
self-loops and have their lists in order with no vertex twice (`Mirrored` and
`Squished`, which symmetrizing and `SquishCSR` see to), for `CBFS` also that no vertex is twice in a list (`IsSimple`, which
`BuilderDeduplicateEdges` sees to), that `-n` and `-r`, which the program does not
check, are a number of trials and a vertex (`OptionsAssumption`), and that the
generator comes to every vertex (`StreamsAssumption`), for `ParallelBFS` and `CBFS` `TuningAssumption`
(the tuning parameters are positive), for `ParallelBFS` `AlignmentAssumption` (the chunks of
`BUStep` are whole bitmap words, as 1024 is a multiple of 64), for
`ParallelDeltaStep` also
`DeltasAssumption` (a delta is positive) and `LimitsAssumption` (every distance
below `kDistInf`, 2^30, falls into a bin below `kMaxBin`, 2^63 or so) and
`PathsAssumption` (no shortest path is longer than `kDistInf`, half the range of
a distance: `src/src/sssp.cc:64`) and `SumsAssumption` (what is added to a
distance leaves it an `int`, so no weight is above 2^30 or so: a longer sum is
undefined in C++); its graphs have no negative weights.  `WeightRangeAssumption`
says that a `WeightT` has a number of values that 4 divides, as 2^32 is.

The theorems about `DeltaStep` have a hypothesis instead, `WeightsFit`: weights
are below half that range, `DistInf` plus a weight does not leave it, and *if*
`DistInf` is above 0 no distance exceeds it.  That allows two kinds of infinity,
and the theorems speak of both.  With one above 0, which the code means and the
C++ port has, the program is right; this is the rest of the program, shown to
need nothing else.  The constant of the C port is -1 for every width of `WeightT`
(`DistInfIsNegative`), and with it the program does nothing
(`ShippedFindsNothing`): no edge is relaxed, the array it began with is returned,
the verifier, whose constant is the same, accepts it, and it is wrong whenever the
source has a neighbour other than itself.  That is the run `sssp_distinf`, for
every graph.  TLC evaluates `WeightsFit` for the instance of `sssp_bins`
(`FitAssumption`).

| theorem | module | states |
|---|---|---|
| `SoundAlways`, `LabelsAlwaysSound` | `AfforestProofs` | `Spec => []SoundInv`; no label rises above its vertex or leaves its component |
| `LabelsOnlyDescend` | `AfforestProofs` | `Spec => LabelsDescend` |
| `SampledAlways` | `AfforestProofs` | `Spec => []SampledThenCompressed` |
| `ExactAlways` | `AfforestProofs` | `Spec => []LabelsExact`: skipping the largest component loses nothing |
| `RefinesMerge` | `AfforestProofs` | `Spec => MergesOnly`, the refinement of `ComponentMerge` |
| `HooksSound` | `ShiloachVishkinProofs` | `Spec => []SoundInv`: hooks that overwrite one another never join two components |
| `RootsOnlyGo` | `ShiloachVishkinProofs` | `Spec => HookedForGood` |
| `QuietRoundFinal` | `ShiloachVishkinProofs` | `Spec => []QuietRoundIsFinal` |
| `QueueNeverOverflows` | `ParallelBFSProofs` | `Spec => []QueueInv`: no reservation leaves the slots of the queue of `DOBFS` |
| `LevelsAreExact` | `ParallelBFSProofs` | `Spec => []LevelsExact`: no level loses or doubles a vertex on its way, and its counts are right |
| `ImplementsBFSTree` | `ParallelBFSProofs` | `Spec => GrowsShortestPathTree`, the refinement of `BFSTree` |
| `NothingIsLost` | `ParallelDeltaStepProofs` | `Spec => []NothingLost`: lost CASes, bucket fusion and the vote forget no improvement |
| `FrontierIsWritten` | `ParallelDeltaStepProofs` | `Spec => []FrontierInv`: no slot of the shared bin is read before it is written |
| `ReturnsRelaxed` | `ParallelDeltaStepProofs` | when `DeltaStep` returns no edge can improve a label |
| `RefinesShortestPaths` | `ParallelDeltaStepProofs` | `Spec => FindsShortestPaths`, the refinement of `ShortestPaths` |
| `DistInfIsNegative` | `DeltaStepProofs` | `kDistInf` of the C port is -1, however wide `WeightT` is |
| `ShippedFindsNothing` | `DeltaStepProofs` | with that infinity `DeltaStep` finds no path, `SSSPVerifier` accepts it, and `DistancesExact` fails whenever the source has a neighbour other than itself |
| `ReturnsShortest` | `DeltaStepProofs` | if `DistInf` is above 0, `[]DistancesExact`: the C port returns shortest lengths; if not, what it returns is what it began with |
| `BinsHoldInv` | `DeltaStepProofs` | if `DistInf` is above 0, `[]BinsInv`: no bin loses a vertex, and what is passed is settled; if not, no bin loses one either, since no edge passes for an improvement |
| `VerdictIsExact` | `DeltaStepProofs` | if `DistInf` is above 0, `[]VerdictExact`: `SSSPVerifier` accepts shortest lengths only; if not, it accepts everything `DeltaStep` returns |
| `ScanNeverLeaves` | `SuiteProofs` | `Spec => []ScanInv`: the iterator of `OrderedCount` stays in its list |
| `TrianglesExact` | `SuiteProofs` | `Spec => []ResultExact`: every triangle is counted once, relabelled or not, and `TCVerifier` agrees |
| `ListAlways` | `SuiteProofs` | `Spec => []ListInv`: the list of a verifier never outgrows its reserve |
| `VerdictsExact` | `SuiteProofs` | `Spec => []VerdictExact`: `BFSVerifier` accepts the trees of shortest paths, `CCVerifier` the labellings that tell the components apart, and neither anything else |
| `PointersNeverDangle` | `CBFSProofs` | `Spec => []PointersInv`: the C port's queue is never reallocated while pointers into it are held |
| `TrialsAlwaysExact` | `CBFSProofs` | `Spec => []TrialsExact`: every trial returns a shortest-path tree, and its verifier draws the same source and accepts it |

`CSRGraphProofs` holds what they share: `Connected` is an equivalence that
contains the edges, and labels that agree along every edge and never leave their
component are exact (`AgreeingLabelsExact`).  `Connected` and `SameTree` are
defined by closed sets, not by paths, so these are first-order facts and need no
induction.

It also holds what is known of definitions that recurse.  A set of naturals that
has a member has a least one (`LeastNumber`), so induction can be done over sets
instead of over an operator (`Induction`): the sets of numbers up to which a
function exists, say, which gives the function a recursive definition chooses
(`RecursionExists`).  `ShortestLengths` is one: the label of a vertex after round
`k` is the least sum along a walk of at most `k` edges.  Two facts follow, and
they are all the proofs about distances use:

* labels that no edge improves, that are 0 at the source and that are sums along
  walks are the shortest lengths (`RelaxedLabelsExact`).  A walk is not a
  sequence here but a trace, a set of pairs of a vertex and a sum that is closed
  under the edges;
* if no edge out of a vertex below a bound improves a label, the labels below
  that bound are the shortest lengths (`SettledLabels`).

**Afforest, soundness.**  `LabelsSound` is not inductive: the CAS writes a label
that its thread read long ago.  `SoundInv` adds what each thread holds
(`ThreadInv`): the neighbours left are connected to its vertex, `p1` and `p2`
are connected and different inside the loop of `Link`, the value read on the way
is connected to `high`, and the value about to be written by `Compress` is
connected to its vertex and not above it.  `ThreadInv` does not mention `comp`,
so it holds however much other threads change in between (`Undisturbed`), and a
step changes the locals of one thread only (`OneThread`).

**Afforest, the forest.**  That is enough to show that nothing wrong is joined,
but not that everything is.  `ForestInv` is inductive with seven parts:

* `SoundInv`, above;
* `PhaseInv`: each loop runs its own part of the program, and no two threads
  work on one vertex;
* `LinkInv`: the two labels `Link` holds are in the trees of its two vertices.
  This survives the other threads because trees only grow;
* `CompressInv`: the label `Compress` is about to write is reached from the one
  it replaces by pointers of lower vertices, which other threads may shorten but
  not redirect.  So its store takes no tree apart, and only lowers the pointer;
* `LinksOwed`: an edge the present loop has to link is joined already, or its
  iteration is still to be taken, or a thread has it in hand; in the final loop
  it may also be settled because its vertex is in the tree of `c`, the label
  that is skipped;
* `Flattens`: after the barrier of a compress loop every pointer is to a root;
* `JoinedInv`: the sampled edges, and at the end all edges, are joined.

`TreesGrow` is the centre: a successful CAS joins (`SwapJoins`), a store of
`Compress` keeps every tree (`CompressKeeps`), nothing else writes `comp`.
`FinalLinks` is the argument for the skip: an edge skipped from both ends joins
two vertices of the tree of `c`; an edge skipped from one end is linked from the
other, which in a directed graph finds it in the reverse index.  For the
refinement, a root and a vertex below it are in different trees (`RootApart`),
hence a successful CAS merges two trees of one component and leaves the others
as they were (`SwapMerges`), and every other step stutters (`StepMerges`).

**Shiloach-Vishkin.**  Hooks are plain stores, so a tree can lose what another
thread hooked to it; trees do not only grow, and the argument is about rounds.
`IInv` says, beside `TypeOK`, `LabelsSound` and what a thread holds, that while
`change` is false in a round nothing has been written in it: all pointers are
flat, what a thread has read is still there, and every edge agrees, is still to
be visited or is in the hands of a thread (`QuietHook`).  The thread that finds
a difference sets `change` before it hooks, which is why the order of
`src/src/cc_sv.cc:69-70` matters.  The barrier turns this into `QuietJump`, in
which the jumping loop writes nothing, and then into `QuietDone`.

**Triangles.**  What makes `ScanInv` inductive is `Mirrored(out)`: the lists are
mirror images of one another.  Renumbering the vertices keeps it, because an
order is a permutation (`PlacedMirrored`), and so does sorting, because it
permutes each list.  Then `v` is a neighbour of `u`, so `u` is in the list of
`v`, behind the iterator, and every entry looked for is at most `v`, below `u`.
It does not need the lists to be sorted: only the count does.

`ResultExact` needs three more parts.  `SortedInv`: all lists are in order when
the count begins, because a list without duplicates keeps none when it is
renumbered (`PlacedDistinct`) and is strictly ascending once it is sorted
(`SortedAscending`), and there are as many triangles as in the graph given.
`BehindInv`: what the iterator has passed is below every `w` still to come, so a
common neighbour is never behind it.  `TrianglesCounted`: a match is a triangle
not passed before (`MatchStep`), and what the early exits leave out are no
triangles, because the lists are in order (`CountStep`).  Renumbering and
`TCVerifier` are about triangles in all six orders of their vertices (`Ordered`):
there are six times as many (`SixOrders`), renumbering maps them one to one
(`CliquesPlaced`), and the walk through two lists in step finds what they have in
common (`InCommonCounts`), which summed over all edges (`SumOfSizes`) counts them
all (`CountedExact`).

**Direction-optimizing BFS.**  `QueueInBounds` is not inductive: whether a
reservation fits depends on which vertices went through the queue before.  `IInv`
of `ParallelBFSProofs` follows every vertex:

* `ShapeInv`: types, which access belongs to which region, and that a buffer
  being copied got slots behind the window and below `shared_in`;
* `PlaceInv`: a vertex is at one place at most (a slot, written or reserved for
  it, an entry of a buffer, or the hands of a thread about to push it), what has
  a place has been visited, and every slot handed out has a vertex;
* `BitInv`: what `BUStep` puts into the next bitmap, or holds in a word it is
  about to write back, is visited and has no place, until `BitmapToQueue` takes
  it up.

A CAS that succeeds found its vertex unvisited, so it had no place
(`TakingThread`); `Push`, `Reserve` and `Copy` move vertices from one place to
the next.  Every slot handed out has a vertex of its own, so there are at most
`NumNodes` of them (`SlotsFit`, by counting).  The bits of an older level that
`QueueToBitmap` leaves in `front` do no harm here: only the bits of the last
bottom-up step, which come from a cleared bitmap, are taken up.

**The levels of DOBFS.**  `LevelsInv` says that the search is at some level `k`,
which every region hands on whole:

* `TopDownInv`: what is fresh (behind the window, in a buffer or in hand) is what
  has been visited of level `k + 1`; every edge out of level `k` leads to a
  visited vertex, or is *owed*: the iteration is left, or a thread has the edge
  before it.  A CAS that fails has lost to one that visited the vertex, since an
  unvisited parent never changes (`OwedStays`).  `scout_count` is the sum of the
  encoded degrees of the fresh vertices (`Total`, a sum over a set that a
  recursive function adds up);
* `MarkInv` and `GatherInv`: the level is copied into `front`, and back from it;
* `BottomUpInv`: a vertex of level `k + 1` is visited, or in a chunk that is left,
  or ahead of the thread in its chunk (`ToVisit`), and each vertex reached is in
  the next bitmap or its bit about to be set (`Bits`).  A thread writes back the
  word it read, which is right because a word lies in one chunk (`WordInChunk`,
  from `AlignmentAssumption`) and a chunk belongs to one thread (`ChunksApart`).

`front` may hold bits of older levels.  That is why `Between` is needed: all up
to level `k` is visited, so a vertex without a parent whose neighbour has a bit in
`front` can only be one level behind `k` (`FindsVertex`).  That distances grow by
at most one along an edge, and that a vertex at distance `k + 1` has a neighbour
at `k`, is proved of the balls that define them (`DepthFacts`); behind an empty
level there is nothing (`LastLevel`), so the tree returned is complete.  The
refinement needs nothing more: a CAS that succeeds and a vertex found join the
tree below a vertex of level `k` (`Joins`), the rest stutters.

What the bitmaps hold between two steps of one bottom-up phase is all that is
claimed of them: with the two bitmaps of the code the old one, swapped away, is
cleared before it is used again, but `front` is not, so that a second phase starts
with more than its level (`MarkInv` says `front` contains it).

**Parallel delta-stepping.**  `NothingLost` speaks of the start of an iteration;
`IInv` of `ParallelDeltaStepProofs` of every moment in it.

* `PhaseInv`: between the barriers either all threads relax (`RelaxInv`) or all
  copy (`MoveInv`).  While they relax, the label a thread read may be out of date
  but is never too low, and no entry of the current bin, no copy of it and no
  vertex in hand is of a lower bin.  While they copy, the slots reserved but not
  yet written are below the tail and each of one thread, and all others below it
  are `Ready`.
* `OwedInv`: a vertex with an edge still to relax is in the shared bin, in the
  bin of its distance of some thread, in a copy, or in the hands of a thread
  with that edge before it, and not behind the current bin; while the threads
  copy, it is in such a bin or in a slot that is written, not behind the next.

Labels only drop, and not into a bin that is over (`Descends`), so what holds of
the other threads goes on holding (`OthersRelax`), and a vertex that keeps its
label has no new edge to relax (`RelaxOwed`).  A CAS that wins bins the vertex
whose label it lowers and settles its edge; one that loses keeps the candidate
distance it computed, which is either still the right one or belongs to a vertex
whose label has dropped since, and which is in a bin for it.  The test that skips
stale entries is right because a distance is at or above the lower bound of the
current bin exactly when its bin is not a lower one (`DivBound`).  At the first
barrier the vote has found a bin no later than any that is owed; at the second,
no vote at all means that nobody is owed, because a label that was reached has a
bin (`InABin`).

That a thread may leave the loop over the shared bin while iterations are left
costs one more part: something is left only while a thread is in that loop
(`LoopHeld`), which is why nothing is when the last one comes to the barrier.
`EdgesInv` says that the edges in hand are edges of the graph, so that a sum is one
`SumsAssumption` speaks of, and the code's `int` holds it (`SumIs`).

For the refinement, `WalkInv` adds that a label, also one that a thread has only
computed, is the length of a walk from the source.  A CAS that succeeds is a step
of `ShortestPaths` by itself, whatever was read before it; everything else
stutters, and the return is right because no edge is left to relax.

**Delta-stepping of the C port.**  `KernelInv` has the same parts for one thread
(`BinsHold`, `LoopInv`, `PathsInv`, `NothingLost`), with the words added: no sum
leaves the range of `WeightT`, so that `Truncate` changes nothing (`WeightsFit`).
It needs an infinity above 0 (`ProperInfinity`); for the other kind `IdleInv` says
that all distances are as they were at the start and that the source is the only
vertex ever taken.
A vertex that is owed an edge is not behind the current bin, so no edge out of a
vertex below it can improve, and `SettledLabels` makes those distances exact.

**The verifier's heap.**  `HeapPush` and `HeapPop` move entries along a chain of
places, which a recursive function computes; it exists because every step has a
lower rank (`ChainExists`).  Such a chain stops at one place, and comes to every
other place but the first from the place before (`ChainFacts`).  From this a push
keeps the order (`HeapPushed`): an entry pushed down stays below its new parent,
which was its grandparent.  So does a pop (`HeapPopped`): an entry moved up is
the lesser of two siblings.  Both change the set of entries only by the one that
is added or taken.  The root is the least entry
(`RootIsLeast`), by the least counterexample.

**The verifier's search.**  `VerifierInv` is Dijkstra's argument, with entries
out of date in the heap: a vertex whose label was lowered has an entry of that
label, or it is the vertex taken; no entry is nearer than the one taken last; and
a vertex whose entry is not in the heap has no edge that improves, but for the
edges still in hand.  Hence what is nearer than the entry taken is settled, and
when the heap is empty everything is.

**The bfs program of the C port.**  `CBFS` is sequential, and the argument has
four parts that meet in the invariant of `CBFSProofs`.

* The pickers.  What a picker draws from a state is the first vertex with
  out-edges on the cycle of the generator.  "First" is said by closed sets of
  states, not by counting steps, so no induction is needed: the kernel's picker
  and the verifier's, started from one seed and asked as often, draw the same.
* The slots.  A vertex is in one slot at most, and what is in a slot has been
  visited, so `SlidingQueuePushBack` never finds `capacity` used up: the block of
  memory the pointers of `TDStep` hold is the block the queue has.
* The levels.  As in `ParallelBFSProofs`, but one vertex, one neighbour at a time:
  the window is the level reached, `front` contains it, and what is behind the
  window is what has been found of the next.  The lemmas about levels
  (`LevelsOf`, `LastLevelOf`, `LevelBoundOf`) are shared by both.
* The result.  `Return` hands on a tree of shortest paths; `PrintBFSStats` adds the
  degrees of what is in it, which is `Total` of `CSRGraphProofs`; the search of
  `BFSVerifier` finds the depths again and every parent passes its tests.

**The suite.**  A step of `Suite` is a step of the program started or stutters
(`StepOfOne`), so what is inductive for one program is for the suite.

**Verifiers.**  A vertex is appended when it is marked, by a depth or a visited
bit, so the list has no duplicates, and counting gives its length; a depth is
below the position in the list, which bounds the depths.  For the verdict of
`CCVerifier`, the vertices visited under one label are connected (`VisitedInv`),
and each of their neighbours is visited under that label or still to be compared
(`ClosedInv`).  When no label is left they form closed sets of one label each: an
accepted labelling has them all visited, so that they are the components.

`BFSVerifier` needs `QueueInv`: its list is ordered by distance and reaches one
edge further than the vertex being visited, nothing nearer than that vertex is
missing from it, and each vertex that was visited has shown all its neighbours, or
has those in hand left.  So a vertex found without a depth is exactly one edge
further (`FindDepthQueue`), and when the list is exhausted the nearest vertex
missing would hang from one that is there (`EndSearchQueue`).  With depths that
are distances, the tests of the parents are those of a tree of shortest paths
(`CheckParentsQueue`), also for a parent that was never reached, whose depth is -1.

Only model-checked: every property of `Brandes`, `PageRank`, the builders and the
converter; liveness everywhere, because it rests on fairness.  The sorting of edge
lists, and the folds of the community modules, stay with TLC too.

## Plan

What is left, in this order:

1. The path counts of `Brandes`, whose definition by enumerated paths needs an
   induction on their length.
2. The C port's bfs program over the graphs `CBuilder` builds, in place of
   graphs given as values.

## Not modelled

* Kernels on graphs without vertices: the programs refuse or fail before them
  (see `RoundTrip`).
* Rounding of floating-point numbers: scores are exact fractions.  What depends
  on it, such as the sums that come out different with another schedule, is not
  decided here.
* What is printed only to be looked at: `PrintCompStats`, `PrintSSSPStats`,
  `PrintTopology`, help texts, timers and `util.h`.  `PrintBFSStats`, the same in
  both ports, is in `CBFS` only.
* The option classes of tc, bc and sssp, which add nothing to those modelled but
  a number.
* The ownership of memory in `pvector` and `CSRGraph` (moves, destructors), and
  allocations that fail.
* The syntax of numbers, the lengths of line buffers, and writes that fail:
  files are lines of words and numbers.
* `QueueBuffer` of the C port, which no program of it uses.
* Weak memory: plain accesses are sequentially consistent.
