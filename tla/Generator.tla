------------------------------ MODULE Generator ------------------------------
(***************************************************************************)
(* Random edge lists: generator.h of both ports.  Edges are drawn in       *)
(* blocks, by the threads of an OpenMP loop in the C++ port and by one in  *)
(* the C port; at the start of each block the generator of random numbers  *)
(* is seeded with the block's number.  A draw is the constant function     *)
(* Draw of the seed and of how many draws came before.                     *)
(***************************************************************************)
EXTENDS Integers, Sequences, FiniteSets
LOCAL INSTANCE SequencesExt
LOCAL INSTANCE FiniteSetsExt

CONSTANTS
  Threads,      \* OpenMP worker threads
  BlockSize,    \* block_size, 1 << 18 in the code
  MaxRand,      \* the largest number drawn, 2^32 - 1 in the code
  MaxWeight,    \* weights are drawn from 1 .. MaxWeight, 255 in the code
  kRandSeed,
  Draw(_, _),
  RightToLeft   \* the C++ build evaluates the arguments of a call from the right

ASSUME GeneratorAssumption ==
  /\ IsFiniteSet(Threads) /\ Threads # {}
  /\ BlockSize \in Nat \ {0} /\ MaxWeight \in Nat \ {0} /\ kRandSeed \in Nat
  /\ MaxRand \in Nat /\ MaxWeight <= MaxRand /\ RightToLeft \in BOOLEAN

VARIABLES
  port,    \* "C" or "C++"
  cl,      \* the options
  pc,      \* where the program is
  edges,   \* the list being filled
  todo,    \* block numbers no thread has taken
  at,      \* per thread: its next edge and the end of its block
  rng      \* per thread: seed and number of draws

generatorVars == <<todo, at, rng>>

Idle == [next |-> 0, end |-> 0]
Seeded(seed) == [seed |-> seed, drawn |-> 0]

Crew == IF port = "C" THEN {CHOOSE t \in Threads : TRUE} ELSE Threads

Pow2(k) == LET pow[i \in 0 .. k] == IF i = 0 THEN 1 ELSE 2 * pow[i - 1] IN pow[k]
GeneratedNodes == Pow2(cl.scale)
GeneratedEdges == GeneratedNodes * cl.degree
-----------------------------------------------------------------------------
(* A number, and the generator after it.  Draws outside Accepted are       *)
(* repeated; Draw takes every value within MaxRand + 1 draws.              *)
NextIn(Accepted, r) ==
  LET k == Min({j \in r.drawn .. r.drawn + MaxRand : Draw(r.seed, j) \in Accepted})
  IN  [value |-> Draw(r.seed, k), rng |-> [r EXCEPT !.drawn = k + 1]]

(* RandBounded of the C port keeps its limit itself, one number too many.  *)
RandBounded(r, max) ==
  LET d == NextIn(0 .. MaxRand - (MaxRand % (max + 1)), r)
  IN  [d EXCEPT !.value = @ % (max + 1)]

(* UniDist of the C++ port.                                                *)
UniDist(r, max) ==
  LET remainder == MaxRand % (max + 1)
      cutoff == IF remainder = max THEN MaxRand + 1 ELSE MaxRand - remainder
      d == NextIn(0 .. cutoff - 1, r)
  IN  [d EXCEPT !.value = @ % (max + 1)]

Bounded(r, max) == IF port = "C" THEN RandBounded(r, max) ELSE UniDist(r, max)

(* Two draws for an edge, in the C++ port as the arguments of one call.    *)
UniformEdge(r) ==
  LET a == Bounded(r, GeneratedNodes - 1)
      b == Bounded(a.rng, GeneratedNodes - 1)
  IN  [edge |-> IF port = "C++" /\ RightToLeft THEN <<b.value, a.value>> ELSE <<a.value, b.value>>, rng |-> b.rng]

(* R-MAT: a draw picks one of four quadrants for each bit of an edge.      *)
A == (57 * MaxRand) \div 100
B == (19 * MaxRand) \div 100
C == (19 * MaxRand) \div 100

RMatEdge(r) ==
  LET point == [d \in 0 .. cl.scale - 1 |-> Draw(r.seed, r.drawn + d)]
      Number(Bit(_)) == SumSet({Pow2(cl.scale - 1 - d) : d \in {k \in DOMAIN point : Bit(point[k])}})
  IN  [edge |-> <<Number(LAMBDA x : x >= A + B),
                  Number(LAMBDA x : (x > A /\ x < A + B) \/ x > A + B + C)>>,
       rng |-> [r EXCEPT !.drawn = @ + cl.scale]]

(* A permutation of the vertices by swaps from the top.  std::shuffle, in  *)
(* the C++ port, is another function of the same seed.                     *)
Permutation ==
  LET Swap(acc, k) ==
        LET i == GeneratedNodes - k
            j == Bounded(acc.rng, i)
        IN  [perm |-> [acc.perm EXCEPT ![i + 1] = acc.perm[j.value + 1],
                                       ![j.value + 1] = acc.perm[i + 1]],
             rng |-> j.rng]
      start == [perm |-> [i \in 1 .. GeneratedNodes |-> i - 1], rng |-> Seeded(kRandSeed)]
  IN  FoldLeft(Swap, start, [k \in 1 .. GeneratedNodes - 1 |-> k]).perm

PermuteIDs(list) ==
  LET perm == Permutation
  IN  [e \in DOMAIN list |-> <<perm[list[e][1] + 1], perm[list[e][2] + 1]>>]
-----------------------------------------------------------------------------
(* The blocks of a list of n edges, none of them taken.                    *)
Blocks(n) == 0 .. (n + BlockSize - 1) \div BlockSize - 1

StartBlocks(n) ==
  /\ todo' = Blocks(n)
  /\ at' = [t \in Threads |-> Idle] /\ rng' = [t \in Threads |-> Seeded(0)]

GeneratorInit ==
  /\ todo = {}
  /\ at = [t \in Threads |-> Idle] /\ rng = [t \in Threads |-> Seeded(0)]

(* GenerateEL.                                                             *)
GenerateEL ==
  /\ pc = "generate"
  /\ edges' = [e \in 1 .. GeneratedEdges |-> <<0, 0>>]
  /\ StartBlocks(GeneratedEdges)
  /\ pc' = IF cl.uniform THEN "uniform" ELSE "rmat"
  /\ UNCHANGED <<port, cl>>

Drawing == pc \in {"uniform", "rmat", "insert"}

(* Mutant: the generator goes on from block to block.                      *)
Claim_NotSeeded(t) ==
  /\ Drawing /\ t \in Crew /\ at[t].next = at[t].end
  /\ \E b \in todo :
       /\ todo' = todo \ {b}
       /\ at' = [at EXCEPT ![t] = [next |-> b * BlockSize,
                                   end |-> Min({(b + 1) * BlockSize, Len(edges)})]]
  /\ UNCHANGED <<port, cl, pc, edges, rng>>

(* A thread takes a block and seeds its generator.                         *)
Claim(t) ==
  /\ Drawing /\ t \in Crew /\ at[t].next = at[t].end
  /\ \E b \in todo :
       /\ todo' = todo \ {b}
       /\ at' = [at EXCEPT ![t] = [next |-> b * BlockSize,
                                   end |-> Min({(b + 1) * BlockSize, Len(edges)})]]
       /\ rng' = [rng EXCEPT ![t] = Seeded(kRandSeed + b)]
  /\ UNCHANGED <<port, cl, pc, edges>>

(* The next edge of a thread's block, or its weight.                       *)
Fill(t, edge, r) ==
  /\ at[t].next < at[t].end
  /\ edges' = [edges EXCEPT ![at[t].next + 1] = edge]
  /\ at' = [at EXCEPT ![t].next = @ + 1]
  /\ rng' = [rng EXCEPT ![t] = r]
  /\ UNCHANGED <<port, cl, pc, todo>>

MakeUniform(t) ==
  /\ pc = "uniform"
  /\ LET drawn == UniformEdge(rng[t]) IN Fill(t, drawn.edge, drawn.rng)

MakeRMat(t) ==
  /\ pc = "rmat"
  /\ LET drawn == RMatEdge(rng[t]) IN Fill(t, drawn.edge, drawn.rng)

InsertWeight(t) ==
  /\ pc = "insert"
  /\ LET e == edges[at[t].next + 1]
         w == Bounded(rng[t], MaxWeight - 1)
     IN  Fill(t, <<e[1], e[2], w.value + 1>>, w.rng)

(* The barrier at the end of a loop over the blocks.                       *)
AllFilled == Drawing /\ todo = {} /\ \A t \in Threads : at[t].next = at[t].end

(* The program goes on with the list; R-MAT's vertices are renamed first.  *)
EndGenerate(next) ==
  /\ AllFilled
  /\ pc' = next
  /\ edges' = IF pc = "rmat" THEN PermuteIDs(edges) ELSE edges
  /\ UNCHANGED <<port, cl, generatorVars>>

GeneratorStep(next) ==
  \/ GenerateEL
  \/ EndGenerate(next)
  \/ \E t \in Threads : Claim(t) \/ MakeUniform(t) \/ MakeRMat(t) \/ InsertWeight(t)
=============================================================================
