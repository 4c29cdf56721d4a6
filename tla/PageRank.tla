------------------------------ MODULE PageRank ------------------------------
(***************************************************************************)
(* PageRank and the loop over trials: src/src/pr.cc, src/src/pr_spmv.cc,   *)
(* BenchmarkKernel and TopK of src/src/benchmark.h, and the C port's       *)
(* src/srcc/pr.c, src/srcc/pr_spmv.c and src/srcc/benchmark.h.             *)
(*                                                                         *)
(* The threads of the C++ kernels take the vertices one by one and read    *)
(* the contributions of a vertex's sources one by one; in pr.cc others are *)
(* writing them.  The loops that compute contributions touch no cell of    *)
(* another iteration and are one step.  Scores are floats in the code:     *)
(* here they are exact, in units of 1/Unit.                                *)
(***************************************************************************)
EXTENDS CSRGraph, CommandLine
LOCAL INSTANCE SequencesExt
LOCAL INSTANCE FiniteSetsExt

CONSTANTS
  Graphs,        \* the inputs considered
  Threads,       \* OpenMP worker threads
  Unit,          \* a multiple of every denominator that occurs
  Damp,          \* kDamp is Damp / DampOf, 0.85 in the code
  DampOf,
  CommandLines,  \* the options given, tolerances in units of 1/Unit
  TopSize        \* k of PrintTopScores, 5 in the code

Assumptions ==
  /\ \A gr \in Graphs : IsGraph(gr)
  /\ IsFiniteSet(Threads) /\ Threads # {}
  /\ {Unit, DampOf, TopSize} \subseteq Nat \ {0} /\ Damp \in 0 .. DampOf
  /\ Unit % (NumNodes * DampOf) = 0

VARIABLES
  g, program,       \* the input graph, and whose PageRank it is
  cl,               \* the options
  trial,            \* trials begun
  iter, error,      \* iterations done, the error of the last one
  scores, next_scores, outgoing,
  stage, todo,      \* where the trial is, vertices not handed out
  u, k, total,      \* per thread: vertex, place in its list, incoming_total
  verdicts, top     \* what was printed: of each trial verified, and top_k

locals == <<u, k, total>>
given == <<g, program, cl>>
printed == <<verdicts, top>>
vars == <<given, trial, iter, error, scores, next_scores, outgoing, stage, todo,
          locals, printed>>

Programs == {"pr.cc", "pr_spmv.cc", "pr.c", "pr_spmv.c"}
NoNode == -1
Infinity == -1
InC == program \in {"pr.c", "pr_spmv.c"}
Spmv == program \in {"pr_spmv.cc", "pr_spmv.c"}
Crew == IF InC THEN {CHOOSE t \in Threads : TRUE} ELSE Threads

init_score == Unit \div NumNodes
base_score == (Unit * (DampOf - Damp)) \div (DampOf * NumNodes)

Zero == [n \in V |-> 0]

Init ==
  /\ g \in Graphs /\ program \in Programs
  /\ \E argv \in CommandLines :
       cl = ParseArgs(FoldLeft(CLPageRankHandleOption, CLPageRankInit(1, 20), argv))
  /\ trial = 0 /\ iter = 0 /\ error = 0
  /\ scores = Zero /\ next_scores = Zero /\ outgoing = Zero
  /\ stage = "trial" /\ todo = {}
  /\ u = [t \in Threads |-> NoNode] /\ k = [t \in Threads |-> 0]
  /\ total = [t \in Threads |-> 0]
  /\ verdicts = <<>> /\ top = <<>>
-----------------------------------------------------------------------------
(* The share of its score that a vertex gives each of its targets.  Of no  *)
(* targets, the C++ programs divide by zero.                               *)
Contribution(score, n) ==
  IF OutDegree(g, n) = 0 THEN IF InC THEN 0 ELSE Infinity
  ELSE score \div OutDegree(g, n)

StartTrial ==
  /\ stage = "trial" /\ trial < cl.num_trials
  /\ trial' = trial + 1 /\ iter' = 0 /\ error' = 0
  /\ scores' = [n \in V |-> init_score] /\ next_scores' = Zero
  /\ outgoing' = [n \in V |-> IF Spmv THEN 0 ELSE Contribution(init_score, n)]
  /\ stage' = IF cl.max_iters > 0 THEN "iteration" ELSE "returned"
  /\ UNCHANGED <<given, todo, locals, printed>>

StartIteration ==
  /\ stage = "iteration"
  /\ error' = 0 /\ todo' = V
  /\ outgoing' = IF Spmv THEN [n \in V |-> Contribution(scores[n], n)] ELSE outgoing
  /\ stage' = "pull"
  /\ UNCHANGED <<given, trial, iter, scores, next_scores, locals, printed>>

(* The C port takes the vertices in order.                                 *)
Claim(t) ==
  /\ stage = "pull" /\ t \in Crew /\ u[t] = NoNode
  /\ \E n \in todo :
       /\ InC => \A m \in todo : n <= m
       /\ todo' = todo \ {n} /\ u' = [u EXCEPT ![t] = n]
  /\ k' = [k EXCEPT ![t] = 1] /\ total' = [total EXCEPT ![t] = 0]
  /\ UNCHANGED <<given, trial, iter, error, scores, next_scores, outgoing, stage, printed>>

ReadContribution(t) ==
  /\ u[t] # NoNode /\ k[t] \in DOMAIN InNeigh(g, u[t])
  /\ total' = [total EXCEPT ![t] = @ + outgoing[InNeigh(g, u[t])[k[t]]]]
  /\ k' = [k EXCEPT ![t] = @ + 1]
  /\ UNCHANGED <<given, trial, iter, error, scores, next_scores, outgoing, stage, todo, u,
                 printed>>

Pulled(incoming) == base_score + (Damp * incoming) \div DampOf
Distance(a, b) == IF a < b THEN b - a ELSE a - b

(* The thread is through with its vertex.  The score is read by no other   *)
(* thread, and the error is a reduction variable.                          *)
Rest(t) ==
  /\ u' = [u EXCEPT ![t] = NoNode] /\ k' = [k EXCEPT ![t] = 0]
  /\ total' = [total EXCEPT ![t] = 0]

(* Mutant: the contribution is that of the old score.                      *)
SetScore_GivesOld(t) ==
  /\ u[t] # NoNode /\ k[t] \notin DOMAIN InNeigh(g, u[t])
  /\ LET n == u[t]
         score == Pulled(total[t])
     IN  /\ error' = error + Distance(score, scores[n])
         /\ IF program = "pr_spmv.c"
              THEN next_scores' = [next_scores EXCEPT ![n] = score] /\ UNCHANGED scores
              ELSE scores' = [scores EXCEPT ![n] = score] /\ UNCHANGED next_scores
         /\ outgoing' = IF Spmv THEN outgoing
                        ELSE [outgoing EXCEPT ![n] = Contribution(scores[n], n)]
  /\ Rest(t)
  /\ UNCHANGED <<given, trial, iter, stage, todo, printed>>

SetScore(t) ==
  /\ u[t] # NoNode /\ k[t] \notin DOMAIN InNeigh(g, u[t])
  /\ LET n == u[t]
         score == Pulled(total[t])
     IN  /\ error' = error + Distance(score, scores[n])
         /\ IF program = "pr_spmv.c"
              THEN next_scores' = [next_scores EXCEPT ![n] = score] /\ UNCHANGED scores
              ELSE scores' = [scores EXCEPT ![n] = score] /\ UNCHANGED next_scores
         /\ outgoing' = IF Spmv THEN outgoing
                        ELSE [outgoing EXCEPT ![n] = Contribution(score, n)]
  /\ Rest(t)
  /\ UNCHANGED <<given, trial, iter, stage, todo, printed>>

Converged == error < cl.tolerance

(* The barrier, and the end of the iteration; pr_spmv.c swaps its arrays.  *)
EndIteration ==
  /\ stage = "pull" /\ todo = {} /\ \A t \in Threads : u[t] = NoNode
  /\ iter' = iter + 1
  /\ stage' = IF Converged \/ iter' = cl.max_iters THEN "returned" ELSE "iteration"
  /\ IF program = "pr_spmv.c"
       THEN scores' = next_scores /\ next_scores' = scores
       ELSE UNCHANGED <<scores, next_scores>>
  /\ UNCHANGED <<given, trial, error, outgoing, todo, locals, printed>>
-----------------------------------------------------------------------------
(* PRVerifier: one iteration in push direction over the scores returned.   *)
Sources(n) == {m \in V : n \in Elems(g.out[m])}
IncomingSum(n) == MapThenSumSet(LAMBDA m : Contribution(scores[m], m), Sources(n))
Residual == MapThenSumSet(LAMBDA n : Distance(Pulled(IncomingSum(n)), scores[n]), V)

PRVerifier == Residual < cl.tolerance

(* TopK: a list of value and key, the greatest first.  The C++ port sorts  *)
(* after every insertion, by value and then by key.                        *)
Greater(a, b) == a.value > b.value \/ (a.value = b.value /\ a.key > b.key)

TopK(pairs, size) ==
  LET Add(list, kvp) ==
        IF Len(list) < size \/ kvp.value > list[Len(list)].value
          THEN LET sorted == SortSeq(Append(list, kvp), Greater)
               IN  SubSeq(sorted, 1, IF Len(sorted) > size THEN size ELSE Len(sorted))
          ELSE list
  IN  FoldLeft(Add, <<>>, pairs)

(* Mutant: equal values are passed over.                                   *)
TopKInsert_Behind(list, candidate, size) ==
  LET pos == Cardinality({i \in DOMAIN list : list[i].value >= candidate.value}) + 1
      longer == InsertAt(list, pos, candidate)
  IN  IF Len(list) < size THEN longer ELSE SubSeq(longer, 1, size)

(* The C port inserts in front of equal values.                            *)
TopKInsert(list, candidate, size) ==
  LET pos == Cardinality({i \in DOMAIN list : list[i].value > candidate.value}) + 1
      longer == InsertAt(list, pos, candidate)
  IN  IF Len(list) < size THEN longer ELSE SubSeq(longer, 1, size)

ComputeTopK(pairs, size) ==
  LET Add(list, kvp) ==
        IF Len(list) < size \/ kvp.value > list[Len(list)].value
          THEN TopKInsert(list, kvp, size) ELSE list
  IN  FoldLeft(Add, <<>>, pairs)

PrintTopScores ==
  LET pairs == [i \in 1 .. NumNodes |-> [key |-> i - 1, value |-> scores[i - 1]]]
  IN  IF InC THEN ComputeTopK(pairs, TopSize) ELSE TopK(pairs, TopSize)

(* The rest of a trial: the analysis of the last one, and the verifier.    *)
EndTrial ==
  /\ stage = "returned"
  /\ top' = IF cl.do_analysis /\ trial = cl.num_trials THEN PrintTopScores ELSE top
  /\ verdicts' = IF cl.do_verify THEN Append(verdicts, PRVerifier) ELSE verdicts
  /\ stage' = "trial"
  /\ UNCHANGED <<given, trial, iter, error, scores, next_scores, outgoing, todo, locals>>

Done == stage = "trial" /\ trial = cl.num_trials
Terminated == Done /\ UNCHANGED vars

Next ==
  \/ StartTrial \/ StartIteration \/ EndIteration \/ EndTrial \/ Terminated
  \/ \E t \in Threads : Claim(t) \/ ReadContribution(t) \/ SetScore(t)

Spec == Init /\ [][Next]_vars
-----------------------------------------------------------------------------
(* Properties.                                                             *)

TypeOK ==
  /\ g \in Graphs /\ program \in Programs
  /\ trial \in 0 .. cl.num_trials /\ iter \in 0 .. cl.max_iters /\ error \in Nat
  /\ scores \in [V -> Nat] /\ next_scores \in [V -> Nat]
  /\ outgoing \in [V -> Nat \cup {Infinity}]
  /\ stage \in {"trial", "iteration", "pull", "returned"} /\ todo \subseteq V
  /\ u \in [Threads -> V \cup {NoNode}] /\ k \in [Threads -> Nat]
  /\ total \in [Threads -> Nat]
  /\ verdicts \in Seq(BOOLEAN)

(* Whatever mixture of old and new contributions the threads read, one     *)
(* more iteration changes the scores by no more than kDamp times what the  *)
(* last one did, and no division by zero is ever read: the error that ends *)
(* the kernel bounds the error the verifier finds.                         *)
ResidualBounded ==
  stage \in {"iteration", "returned"} /\ iter > 0 => DampOf * Residual <= Damp * error

(* Every variable has its type, and the error bounds the residual.         *)
RanksInv == TypeOK /\ ResidualBounded

(* The scores after some iterations that each read the last one's only.    *)
Iterated(i) ==
  LET Give(f, m) == IF OutDegree(g, m) = 0 THEN 0 ELSE f[m] \div OutDegree(g, m)
      after[j \in 0 .. i] ==
        IF j = 0 THEN [n \in V |-> init_score]
        ELSE [n \in V |-> Pulled(MapThenSumSet(LAMBDA m : Give(after[j - 1], m), Sources(n)))]
  IN  after[i]

Ranked(list) ==
  /\ Len(list) = IF NumNodes < TopSize THEN NumNodes ELSE TopSize
  /\ \A i, j \in DOMAIN list : i < j => Greater(list[i], list[j])
  /\ \A i \in DOMAIN list : list[i].value = scores[list[i].key]
  /\ \A n \in V : (\A i \in DOMAIN list : list[i].key # n) =>
                    list[Len(list)].value >= scores[n]

(* A kernel that stopped within the tolerance passes verification, in      *)
(* every trial; the other way of iterating gives the same scores whatever  *)
(* the schedule; and the last trial prints the vertices of highest score,  *)
(* equal ones in the same order in both ports.                             *)
RanksExact ==
  /\ stage = "returned" /\ iter > 0 /\ Converged => PRVerifier
  /\ stage = "returned" /\ Spmv => scores = Iterated(iter)
  /\ Done => Len(verdicts) = IF cl.do_verify THEN cl.num_trials ELSE 0
  /\ Done /\ cl.do_analysis => Ranked(top)
=============================================================================
