----------------------------- MODULE CommandLine -----------------------------
(***************************************************************************)
(* The options of the programs: src/src/command_line.h and the C port's    *)
(* src/srcc/command_line.h.  An option is a record of its letter and its   *)
(* argument, as getopt returns them; the options of a program are handled  *)
(* in order, each handler passing on the letters that are not its own.     *)
(* The text of the help message is left out.                               *)
(***************************************************************************)
EXTENDS Integers, Sequences
LOCAL INSTANCE SequencesExt

(* What the classes start from.  A name that was not given is empty.       *)
CLBaseInit ==
  [scale |-> -1, degree |-> 16, filename |-> <<>>, symmetrize |-> FALSE,
   uniform |-> FALSE, in_place |-> FALSE, help |-> FALSE]

CLAppInit ==
  [do_analysis |-> FALSE, num_trials |-> 16, start_vertex |-> -1,
   do_verify |-> FALSE, enable_logging |-> FALSE] @@ CLBaseInit

CLPageRankInit(tolerance, max_iters) ==
  [max_iters |-> max_iters, tolerance |-> tolerance] @@ CLAppInit

CLConvertInit ==
  [out_filename |-> <<>>, out_weighted |-> FALSE, out_el |-> FALSE,
   out_sg |-> FALSE] @@ CLBaseInit

(* The handlers.  -h prints the usage and ends the program at once.        *)
CLBaseHandleArg(cl, o) ==
  CASE o.opt = "f" -> [cl EXCEPT !.filename = o.arg]
    [] o.opt = "g" -> [cl EXCEPT !.scale = o.arg]
    [] o.opt = "h" -> [cl EXCEPT !.help = TRUE]
    [] o.opt = "k" -> [cl EXCEPT !.degree = o.arg]
    [] o.opt = "s" -> [cl EXCEPT !.symmetrize = TRUE]
    [] o.opt = "u" -> [cl EXCEPT !.uniform = TRUE, !.scale = o.arg]
    [] o.opt = "m" -> [cl EXCEPT !.in_place = TRUE]
    [] OTHER -> cl

CLAppHandleOption(cl, o) ==
  CASE o.opt = "a" -> [cl EXCEPT !.do_analysis = TRUE]
    [] o.opt = "n" -> [cl EXCEPT !.num_trials = o.arg]
    [] o.opt = "r" -> [cl EXCEPT !.start_vertex = o.arg]
    [] o.opt = "v" -> [cl EXCEPT !.do_verify = TRUE]
    [] o.opt = "l" -> [cl EXCEPT !.enable_logging = TRUE]
    [] OTHER -> CLBaseHandleArg(cl, o)

CLPageRankHandleOption(cl, o) ==
  CASE o.opt = "i" -> [cl EXCEPT !.max_iters = o.arg]
    [] o.opt = "t" -> [cl EXCEPT !.tolerance = o.arg]
    [] OTHER -> CLAppHandleOption(cl, o)

(* One name is kept for both kinds of output, the last one given.          *)
CLConvertHandleOption(cl, o) ==
  CASE o.opt = "b" -> [cl EXCEPT !.out_sg = TRUE, !.out_filename = o.arg]
    [] o.opt = "e" -> [cl EXCEPT !.out_el = TRUE, !.out_filename = o.arg]
    [] o.opt = "w" -> [cl EXCEPT !.out_weighted = TRUE]
    [] OTHER -> CLBaseHandleArg(cl, o)

(* ParseArgs handles the options one after the other and says whether a    *)
(* graph was asked for; a generated graph is always symmetrized, even when *)
(* a file was named as well.                                               *)
GraphGiven(cl) == cl.filename # <<>> \/ cl.scale # -1

ParseArgs(cl) ==
  IF GraphGiven(cl) /\ cl.scale # -1 THEN [cl EXCEPT !.symmetrize = TRUE] ELSE cl
=============================================================================
