----------------------------- MODULE MCConverter -----------------------------
(* Instances of Converter for TLC.                                         *)
EXTENDS Converter

(* Every seed starts elsewhere in one sequence of the numbers 0 .. 7.      *)
Cycle == <<3, 6, 1, 4, 7, 2, 5, 0>>
Drawing8(seed, k) == Cycle[((3 * seed + k) % 8) + 1]

Text(suffix, lines) == [name |-> <<"in", suffix>>, lines |-> lines, newline |-> TRUE]
Lists(rows) == [i \in DOMAIN rows |-> Numbers(rows[i])]
Comment == Line("%", <<>>, <<>>)
Arc(nums) == Line("a", <<>>, nums)
Matrix(field, symmetry) == Line("%%MatrixMarket", <<"matrix", "coordinate", field, symmetry>>, <<>>)

(* Loops, parallel edges of one weight and of two, a vertex without edges  *)
(* in the middle and one at the end, in every format; and a last arc       *)
(* without a weight, after another and alone.                              *)
Samples == {
  Text(".el", <<>>),
  Text(".el", Lists(<<<<1, 1>>>>)),
  Text(".el", Lists(<<<<3, 1>>, <<1, 3>>, <<0, 0>>, <<0, 3>>, <<3, 1>>>>)),
  Text(".wel", Lists(<<<<2, 0, 5>>, <<0, 2, 7>>, <<2, 0, 4>>, <<3, 3, 1>>, <<0, 1, 2>>>>)),
  Text(".wel", Lists(<<<<2, 0, 5>>, <<0, 1, 7>>, <<2, 0, 5>>>>)),
  Text(".gr", <<Comment, Line("p", <<>>, <<3, 2>>), Arc(<<1, 3, 4>>), Comment, Arc(<<3, 2, 6>>)>>),
  Text(".gr", <<Arc(<<1, 3, 4>>), Arc(<<3, 2>>), Numbers(<<>>)>>),
  Text(".gr", <<Line("p", <<>>, <<2, 1>>), Arc(<<1, 2>>)>>),
  Text(".graph", <<Comment>> \o Lists(<<<<4, 2>>, <<2, 3>>, <<1>>>>) \o <<Comment>> \o Lists(<<<<1>>, <<>>>>)),
  Text(".graph", Lists(<<<<3, 2, 1>>, <<2, 5>>, <<1, 5, 3, 9>>, <<2, 9>>>>)),
  Text(".mtx", <<Matrix("pattern", "symmetric"), Comment>> \o Lists(<<<<3, 3, 3>>, <<2, 1>>, <<3, 3>>, <<3, 1>>>>)),
  Text(".mtx", <<Matrix("integer", "general")>> \o Lists(<<<<4, 4, 2>>, <<>>, <<2, 1, 8>>, <<1, 4, 3>>>>)) }

(* Every list of at most two edges over 3 vertices, and of three weighted  *)
(* edges over 2 vertices.                                                  *)
Pairs == {<<u, v>> : u \in 0 .. 2, v \in 0 .. 2}
Triples == {<<u, v, w>> : u \in 0 .. 1, v \in 0 .. 1, w \in 1 .. 2}
Short == {Text(".el", Lists(el)) : el \in UNION {[1 .. k -> Pairs] : k \in 1 .. 2}}
         \cup {Text(".wel", Lists(el)) : el \in [1 .. 3 -> Triples]}

(* Files no graph can be made of.                                          *)
Refusals == {
  Text(".graph", Lists(<<<<2, 1, 10>>, <<2>>, <<1>>>>)),
  Text(".mtx", <<Matrix("complex", "general")>> \o Lists(<<<<2, 2, 1>>, <<1, 2>>>>)),
  Text(".mtx", <<Matrix("pattern", "hermitian")>> \o Lists(<<<<2, 2, 1>>, <<1, 2>>>>)),
  Text(".mtx", <<Matrix("pattern", "general")>> \o Lists(<<<<2, 3, 1>>, <<1, 2>>>>)),
  Text(".gr", <<Arc(<<1, 2>>), Arc(<<2, 1, 3>>)>>),
  Text(".txt", <<>>) }

O(opt, arg) == <<[opt |-> opt, arg |-> arg]>>
Flag(opt, on) == IF on THEN O(opt, 0) ELSE <<>>
Output(name) == O(IF name[2] \in {".sg", ".wsg"} THEN "b" ELSE "e", name)
OutName(w, serialized) ==
  <<"out", IF serialized THEN IF w THEN ".wsg" ELSE ".sg" ELSE IF w THEN ".wel" ELSE ".el">>

Ports == {"C", "C++"}
Command(ports, argvs) == [port : ports, argv : argvs]

(* Every conversion of a file, or of a generated graph; conversions that   *)
(* are refused; and reading back what was written, over itself.            *)
FromFile(name) ==
  {O("f", name) \o Flag("w", w) \o Flag("s", s) \o Output(OutName(w, b)) :
     w \in BOOLEAN, s \in BOOLEAN, b \in BOOLEAN}
FromGenerator ==
  {O(kind, scale) \o O("k", degree) \o Flag("w", w) \o Output(OutName(w, TRUE)) :
     kind \in {"g", "u"}, <<scale, degree>> \in {<<2, 1>>, <<1, 3>>}, w \in BOOLEAN}
Refusable ==
  {O("h", 0), Output(OutName(FALSE, TRUE)), O("u", 1) \o O("k", 1), O("m", 0) \o Flag("w", TRUE) \o O("g", 1)}
  \cup {O("f", <<"none", suffix>>) \o Flag("w", w) \o Output(OutName(w, TRUE)) :
          suffix \in {".sg", ".wsg", ".el", ".txt"}, w \in BOOLEAN}

MCCommands(k, name) ==
  IF name = <<>> THEN {}
  ELSE IF k = 1
    THEN Command(Ports, FromFile(name))
         \cup IF name[2] = ".txt" THEN Command(Ports, FromGenerator \cup Refusable) ELSE {}
    ELSE Command(Ports, {O("f", name) \o Flag("w", name[2] \in {".wel", ".wsg"}) \o Flag("s", s)
                         \o Output(name) : s \in {FALSE}})

Files == Samples \cup Short \cup Refusals

(* The cfg names a definition of its own, so that TLC evaluates the set    *)
(* above once and not at every use.                                        *)
MCInputs == Files
=============================================================================
