--------------------------- MODULE MCLoadedGraph ---------------------------
(***************************************************************************)
(* Root discovery of roots.mlody (mm, hash, render and config are handled  *)
(* as it is: run unless loaded, an exception ends the load) and types,     *)
(* five files under the roots, two of them on the skip list, one guarded,  *)
(* and an --eval file.  The load() lists are chosen so that diamonds,      *)
(* cycles, loads of a torn file and forward references occur.              *)
(***************************************************************************)
EXTENDS LoadedGraph

MCSize == [roots |-> 0, types |-> 1, a |-> 2, b |-> 1, c |-> 1, shell |-> 0, out |-> 1, extra |-> 1]
MCPhase1 == <<"roots", "types">>
MCPhase2 == <<"a", "b", "c", "out", "shell">>
MCExtra == <<"extra">>

\* Any file of a, b may load any two of the others; types may load c or b.
Lists(S) == {<<>>} \cup {<<x>> : x \in S} \cup
            {<<p[1], p[2]>> : p \in {q \in S \X S : q[1] # q[2]}}
MCGraphs ==
  {[roots |-> <<>>, types |-> t, a |-> p, b |-> q, c |-> r, shell |-> s,
    out |-> <<"a">>, extra |-> <<"c">>] :
     t \in {<<>>, <<"c">>, <<"b", "c">>}, p \in Lists({"b", "c", "shell"}),
     q \in {<<>>, <<"a">>, <<"c">>, <<"types">>}, r \in {<<>>, <<"a">>, <<"b">>},
     s \in {<<>>, <<"c">>, <<"out">>}}
MCBroken == {{}, {"a"}, {"b"}, {"c"}, {"types"}, {"c", "types"}, {"roots"}, {"extra"}, {"out"}}

Task(k, n, o, r) == [key |-> k, kind |-> "task", name |-> n, outputs |-> o, reads |-> r]
Value(n, r) == [key |-> n, kind |-> "value", name |-> n, outputs |-> {}, reads |-> r]
Label(x) == [at |-> "in", task |-> "none", name |-> x]
Port(t, x) == [at |-> "in", task |-> t, name |-> x]

\* a trains on the data of c, b reports on a's model and on the data, the data
\* comes from c's value, and the --eval file measures them.  The file out fits
\* the scale of the data's unit to the report: a circle when another file
\* loads it, and a task without inputs when a later request does.
MCDefines ==
  [roots |-> <<>>, types |-> <<Value("unit", {Label("scale")})>>,
   a |-> <<Task("a:train", "train", {"model"}, {Label("data")}),
           Task("a:test", "test", {"score"}, {Port("report", "page"), Port("fit", "scale"), Label("data")})>>,
   b |-> <<Task("b:report", "report", {"page"}, {Label("model"), Label("data")})>>,
   c |-> <<Value("data", {Label("unit")})>>,
   shell |-> <<>>,
   out |-> <<Task("out:fit", "fit", {"scale"}, {Port("report", "page")})>>,
   extra |-> <<Task("extra:eval", "eval", {"grade"}, {Label("score"), Port("train", "model")})>>]
=============================================================================
