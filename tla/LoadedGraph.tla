---------------------------- MODULE LoadedGraph ----------------------------
(***************************************************************************)
(* The graph of a workspace as it was loaded: the entities a file's body   *)
(* registers, taken in the order in which the loader ran the bodies.  The  *)
(* order is the loader's accident; what the graph says must not be, nor    *)
(* what "show" runs from it.  The sources are resolved as the load ends,   *)
(* and the graph is built when it is first asked for and kept; a request   *)
(* for a file outside the roots may come before, between and after.        *)
(***************************************************************************)
EXTENDS WorkspaceLoad, ActionGraph

CONSTANT Defines    \* file -> the sequence of entities its body registers

VARIABLES
  resolved,   \* how many entries the registry had when sources were resolved
  built       \* and when the graph was built: _dag_cache, 0 for None

gvars == <<vars, resolved, built>>

\* The registry's entities, in the order of their registration.
Registered(n) ==
  FlattenSeq([i \in 1..n |-> SubSeq(Defines[registry[i].file], 1, registry[i].defs)])

GraphInit == Init /\ resolved = 0 /\ built = 0

LoadEnds == phase = "extra" /\ phase' = "ok"
LoadStep == /\ Next
            /\ resolved' = IF LoadEnds THEN Len(registry) ELSE resolved
            /\ UNCHANGED built

\* Workspace.dag: "show", a .dag or a .agraph path ask for it.
AskGraph == /\ phase = "ok" /\ stack = <<>> /\ built = 0
            /\ built' = Len(registry)
            /\ UNCHANGED <<vars, resolved>>

GraphNext == LoadStep \/ AskGraph
GraphSpec == GraphInit /\ [][GraphNext]_gvars

----------------------------------------------------------------------------
\* No two tasks share a bare name, and no two entities an output's or a
\* value's: bare names are what the resolution goes by.
Offers(e) == IF e.kind = "task" THEN e.outputs ELSE {e.name}
NamesAreDistinct(E) ==
  \A d, e \in E : d # e =>
    /\ Offers(d) \cap Offers(e) = {}
    /\ d.kind = "task" /\ e.kind = "task" => d.name # e.name

\* What the declarations say, without any order, of the entities K that the
\* load registered and those of E that came later: e reads what d offers.  The
\* later ones read nothing, and are read only where their task is named.
Read(E, K, e) ==
  {d \in E : e \in K /\ \E s \in e.reads :
     IF IsPort(s) THEN d.kind = "task" /\ d.name = s.task
     ELSE d \in K /\ s.name \in Offers(d)}
AllRead(E, K, S) == Upstream(S, LAMBDA e : Read(E, K, e), Cardinality(E))

Contributors(E, K, x) ==
  AllRead(E, K, {e \in E : x \in Offers(e) /\
     (e.kind = "task" \/ \E t \in E : t.kind = "task" /\
        e \in Upstream({t}, LAMBDA u : {d \in Read(E, K, u) : d.kind = "value"},
                       Cardinality(E)))})

\* The actions planned for entity t run those of S, each after what it reads,
\* and prepare the display after all of them and after all that belongs to t;
\* if some of S read each other in a circle, nothing is run.
RunsInOrder(E, K, t, S, g, ran) ==
  /\ {n[2] : n \in {m \in g.nodes : m[1] = "struct"}} = {e.key : e \in S}
  /\ Sorts(g, ran) = (\A e \in S : e \notin AllRead(E, K, Read(E, K, e)))
  /\ Sorts(g, ran) =>
       /\ \A e \in S :
            /\ RunsBefore(ran, Struct(e.key), Prepare)
            /\ \A d \in Read(E, K, e) : RunsBefore(ran, Struct(d.key), Struct(e.key))
       /\ \A n \in g.nodes : n[2] = t.key => RunsBefore(ran, n, Prepare)

PlanFollowsSources(reg, known, dag, e, x) ==
  LET g == build_action_graph(selection_for_label(reg, dag, [key |-> e.key, output |-> x]))
  IN RunsInOrder(Range(reg), Range(known), e, AllRead(Range(reg), Range(known), {e}), g, Ran(g))

FollowsSources(reg, known, dag) ==
  /\ \A x \in UNION {Offers(e) : e \in Range(reg)} :
       ancestors_subgraph(reg, dag, x) =
         {e.key : e \in Contributors(Range(reg), Range(known), x)}
  /\ \A e \in {d \in Range(reg) : d.key \in Nodes(dag)} : \A x \in e.outputs \cup {NoTask} :
       PlanFollowsSources(reg, known, dag, e, x)

(* The graph of a loaded workspace whose names are distinct is what its     *)
(* declarations say: everything that contributes to an output is upstream   *)
(* of it, and nothing else, in whatever order the files were run, forward   *)
(* references and values shared by several tasks included, whenever the     *)
(* graph is built.  "show" of a task, of one of its outputs or of a value   *)
(* that is read runs exactly what it is made from, in the order of the      *)
(* reading, and the preparation of the display after all of it and after    *)
(* the task's own hooks; where entities read each other in a circle it      *)
(* raises before it runs anything.                                          *)
GraphFollowsSources ==
  built # 0 /\ NamesAreDistinct(Range(Registered(built))) =>
    FollowsSources(Registered(built), Registered(resolved),
                   build_dag(Registered(built), Registered(resolved)))
=============================================================================
