----------------------------- MODULE TaskGraph -----------------------------
(***************************************************************************)
(* The data-flow graph of a workspace (mlody/core/dag.py), from the source *)
(* labels that _resolve_value_sources (mlody/core/workspace.py) resolved.  *)
(* Both read the registry in registration order, by bare names, but not at *)
(* one time: sources are resolved once, when the load ends, over what is   *)
(* known then; the graph is built when it is first asked for, over a       *)
(* registry to which later requests may have added entities.               *)
(*                                                                         *)
(* An entity is [key, kind, name, outputs, reads]: a task with the names   *)
(* of its outputs, or a standalone value without any.  It reads sources    *)
(* [at, task, name], at being the port: task is NoTask for a label ":name" *)
(* and the task's name for ":task.port".                                   *)
(***************************************************************************)
EXTENDS Naturals, FiniteSets, Sequences, SequencesExt

CONSTANT NoTask

IsPort(src) == src.task # NoTask
Last0(S) == CHOOSE i \in S : \A j \in S : j <= i
First0(S) == CHOOSE i \in S : \A j \in S : i <= j

At(reg, kind, n) == {i \in DOMAIN reg : reg[i].kind = kind /\ reg[i].name = n}

\* tasks_index, task_outputs and values_by_name keep the last of a name.
Has(reg, kind, n) == At(reg, kind, n) # {}
Latest(reg, kind, n) == reg[Last0(At(reg, kind, n))]

\* The tasks whose outputs a label is looked up in, in the order in which
\* their names first came.
Holders(reg, x) ==
  {i \in DOMAIN reg :
     /\ reg[i].kind = "task"
     /\ i = First0(At(reg, "task", reg[i].name))
     /\ x \in Latest(reg, "task", reg[i].name).outputs}

\* The entity that a source stands for when the load ends: a task for its
\* output, a value, or none when the label stays a string.
Resolve(known, src) ==
  {e \in Range(known) :
     IF Holders(known, src.name) # {}
     THEN e = Latest(known, "task", known[First0(Holders(known, src.name))].name)
     ELSE Has(known, "value", src.name) /\ e = Latest(known, "value", src.name)}

\* What the graph takes for it.  A port is a task's name still.  A resolved
\* value is looked up by identity among the outputs of the tasks that have
\* their name to themselves, then by its name among all outputs, then values.
FromPort(reg, src) ==
  {e \in Range(reg) : Has(reg, "task", src.task) /\ e = Latest(reg, "task", src.task)}
ByName(reg, src) ==
  {e \in Range(reg) :
     IF Holders(reg, src.name) # {}
     THEN e = Latest(reg, "task", reg[Last0(Holders(reg, src.name))].name)
     ELSE Has(reg, "value", src.name) /\ e = Latest(reg, "value", src.name)}
FromLabel(reg, d, src) ==
  IF d.kind = "task" /\ d = Latest(reg, "task", d.name) THEN {d} ELSE ByName(reg, src)

\* The sources of an entity that came after the load stay strings, from which
\* the graph takes nothing.
Source(reg, known, e, src) ==
  IF e \notin Range(known) THEN {}
  ELSE IF IsPort(src) THEN FromPort(reg, src)
  ELSE UNION {FromLabel(reg, d, src) : d \in Resolve(known, src)}

EdgesInto(reg, known, e) ==
  UNION {{[from |-> p.key, to |-> e.key, port |-> s.name, at |-> s.at] :
            p \in Source(reg, known, e, s)} : s \in e.reads}

Tasks(reg) == {e \in Range(reg) : e.kind = "task"}

\* Everything from which the members of a set are reached, the set included.
Upstream(S, pred(_), bound) ==
  LET step[n \in 0..bound] ==
        IF n = 0 THEN S
        ELSE LET found == step[n - 1] IN found \cup UNION {pred(x) : x \in found}
  IN step[bound]

\* The values that some task reads by a label, directly or through values.
ReadValues(reg, known) ==
  LET read(e) == {v \in UNION {Source(reg, known, e, s) : s \in {t \in e.reads : ~IsPort(t)}} :
                    v.kind = "value"}
  IN Upstream(UNION {read(t) : t \in Tasks(reg)}, read, Len(reg))

\* A work list that asked whether a value was visited before it added an edge
\* would keep one reader of each value.
TaskEdgesOnce(reg, known) ==
  LET E == UNION {EdgesInto(reg, known, t) : t \in Tasks(reg)}
  IN {e \in E : e.from \in {v.key : v \in ReadValues(reg, known)} =>
        e = CHOOSE d \in E : d.from = e.from}

\* The work list of _collect_value_edges adds the edge first.
TaskEdges(reg, known) == UNION {EdgesInto(reg, known, t) : t \in Tasks(reg)}
ValueEdges(reg, known) == UNION {EdgesInto(reg, known, v) : v \in ReadValues(reg, known)}

build_dag(reg, known) ==
  [tasks |-> {t.key : t \in Tasks(reg)}, values |-> {v.key : v \in ReadValues(reg, known)},
   edges |-> TaskEdges(reg, known) \cup ValueEdges(reg, known)]

Nodes(dag) == dag.tasks \cup dag.values

tasks_producing(reg, x) == {t.key : t \in {u \in Tasks(reg) : x \in u.outputs}}

\* networkx.ancestors, with the nodes asked for.
WithAncestors(dag, S) ==
  FoldLeft(LAMBDA found, i : found \cup {e.from : e \in {d \in dag.edges : d.to \in found}},
           S, [i \in 1..Cardinality(Nodes(dag)) |-> i])

\* The nodes that contribute to an output: its producers, the value of that
\* name if it is a node, and everything upstream of them.
ancestors_subgraph(reg, dag, x) ==
  WithAncestors(dag, tasks_producing(reg, x) \cup
    ({v.key : v \in {w \in Range(reg) : w.kind = "value" /\ w.name = x}} \cap dag.values))
=============================================================================
