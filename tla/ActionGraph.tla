---------------------------- MODULE ActionGraph ----------------------------
(***************************************************************************)
(* What "show" plans and runs for a label (mlody/core/action_graph.py and  *)
(* mlody/cli/show_execution.py): the slice of the data-flow graph that     *)
(* belongs to the label, lowered to a graph of actions that ends in the    *)
(* preparation of the display, and run in a topological order.             *)
(*                                                                         *)
(* A label is [key, output]: a task and the output of it, or an entity and *)
(* NoTask.  A slice is [tasks, values, edges], its nodes by key; an action *)
(* is a pair of what it does and of the node it does it for.               *)
(***************************************************************************)
EXTENDS TaskGraph

Slice(dag, nodes) ==
  [tasks  |-> dag.tasks \cap nodes, values |-> dag.values \cap nodes,
   edges  |-> {e \in dag.edges : e.from \in nodes /\ e.to \in nodes}]

structural_subgraph(dag, k) == Slice(dag, WithAncestors(dag, {k}))

\* Qualified by the task: nothing when only another task has the output.
task_output_ancestors_subgraph(reg, dag, k, x) ==
  IF \E t \in Tasks(reg) : t.key = k /\ x \in t.outputs
  THEN structural_subgraph(dag, k) ELSE Slice(dag, {})

selection_for_label(reg, dag, label) ==
  IF label.output # NoTask
  THEN task_output_ancestors_subgraph(reg, dag, label.key, label.output)
  ELSE IF label.key \in Nodes(dag) THEN structural_subgraph(dag, label.key)
  ELSE Slice(dag, {})

Struct(k) == <<"struct", k>>
Prepare == <<"prepare", NoTask>>
Phases == {"before", "around", "after"}

\* A task has an action before it and two after it, one behind the other; the
\* last is what the preparation waits for.
PayloadChain(k) == {<<<<"before", k>>, Struct(k)>>, <<Struct(k), <<"around", k>>>>,
                    <<<<"around", k>>, <<"after", k>>>>}
LogicalExitIsItself(sel, k) == Struct(k)
LogicalExit(sel, k) == IF k \in sel.tasks THEN <<"after", k>> ELSE Struct(k)

\* The preparation hung on what nothing comes into.
SinksOfTargets(sel) == Nodes(sel) \ {e.to : e \in sel.edges}
Sinks(sel) == Nodes(sel) \ {e.from : e \in sel.edges}
\* Parallel edges of the slice are one dependency.
StructuralDeps(sel) == {<<Struct(e.from), Struct(e.to)>> : e \in sel.edges}

build_action_graph(sel) ==
  [nodes |-> {Struct(k) : k \in Nodes(sel)} \cup (Phases \X sel.tasks) \cup {Prepare},
   deps  |-> StructuralDeps(sel)
               \cup UNION {PayloadChain(k) : k \in sel.tasks}
               \cup {<<LogicalExit(sel, k), Prepare>> : k \in Sinks(sel)}]

\* networkx sorts by generations: first what depends on nothing, then what
\* depends on that only.  Ran(g)[i] holds the generations before the i-th.
Ran(g) ==
  LET needs == [n \in g.nodes |-> {d[1] : d \in {p \in g.deps : p[2] = n}}]
      more(ran, i) == Append(ran, {n \in g.nodes : needs[n] \subseteq ran[i]})
  IN FoldLeft(more, <<{}>>, [i \in 1..Cardinality(g.nodes) |-> i])

\* A cycle leaves nodes that no generation takes; the sort then raises before
\* any action has run.
Sorts(g, ran) == ran[Len(ran)] = g.nodes
RunsBefore(ran, m, n) == \E i \in DOMAIN ran : m \in ran[i] /\ n \notin ran[i]
=============================================================================
