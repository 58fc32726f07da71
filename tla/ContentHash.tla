----------------------------- MODULE ContentHash -----------------------------
(* The semantic hash of a task (src/mlody/common/hash.py): three recursions over
   tasks and values that call each other. A digest of a JSON document is the
   document itself, a record of records. The world w that is hashed:
     w.base    the commit and the local patch of the task's repository
     w.tasks   a task's name, source range, config and inputs (port to value)
     w.values  a value's
       desc      type, location, freshness, representation, default, unit,
                 constraint: what _value_descriptor_payload keeps
       name, source    the label its source is written with, or ""
       from      the value the source resolves to, or NoValue
       resolved  the value it stands for, or NoValue
       producer  the task it is an output of, or NoTask
       place     "remote", "inline", or "posix"
       content   what materialize finds there, or the inline data *)
EXTENDS Naturals, Sequences, FiniteSets, TLC

CONSTANTS NoValue, NoTask

Null == [none |-> TRUE]
Cycle == [cycle |-> TRUE]      \* ValueError
Doc(fields) == IF \E k \in DOMAIN fields : fields[k] = Cycle THEN Cycle ELSE [doc |-> fields]
Atom(x) == [atom |-> x]
Digest(x) == [sha |-> x]

(* combine_commit_and_patch_sha *)
Base(w) == IF w.base.patch = 0 THEN Atom(<<w.base.commit>>)
           ELSE Atom(<<w.base.commit, w.base.patch>>)
Descriptor(v) == Atom(<<v.desc, v.source>>)
(* A remote file, or a local copy of what the source has; inline data only when
   there is nothing else; a local file of its own is not looked at. *)
Materialized(v) == Digest(v.content)

RECURSIVE HashValue(_, _, _), Fingerprint(_, _, _, _), HashTask(_, _, _)

HashValue(w, x, seen) ==
  LET v == w.values[x] IN
  CASE x \in seen -> Null
    [] x \notin seen /\ v.resolved # NoValue -> HashValue(w, v.resolved, seen \union {x})
    [] x \notin seen /\ v.resolved = NoValue /\ v.producer # NoTask -> Fingerprint(w, x, {}, {})
    [] OTHER ->
         CASE v.place = "remote" \/ (v.place = "posix" /\ v.from # NoValue) -> Materialized(v)
           [] v.place = "inline" /\ v.from # NoValue -> HashValue(w, v.from, seen \union {x})
           [] v.place = "inline" /\ v.from = NoValue -> Digest(v.content)
           [] OTHER -> Null

ProducerHash(w, x, tasks) ==
  IF w.values[x].producer = NoTask THEN Null ELSE HashTask(w, w.values[x].producer, tasks)
Upstream(w, x, tasks, values) ==
  LET y == w.values[x].from IN
  CASE y = NoValue -> Null
    [] y # NoValue /\ w.values[y].producer # NoTask ->
         Doc([producer |-> HashTask(w, w.values[y].producer, tasks)])
    [] OTHER -> Doc([value |-> Fingerprint(w, y, tasks, values)])
SemanticUpstream(w, x, producer, upstream) == Null
Semantic(w, x, producer, upstream) ==
  IF producer # Null \/ (upstream # Null /\ "producer" \in DOMAIN upstream.doc) THEN Null
  ELSE HashValue(w, x, {})
Fingerprint(w, x, tasks, values) ==
  LET v == w.values[x] IN
  CASE v.resolved # NoValue -> Fingerprint(w, v.resolved, tasks, values)
    [] v.resolved = NoValue /\ x \in values -> Cycle
    [] OTHER ->
         LET producer == ProducerHash(w, x, tasks)
             upstream == Upstream(w, x, tasks, values \union {x})
         IN IF Cycle \in {producer, upstream} THEN Cycle
            ELSE Doc([descriptor |-> Descriptor(v), producer |-> producer, upstream |-> upstream,
                      semantic |-> Semantic(w, x, producer, upstream)])

PortHashes(w, ports, tasks) == Doc([p \in DOMAIN ports |-> Fingerprint(w, ports[p], tasks, {})])
HashTask(w, t, seen) ==
  IF t \in seen THEN Cycle
  ELSE LET task == w.tasks[t] IN
       Doc([base |-> Base(w), identity |-> Atom(<<task.name, task.range>>),
            config |-> PortHashes(w, task.config, seen \union {t}),
            inputs |-> PortHashes(w, task.inputs, seen \union {t})])

(* --------------------------------------------------------------- properties *)
(* The values a task depends on, with the sources of sources and the inputs of
   producers, and the tasks: a reference without documents. *)
Next1(w, n) ==
  IF n[1] = "task"
  THEN {<<"value", w.tasks[n[2]].inputs[p]>> : p \in DOMAIN w.tasks[n[2]].inputs}
       \union {<<"value", w.tasks[n[2]].config[p]>> : p \in DOMAIN w.tasks[n[2]].config}
  ELSE LET v == w.values[n[2]] IN
       IF v.resolved # NoValue THEN {<<"value", v.resolved>>}
       ELSE (IF v.from # NoValue THEN {<<"value", v.from>>} ELSE {})
            \union (IF v.producer # NoTask THEN {<<"task", v.producer>>} ELSE {})
RECURSIVE Closure(_, _, _)
Closure(w, S, k) ==
  IF k = 0 THEN S ELSE Closure(w, S \union UNION {Next1(w, n) : n \in S}, k - 1)
Size(w) == Cardinality(DOMAIN w.tasks) + Cardinality(DOMAIN w.values)
Below(w, n) == Closure(w, Next1(w, n), Size(w))
DependsOnItself(w, t) == \E n \in Below(w, <<"task", t>>) \union {<<"task", t>>} : n \in Below(w, n)

(* What a task reads: the code, and of each value that is not produced by a task
   what it is and what is in it, unless it is a local file without a source. *)
Reads(w, t) ==
  LET D == Below(w, <<"task", t>>) \union {<<"task", t>>} IN
  [base |-> w.base,
   tasks |-> {<<w.tasks[n[2]].name, w.tasks[n[2]].range>> : n \in {m \in D : m[1] = "task"}},
   inputs |-> [p \in DOMAIN w.tasks[t].inputs |-> LET v == w.values[w.tasks[t].inputs[p]] IN
                 IF v.resolved = NoValue THEN v.desc ELSE w.values[v.resolved].desc],
   values |-> {n[2] : n \in {m \in D : /\ m[1] = "value"
                 /\ w.values[m[2]].resolved = NoValue /\ w.values[m[2]].producer = NoTask}}]
Contents(w, t) ==
  {w.values[x].content : x \in {y \in Reads(w, t).values :
     \/ w.values[y].place = "remote"
     \/ /\ w.values[y].place = "posix" /\ w.values[y].from # NoValue
        /\ w.values[w.values[y].from].producer = NoTask
     \/ w.values[y].place = "inline" /\ w.values[y].from = NoValue}}

(* Two worlds in which a task hashes alike give it the same to read: the same
   code, the same tasks before it and the same contents, however many sources and
   producers lie between; and a task hashes unless it depends on itself. *)
HashTellsReads(w1, w2, t) ==
  /\ (HashTask(w1, t, {}) = Cycle) = DependsOnItself(w1, t)
  /\ HashTask(w1, t, {}) # Cycle /\ HashTask(w1, t, {}) = HashTask(w2, t, {}) =>
       /\ [Reads(w1, t) EXCEPT !.values = {}] = [Reads(w2, t) EXCEPT !.values = {}]
       /\ Contents(w1, t) = Contents(w2, t)
===============================================================================
