------------------------------ MODULE LabelPaths -------------------------------
(* What a path after a label's entity reaches (mlody/resolver/resolver_impl.py
   and the step engines of mlody/resolver/engine). A path of names is walked by
   one of three loops, a path with other segments by the engine, which maps what
   follows a `[*]' or a `..' over its elements; Workspace.resolve has a walk of
   its own.

   A struct has a kind, a name, the name of its type, whether that is a record,
   the fields its type declares, a location, its own attributes, the children
   made for it at run time (a method's result, `lineage'), further attributes of
   its type, the table it stands for and whether it is a JSON document of type
   top. What a walk returns is a value, a raw thing, a vector or unresolved. The
   own attributes of an entity are those its rule declares. Slices have no step,
   a query selects everything. *)
EXTENDS Locations, FiniteSets, TLC

CONSTANTS Json   \* Json[p]: what the document at p holds; other paths are folders

Empty == [x \in {} |-> Nil]
Atom(x) == [atom |-> x]
Dict(items) == [dict |-> items]      \* a sequence of pairs
List(things) == [list |-> things]
Struct(s) == [struct |-> s]
Blank == [kind |-> "value", name |-> "", tp |-> "", rec |-> FALSE, fields |-> <<>>,
          loc |-> NoPlace, own |-> Empty, made |-> Empty, tattr |-> Empty,
          table |-> Nil, json |-> FALSE]
V(s) == [value |-> s]
Raw(thing) == [raw |-> thing]
Vector(results) == [vector |-> results]
Unresolved == [unresolved |-> TRUE]
Is(x, form) == form \in DOMAIN x
Resolved(x) == ~Is(x, "unresolved")
Otherwise(first, second) == IF first # Nil THEN first ELSE second
IsRaw(x, form) == Is(x, "raw") /\ Is(x.raw, form)
Entities == {"task", "action", "value"}   \* TRAVERSAL_STRATEGIES, without users
IsEntity(thing) == Is(thing, "struct") /\ thing.struct.kind \in Entities

Field(n) == [t |-> "field", n |-> n]
Key(n) == [t |-> "key", n |-> n]
Index(i) == [t |-> "index", i |-> i]
Slice(i, j) == [t |-> "slice", i |-> i, j |-> j]
Wild == [t |-> "wild"]
Deep == [t |-> "deep"]
Sql == [t |-> "sql"]
Names(path) == [i \in DOMAIN path |-> path[i].n]
At(seq, i) == IF i < 0 THEN Len(seq) + i + 1 ELSE i + 1
Cut(seq, s) == SubSeq(seq, s.i + 1, IF s.j < Len(seq) THEN s.j ELSE Len(seq))

(* ----------------------------------------------------------- things by name *)
Attrs(s) == [name |-> Atom(s.name), location |-> [place |-> s.loc]] @@ s.own
FieldAt(s, n) == SelectInSeq(s.fields, LAMBDA f : f.name = n)
Declares(s, n) == FieldAt(s, n) # 0
KeyAt(items, n) == SelectInSeq(items, LAMBDA item : item[1] = n)
(* promote_scalar_leaf: scalars become a value with an inline location. *)
Promotes(thing) ==
  \/ Is(thing, "atom")
  \/ Is(thing, "list") /\ thing.list # <<>> /\ \A i \in DOMAIN thing.list : Is(thing.list[i], "atom")
Promoted(thing, n) ==
  V([Blank EXCEPT !.name = n, !.tp = "vector", !.loc = [Place("inline", <<>>) EXCEPT !.data = thing]])

(* traverse_virtual_value: a declared child, virtual again. *)
VirtualChild(s, n) ==
  [s.fields[FieldAt(s, n)] EXCEPT !.kind = "value", !.loc = Place("virtual", <<>>),
                                  !.own = Empty, !.made = Empty]
RECURSIVE VirtualSteps(_, _)
VirtualSteps(s, names) ==
  IF names = <<>> THEN V(s)
  ELSE IF Declares(s, Head(names)) THEN VirtualSteps(VirtualChild(s, Head(names)), Tail(names))
  ELSE Unresolved

(* --------------------------------------------------------------- one step *)
(* _traverse_one_step with a field. A declared field comes back rebuilt, with its
   composed location; the caller may ask whether it did. *)
Rebuilds(x, n) == Is(x, "value") /\ Declares(x.value, n)
PlacedAt(field, place) == IF place = BadPlace THEN Unresolved ELSE V([field EXCEPT !.loc = place])
Rebuilt(s, n) ==
  LET field == s.fields[FieldAt(s, n)] IN PlacedAt(field, Compose(s.loc, field.loc, n))
FieldStep(x, n) ==
  IF ~Is(x, "value") THEN Unresolved
  ELSE IF Declares(x.value, n) THEN Rebuilt(x.value, n)
  ELSE IF n \in DOMAIN x.value.made /\ (n = "lineage" \/ n \notin DOMAIN Attrs(x.value))
       THEN V(x.value.made[n])
  ELSE IF n \in DOMAIN Attrs(x.value) THEN Raw(Attrs(x.value)[n])
  ELSE IF n \in DOMAIN x.value.tattr THEN Raw(x.value.tattr[n])
  ELSE Unresolved

(* _policy_miss *)
Miss(policy) == IF policy = "skip" THEN Vector(<<>>) ELSE Unresolved
Indexed(x) == Is(x, "vector") \/ IsRaw(x, "list")
Elements(x) ==
  IF Is(x, "vector") THEN x.vector ELSE [i \in DOMAIN x.raw.list |-> Raw(x.raw.list[i])]
IndexStep(x, i, policy) ==
  IF Indexed(x) /\ At(Elements(x), i) \in DOMAIN Elements(x) THEN Elements(x)[At(Elements(x), i)]
  ELSE Miss(policy)
SliceStep(x, s, policy) ==
  IF Indexed(x) THEN Vector(Cut(Elements(x), s)) ELSE Miss(policy)
KeyStep(x, n, policy) ==
  IF IsRaw(x, "dict") /\ KeyAt(x.raw.dict, n) # 0
  THEN Raw(x.raw.dict[KeyAt(x.raw.dict, n)][2]) ELSE Miss(policy)
(* _collect_record_fields: fields that do not resolve are left out, under either
   policy. *)
CollectFields(s) ==
  SelectSeq([i \in DOMAIN s.fields |-> FieldStep(V(s), s.fields[i].name)], Resolved)
Traversable(x) == Is(x, "vector") \/ IsRaw(x, "dict") \/ (Is(x, "value") /\ x.value.rec)
Children(x) ==
  IF Is(x, "vector") THEN x.vector
  ELSE IF IsRaw(x, "dict") THEN [i \in DOMAIN x.raw.dict |-> Raw(x.raw.dict[i][2])]
  ELSE IF Is(x, "value") /\ x.value.rec THEN CollectFields(x.value) ELSE <<>>
RECURSIVE Descendants(_)
Descendants(x) ==
  LET Below(found, child) == found \o <<child>> \o Descendants(child)
  IN FoldLeft(Below, <<>>, Children(x))
WildStep(x, policy) == IF Traversable(x) THEN Vector(Children(x)) ELSE Miss(policy)
DeepStep(x, policy) == IF Traversable(x) THEN Vector(Descendants(x)) ELSE Miss(policy)
(* _traverse_one_step and the table of the step engines. *)
OneStep(x, seg, policy) ==
  CASE seg.t = "field" -> FieldStep(x, seg.n)
    [] seg.t = "key" -> KeyStep(x, seg.n, policy)
    [] seg.t = "index" -> IndexStep(x, seg.i, policy)
    [] seg.t = "slice" -> SliceStep(x, seg, policy)
    [] seg.t = "wild" -> WildStep(x, policy)
    [] seg.t = "deep" -> DeepStep(x, policy)
    [] OTHER -> Unresolved

(* ------------------------------------------------------------- tabular values *)
(* _is_explicit_tabular_value_struct and source_from_value: a source that cannot
   be prepared has a "broken" table. A row is a dict of atoms. *)
Explicit(s) == s.loc.kind \in {"derived", "remote"} \/ HasPaths(s.loc)
Tabular(x) ==
  Is(x, "value") /\ x.value.kind \notin {"task", "action"} /\ Explicit(x.value) /\ x.value.table # Nil
Source == [source |-> TRUE]
Bad == [bad |-> TRUE]
Project(rows, n) ==
  IF \A i \in DOMAIN rows : Is(rows[i], "dict") /\ KeyAt(rows[i].dict, n) # 0
  THEN List([i \in DOMAIN rows |-> rows[i].dict[KeyAt(rows[i].dict, n)][2]]) ELSE Bad
(* _traverse_tabular_source, one segment: of the source, a row or a list. *)
TabularStep(rows, at, seg) ==
  LET list == IF at = Source THEN rows ELSE IF Is(at, "list") THEN at.list ELSE <<>>
      named == seg.t \in {"field", "key"}
  IN CASE seg.t = "index" /\ At(list, seg.i) \in DOMAIN list -> list[At(list, seg.i)]
       [] seg.t = "slice" /\ (at = Source \/ Is(at, "list")) -> List(Cut(list, seg))
       [] seg.t = "sql" /\ at = Source -> List(rows)
       [] named /\ Is(at, "list") -> Project(list, seg.n)
       [] named /\ Is(at, "dict") /\ KeyAt(at.dict, seg.n) # 0 -> at.dict[KeyAt(at.dict, seg.n)][2]
       [] OTHER -> Bad
(* The end of it: scalars of a column become a value of the column's type, which
   must be the declared one. "odd" has no counterpart among the types. *)
Mistyped(s, column, tp) ==
  tp = "odd" \/ (Declares(s, column) /\ s.fields[FieldAt(s, column)].tp # tp)
TabularResult(s, end) ==
  IF end.at = Bad THEN Unresolved
  ELSE IF end.column \notin DOMAIN s.table.cols THEN Raw(end.at)
  ELSE IF Mistyped(s, end.column, s.table.cols[end.column]) THEN Unresolved
  ELSE IF Promotes(end.at) THEN Promoted(end.at, end.column) ELSE Raw(end.at)
TabularPath(s, path) ==
  LET Walk(state, seg) ==
        IF state.at = Bad THEN state
        ELSE [at |-> TabularStep(s.table.rows, state.at, seg),
              column |-> IF seg.t \in {"field", "key"} THEN seg.n ELSE state.column]
  IN TabularResult(s, FoldLeft(Walk, [at |-> Source, column |-> ""], path))
(* _maybe_traverse_tabular_value: what the tabular value does with the path, or
   Nil if the path does not begin with rows or the value is not tabular. *)
Intercepted(x, path) ==
  IF path = <<>> \/ Head(path).t \notin {"index", "slice", "sql"} THEN Nil
  ELSE IF ~Tabular(x) THEN IF Head(path).t = "sql" THEN Unresolved ELSE Nil
  ELSE IF Is(x.value.table, "broken") THEN Unresolved
  ELSE TabularPath(x.value, path)

(* ------------------------------------------------------------ JSON documents *)
Numeral == "0" :> 0 @@ "1" :> 1   \* bound: the numerals that are names
RECURSIVE JsonSteps(_, _)
JsonSteps(thing, names) ==
  IF names = <<>> THEN thing
  ELSE LET n == Head(names)
       IN CASE Is(thing, "dict") /\ KeyAt(thing.dict, n) # 0
                 -> JsonSteps(thing.dict[KeyAt(thing.dict, n)][2], Tail(names))
            [] Is(thing, "list") /\ n \in DOMAIN Numeral /\ Numeral[n] < Len(thing.list)
                 -> JsonSteps(thing.list[Numeral[n] + 1], Tail(names))
            [] OTHER -> Bad
(* _traverse_json_backed_value: one file of the location, and no more. *)
JsonEnd(thing, n) ==
  IF thing = Bad THEN Unresolved
  ELSE IF Is(thing, "atom") THEN Promoted(thing, n) ELSE Raw(thing)
JsonPath(s, names) ==
  LET files == IF s.loc.kind = "posix"
               THEN SelectSeq(s.loc.paths, LAMBDA p : p \in DOMAIN Json) ELSE <<>>
  IN IF Len(files) # 1 THEN Unresolved ELSE JsonEnd(JsonSteps(Json[files[1]], names), Last(names))

(* ------------------------------------------------------- paths of names only *)
(* The loop over a record: what is not the last must be a record or a document. *)
RECURSIVE RecordSteps(_, _)
RecordNext(rebuilt, to, names) ==
  IF ~Resolved(to) \/ names = <<>> THEN to
  ELSE IF rebuilt /\ ~to.value.rec
       THEN IF to.value.json THEN JsonPath(to.value, names) ELSE Unresolved
  ELSE RecordSteps(to, names)
RecordSteps(x, names) ==
  RecordNext(Rebuilds(x, Head(names)), FieldStep(x, Head(names)), Tail(names))
(* step_named_child, with its adapters. *)
ItemAt(things, n) ==
  SelectInSeq(things, LAMBDA item : Is(item, "struct") /\ item.struct.name = n)
NamedChild(thing, n) ==
  CASE Is(thing, "struct") /\ n \in DOMAIN Attrs(thing.struct) -> Attrs(thing.struct)[n]
    [] Is(thing, "struct") /\ n \notin DOMAIN Attrs(thing.struct) ->
         IF thing.struct.loc.kind = "virtual"
         THEN IF Declares(thing.struct, n) THEN Struct(VirtualChild(thing.struct, n)) ELSE Bad
         ELSE IF n \in DOMAIN thing.struct.made THEN Struct(thing.struct.made[n]) ELSE Bad
    [] Is(thing, "dict") /\ KeyAt(thing.dict, n) # 0 -> thing.dict[KeyAt(thing.dict, n)][2]
    [] Is(thing, "list") /\ ItemAt(thing.list, n) # 0 -> thing.list[ItemAt(thing.list, n)]
    [] OTHER -> Bad
(* The other two loops: getattr for a value, step_named_child for a task or an
   action; `lineage' is made first. *)
LoopStep(entity, thing, n) ==
  IF Is(thing, "struct") /\ n \in DOMAIN thing.struct.made
     /\ (n = "lineage" \/ (~entity /\ n \notin DOMAIN Attrs(thing.struct)))
  THEN Struct(thing.struct.made[n])
  ELSE IF entity THEN NamedChild(thing, n)
  ELSE IF Is(thing, "struct") /\ n \in DOMAIN Attrs(thing.struct) THEN Attrs(thing.struct)[n]
  ELSE Bad
(* The end of both: an entity is wrapped, a scalar with a declared type promoted,
   and for a task or an action a collection of entities becomes a vector. *)
Collection(thing) ==
  IF Is(thing, "list") THEN thing.list
  ELSE IF Is(thing, "dict") THEN [i \in DOMAIN thing.dict |-> thing.dict[i][2]] ELSE <<thing>>
DeclaresType(entity, parent, n) ==
  Is(parent, "struct")
  /\ (Declares(parent.struct, n) \/ (entity /\ IsEntity(parent) /\ n \in DOMAIN Attrs(parent.struct)))
LoopEnd(entity, parent, thing, n) ==
  IF IsEntity(thing) THEN V(thing.struct)
  ELSE IF Is(thing, "atom") /\ DeclaresType(entity, parent, n) THEN Promoted(thing, n)
  ELSE IF entity /\ (Is(thing, "list") \/ Is(thing, "dict"))
          /\ \A i \in DOMAIN Collection(thing) : IsEntity(Collection(thing)[i])
       THEN Vector([i \in DOMAIN Collection(thing) |-> V(Collection(thing)[i].struct)])
  ELSE Raw(thing)
(* A value has the graph of what it takes to make it; what follows is dropped. *)
HasGraph(thing, n) ==
  n \in {"dag", "agraph"} /\ Is(thing, "struct") /\ thing.struct.kind = "value" /\ thing.struct.tp # n
Graph(n) == V([Blank EXCEPT !.name = n, !.tp = n, !.loc = Place("virtual", <<>>)])
RECURSIVE LoopSteps(_, _, _)
LoopNext(entity, from, to, names) ==
  IF to = Bad THEN IF HasGraph(from, Head(names)) THEN Graph(Head(names)) ELSE Unresolved
  ELSE IF Len(names) = 1 THEN LoopEnd(entity, from, to, Head(names))
  ELSE LoopSteps(entity, to, Tail(names))
LoopSteps(entity, thing, names) ==
  LoopNext(entity, thing, LoopStep(entity, thing, Head(names)), names)

(* ValueTraversalStrategy, its loops for names only. *)
ValueNames(s, names) ==
  IF s.loc.kind = "virtual" THEN VirtualSteps(s, names)
  ELSE IF s.rec \/ s.fields # <<>> THEN RecordSteps(V(s), names)
  ELSE IF s.json THEN JsonPath(s, names)
  ELSE LoopSteps(FALSE, Struct(s), names)

(* ------------------------------------------------------------------ the engine *)
(* _traverse_with_engine: names, `[*]' and `..' are mapped over the elements of a
   vector, an index and a slice take from the vector itself. *)
Maps(x, seg) == Is(x, "vector") /\ seg.t \in {"field", "key", "wild", "deep"}
MapSilently(results, policy) == Vector(SelectSeq(results, Resolved))
Mapped(results, policy) ==
  IF policy = "raise" /\ \E i \in DOMAIN results : ~Resolved(results[i]) THEN Unresolved
  ELSE Vector(SelectSeq(results, Resolved))
EngineStep(x, seg, policy) ==
  IF Maps(x, seg) THEN Mapped([i \in DOMAIN x.vector |-> OneStep(x.vector[i], seg, policy)], policy)
  ELSE OneStep(x, seg, policy)
RECURSIVE Engine(_, _, _)
Engine(x, path, policy) ==
  IF path = <<>> \/ ~Resolved(x) THEN x
  ELSE Otherwise(Intercepted(x, path), Engine(EngineStep(x, Head(path), policy), Tail(path), policy))

(* resolve_label_to_value, from the entity on: the path and then the first segment
   of the entity's query. *)
IsNamed(path) == \A i \in DOMAIN path : path[i].t = "field"
Walked(root, path, policy) ==
  CASE path = <<>> -> V(root)
    [] path # <<>> /\ root.kind \in {"task", "action"} ->
         IF IsNamed(path) THEN LoopSteps(TRUE, Struct(root), Names(path)) ELSE Unresolved
    [] path # <<>> /\ root.kind = "value" /\ IsNamed(path) -> ValueNames(root, Names(path))
    [] OTHER -> Engine(V(root), path, policy)
Asked(x, query, policy) ==
  IF query = <<>> \/ ~Resolved(x) THEN x
  ELSE Otherwise(Intercepted(x, query), OneStep(x, Head(query), policy))
Show(root, path, query, policy) == Asked(Walked(root, path, policy), query, policy)

(* ---------------------------------------------------------- Workspace.resolve *)
Unwrapped(x) == IF Is(x, "value") THEN Struct(x.value) ELSE IF Is(x, "raw") THEN x.raw ELSE x
(* _workspace_traverse_record: it stops at the first thing that is not a field. *)
RECURSIVE HookSteps(_, _)
HookSteps(x, names) ==
  IF names = <<>> \/ ~Resolved(x) THEN x
  ELSE IF Rebuilds(x, Head(names)) THEN HookSteps(FieldStep(x, Head(names)), Tail(names))
  ELSE FieldStep(x, Head(names))
Hooked(x, query) == Unwrapped(Asked(x, query, "raise"))
RECURSIVE NamedSteps(_, _)
NamedSteps(thing, names) ==
  IF names = <<>> \/ thing = Bad THEN thing ELSE NamedSteps(NamedChild(thing, Head(names)), Tail(names))
(* A query that does not suit the thing leaves it as it is. *)
Queried(thing, seg) ==
  CASE seg.t = "index" /\ Is(thing, "list") ->
         IF At(thing.list, seg.i) \in DOMAIN thing.list THEN thing.list[At(thing.list, seg.i)] ELSE Bad
    [] seg.t = "key" /\ Is(thing, "dict") ->
         IF KeyAt(thing.dict, seg.n) # 0 THEN thing.dict[KeyAt(thing.dict, seg.n)][2] ELSE Bad
    [] seg.t = "wild" /\ (Is(thing, "list") \/ Is(thing, "dict")) -> List(Collection(thing))
    [] OTHER -> thing
Answered(thing, query) ==
  IF query = <<>> \/ thing = Bad THEN thing ELSE Queried(thing, Head(query))
(* Workspace.resolve, from the anchor on; Bad stands for an exception. *)
Resolve(root, names, query) ==
  IF \/ root.kind = "value" /\ root.rec /\ names # <<>>
     \/ query # <<>> /\ Head(query).t = "sql"
  THEN Hooked(HookSteps(V(root), names), query)
  ELSE Answered(NamedSteps(Struct(root), names), query)

(* ----------------------------------------------------------------- properties *)
ByName(names) == [i \in DOMAIN names |-> Field(names[i])]
IsPlaced(root) == root.rec /\ root.kind = "value" /\ root.loc.kind # "virtual"
RECURSIVE NamesBelow(_)
NamesBelow(s) ==
  FlattenSeq([i \in DOMAIN s.fields |->
    LET below == IF s.fields[i].rec THEN NamesBelow(s.fields[i]) ELSE <<>>
    IN <<<<s.fields[i].name>>>> \o [j \in DOMAIN below |-> <<s.fields[i].name>> \o below[j]]])
(* What `[*]' and `..' give are the fields that can be named, each as its own
   label gives it, in the order they are declared; what follows `[*][i]' is read
   from the i-th of them as it is from its label, and what is mapped over `[*]'
   gives what it gives after each of them. `shown' is what show finds for a path. *)
ExpandsTo(root, rest, policy, fields, below, shown) ==
  LET ns == SelectSeq(fields, LAMBDA n : Resolved(shown[<<Field(n)>>]))
      IsRecord(n) == root.fields[FieldAt(root, n)].rec
      after == [i \in DOMAIN ns |-> shown[<<Field(ns[i])>> \o rest]]
  IN /\ shown[<<Wild>>] = Vector([i \in DOMAIN ns |-> shown[<<Field(ns[i])>>]])
     /\ shown[<<Deep>>]
          = Vector(SelectSeq([i \in DOMAIN below |-> shown[ByName(below[i])]], Resolved))
     /\ \A i \in DOMAIN ns :
          LET at == shown[<<Wild, Index(i - 1)>> \o rest]
          IN \/ at = after[i]
             \/ /\ IsNamed(rest) /\ (Len(rest) > 1 \/ ~IsRecord(ns[i]))
                /\ ~(Resolved(at) /\ Resolved(after[i]))
     /\ Len(rest) = 1 /\ Head(rest).t = "field" /\ (\A i \in DOMAIN ns : IsRecord(ns[i]))
          => shown[<<Wild>> \o rest]
               = IF policy = "raise" /\ \E i \in DOMAIN ns : ~Resolved(after[i]) THEN Unresolved
                 ELSE Vector(SelectSeq(after, Resolved))
ExpansionsAreExplicit(root, rest, policy) ==
  LET fields == [i \in DOMAIN root.fields |-> root.fields[i].name]
      below == NamesBelow(root)
      tried == {<<Wild>>, <<Deep>>, <<Wild>> \o rest}
               \union {<<Wild, Index(i - 1)>> \o rest : i \in DOMAIN fields}
               \union {<<Field(fields[i])>> \o rest : i \in DOMAIN fields}
               \union {ByName(below[i]) : i \in DOMAIN below}
  IN IsPlaced(root) => ExpandsTo(root, rest, policy, fields, below,
                                 [path \in tried |-> Show(root, path, <<>>, policy)])
(* Where a path resolves under RAISE, SKIP changes nothing. *)
Spares(raised, skipped) == Resolved(raised) => skipped = raised
SkipSavesFailuresOnly(root, path, query) ==
  Spares(Show(root, path, query, "raise"), Show(root, path, query, "skip"))
(* The files a nested field has are those that the joined patterns of its label's
   locations match, although each level is expanded on its own. *)
FilesAreMatches(shown, patterns) ==
  Resolved(shown) =>
    ToSet(shown.value.loc.paths) \intersect ToSet(Disk)
      = {path \in ToSet(Disk) : \E pattern \in patterns : FitsPattern(pattern, path)}
ComposedPathsAreMatches(root, names) ==
  LET Level(k) == LET s == FoldLeft(LAMBDA at, n : at.fields[FieldAt(at, n)], root, SubSeq(names, 1, k))
                  IN FieldPaths(s.loc, names[k])
  IN /\ IsPlaced(root) /\ root.loc.kind \in {"posix", "derived"} /\ root.loc.paths # <<>>
     /\ Contains(NamesBelow(root), names)
     => FilesAreMatches(Show(root, ByName(names), <<>>, "raise"),
                        Patterns(<<root.loc.paths>> \o [k \in DOMAIN names |-> Level(k)]))
(* Show and Workspace.resolve, where both find something for a path of names, find
   the same, unless the latter stopped at an attribute on its way or the walk met
   a graph, which only the former knows. *)
Inline(thing) == IF Is(thing, "struct") /\ thing.struct.loc.data # Nil THEN thing.struct.loc.data ELSE thing
Plain(x) ==
  IF Is(x, "vector") THEN List([i \in DOMAIN x.vector |-> Inline(Unwrapped(x.vector[i]))])
  ELSE IF (Is(x, "list") \/ Is(x, "dict")) /\ \A i \in DOMAIN Collection(x) : IsEntity(Collection(x)[i])
       THEN List(Collection(x))
  ELSE Inline(Unwrapped(x))
StopsEarly(root, names) ==
  root.kind = "value" /\ root.rec
  /\ \E k \in 1..Len(names) - 1 : ~Rebuilds(HookSteps(V(root), SubSeq(names, 1, k - 1)), names[k])
Agree(shown, found) ==
  Resolved(shown) /\ found \notin {Bad, Unresolved} => Plain(shown) = Plain(found)
ShowAndResolveAgree(root, names) ==
  ~StopsEarly(root, names) /\ (root.fields # <<>> => root.rec)
    => Agree(Show(root, ByName(names), <<>>, "raise"), Resolve(root, names, <<>>))
(* All four, for a path and a query tried on an entity. *)
LabelsReachOneThing(root, path, query) ==
  LET named == IsNamed(path) /\ path # <<>>
  IN /\ SkipSavesFailuresOnly(root, path, query)
     /\ query = <<>> => \A policy \in {"raise", "skip"} : ExpansionsAreExplicit(root, path, policy)
     /\ named => ComposedPathsAreMatches(root, Names(path))
     /\ named => ShowAndResolveAgree(root, Names(path))
================================================================================
