------------------------------- MODULE MCValues -------------------------------
(* What is done with the values of a workspace: they are found by their labels
   (MCLookup), walked by what follows a label (MCPaths), read as tables (MCTables),
   dispatched on, hashed, assigned to and cloned for a request. Finding and reading go on while files
   change; the others are algorithms that keep nothing: one case of one of them is
   picked from a set. *)
EXTENDS MCLookup, MCPaths, MCTables, TLC

CONSTANTS None, NoValue, NoTask

VARIABLES part, case

(* A declared type takes any value, or numbers only. *)
Accepts(t, x) == t = "any" \/ x.k = "atom"

D == INSTANCE Multimethod
H == INSTANCE ContentHash
E == INSTANCE ValueEdits
F == INSTANCE Forks

(* -------------------------------------------------- dispatch: terms, patterns *)
Types == {D!Thing("type", n, D!Empty) : n \in {"int", "string"}}
Vectors == {D!Thing("type", "vector", [element_type |-> t]) :
              t \in Types \union {D!Label("int"), D!Absent}}
Reprs == {D!Thing("representation", n, D!Empty) : n \in {"json", "csv"}}
Locations == {D!Posix(<<"a">>), D!Posix(<<"a", "b">>), D!Posix(<<"a", "c", "b">>)}
Values ==
  {D!Thing("value", "v", [type |-> t, representation |-> r, location |-> l]) :
     t \in Types \union Vectors \union {D!Label("int"), D!Absent},
     r \in Reprs \union {D!Absent}, l \in Locations \union {D!Absent}}
Terms == Types \union Vectors \union Reprs \union Locations \union Values
         \union {D!Str("s"), D!Str("t"), D!Label("int"), D!Label("vector")}

IntType == D!Scalar("int")
VectorPatterns ==
  {D!Constructed("type", "vector", <<"element_type">>, kw) :
     kw \in {D!Empty} \union
            [{"element_type"} -> {D!ANY, D!Var("x"), IntType, D!Or(<<IntType, D!Var("e")>>)}]}
PlacePatterns == {D!PosixGlob(g) : g \in {<<"a", "b">>, <<"a", "*">>, <<"**">>, <<"a", "**", "b">>}}
ValuePatterns ==
  {D!Constructed("value", "", <<"type", "representation", "location">>, kw) :
     kw \in {D!Empty}
        \union [{"type"} -> {D!ANY, IntType, D!Scalar("vector"), D!Or(<<IntType, D!Scalar("string")>>)}
                            \union VectorPatterns]
        \union [type : {D!Var("x"), IntType}, representation : {D!Repr("json"), D!Var("x")}]
        \union [type : {D!ANY, IntType}, location : {D!ANY} \union PlacePatterns]}
Patterns ==
  {D!ANY, IntType, D!Scalar("vector"), D!Var("x"), D!Str("s"), D!Repr("json"),
   D!Literal(D!Str("s")), D!Literal(D!Str("t")), D!Or(<<IntType, D!Repr("json")>>),
   D!Or(<<D!Str("s"), D!ANY>>), D!Or(<<D!Var("x"), D!Scalar("vector")>>)}
  \union VectorPatterns \union PlacePatterns \union ValuePatterns

(* ------------------------------------------------------- hashes: what is read *)
Value(desc, source, from, resolved, producer, place, content) ==
  [desc |-> desc, source |-> source, from |-> from, resolved |-> resolved,
   producer |-> producer, place |-> place, content |-> content]
(* The task t reads the value `in', by itself or under the name `name'; `in' has
   what it holds from nowhere, from `mid', from the remote file `src' or from
   `out', which the task u writes and which in a cycle comes from `in'. *)
Worlds ==
  {[base |-> [commit |-> 1, patch |-> p],
    tasks |-> [t |-> [name |-> "t", range |-> 1, config |-> <<>>, inputs |-> [x |-> i]],
               u |-> [name |-> "u", range |-> r, config |-> [y |-> j], inputs |-> <<>>]],
    values |-> [in |-> Value(d, f, f, NoValue, NoTask, k, k1),
                name |-> Value(0, "in", NoValue, "in", NoTask, "posix", 0),
                mid |-> Value(0, g, g, NoValue, NoTask, k2, 0),
                src |-> Value(0, "", NoValue, NoValue, NoTask, "remote", k3),
                out |-> Value(0, "", NoValue, NoValue, "u", "posix", 0)]] :
     p \in {0, 1}, r \in {1, 2}, i \in {"in", "name"}, j \in {"src", "in", "mid"}, d \in {0, 1},
     f \in {NoValue, "mid", "src", "out"}, g \in {"src", "out", "name"},
     k \in {"posix", "inline", "remote"}, k1 \in {1, 2}, k2 \in {"posix", "inline"}, k3 \in {1, 2}}
(* The worlds that differ from w in one respect. *)
Near(w) ==
  {[w EXCEPT !.base.patch = 1 - @], [w EXCEPT !.tasks.u.range = 3 - @],
   [w EXCEPT !.values.in.desc = 1 - @], [w EXCEPT !.values.in.content = 3 - @],
   [w EXCEPT !.values.src.content = 3 - @]}

(* ------------------------------------------------- setf: values and selectors *)
X == E!Atom("x")
Y == [E!Atom("y") EXCEPT !.tp = "num"]
Mixed == E!Node("list", <<X, Y>>)
Plain == E!Node("list", <<Y, Y, Y>>)
Struct == E!Node("struct", [p |-> X, q |-> Mixed])
Dict == E!Node("dict", [p |-> Y, q |-> Struct])
Tuple == E!Node("tuple", <<Struct, X>>)
Virtual == E!Node("virtual", [p |-> E!Node("virtual", [q |-> E!Node("virtual", E!Empty)])])
WithMethod ==
  [Struct EXCEPT !.ext = [m |-> [v |-> Struct, readonly |-> TRUE, listed |-> TRUE]]]
EntityValue ==
  [E!Node("entity", [p |-> Plain, q |-> Dict]) EXCEPT
     !.ext = [lineage |-> [v |-> E!Node("virtual", E!Empty), readonly |-> FALSE, listed |-> FALSE]],
     !.decl = [p |-> "any", r |-> "num"]]
Roots == {Mixed, Plain, Struct, Dict, Tuple, Virtual, WithMethod, EntityValue,
          E!Node("struct", [p |-> EntityValue, q |-> Tuple]),
          E!Node("struct", [p |-> WithMethod, q |-> Virtual]),
          E!Node("entity", [p |-> Struct, q |-> Plain])}
Segments ==
  {E!Field(n) : n \in {"p", "q", "r", "m", "lineage"}}
  \union {E!Key("p"), E!Index(0), E!Index(-1), E!Index(2), E!Slice(0, 2), E!Slice(1, 9),
          E!Wild, E!Deep}
Selectors == UNION {[1..n -> Segments] : n \in 1..3}
NewValues == {E!Atom("z"), E!Node("struct", [p |-> E!Atom("z")])}
Rests ==
  {<<>>, <<E!Field("p")>>, <<E!Field("r")>>, <<E!Field("m")>>, <<E!Wild>>,
   <<E!Field("q"), E!Wild>>, <<E!Deep, E!Field("p")>>, <<E!Field("q"), E!Index(0)>>,
   <<E!Field("q"), E!Index(0), E!Field("p")>>}

(* ---------------------------------------------------------- forks: small heaps *)
Objects == 1..3
Children == {s \in UNION {[1..n -> Objects] : n \in 0..2} : Len(s) = 2 => s[1] < s[2]}
Things == {F!Obj("plain", <<>>)}
          \union {F!Obj("fun", kids) : kids \in {<<>>} \union {<<x>> : x \in Objects}}
          \union {F!Obj("dict", kids) : kids \in Children}
          \union {F!Obj(k, kids) : k \in {"record", "tuple"}, kids \in Children \ {<<>>}}
(* A tuple is made of what is there before it. *)
TuplesAreMade(h) ==
  LET tuples == {x \in Objects : h[x].kind = "tuple"} IN
  \A x \in tuples : \A y \in F!Reached([o \in Objects |-> IF o \in tuples THEN h[o] ELSE F!Obj("plain", <<>>)],
                                        F!Seen(h, x)) : y # x

(* --------------------------------------------------------------- what runs *)
NoCase == [of |-> "none"]
MCInit ==
  /\ part \in {"lookup", "path", "table", "dispatch", "hash", "edit", "fork"} /\ case = NoCase
  /\ LookupInit /\ T!Init
  /\ part # "lookup" => rel = <<>>
  /\ part # "table" => decls = CHOOSE ds \in Families : TRUE
Pathing == \E root \in PathRoots, path \in Paths, query \in Queries :
  /\ Len(path) = 2 => query = <<>>
  /\ case' = [of |-> "path", root |-> root, path |-> path, query |-> query]
Scanning == \E s \in Frames, files \in FileLists, path \in RowPaths :
  case' = [of |-> "scan", s |-> s, files |-> files, path |-> path]
Dispatching == \E p, q \in Patterns : case' = [of |-> "dispatch", p |-> p, q |-> q]
Hashing == \E w \in Worlds :
  /\ w.values.in.place = "remote" => w.values.in.from = NoValue
  /\ case' = [of |-> "hash", world |-> w]
Editing == \E root \in Roots, s \in Selectors, x \in NewValues :
  case' = [of |-> "edit", root |-> root, selector |-> s, new |-> x]
Labelling == \E a, b \in Roots, rest \in Rests, x \in NewValues, w \in BOOLEAN :
  case' = [of |-> "label", registry |-> [a |-> a, b |-> b], new |-> x,
           anchors |-> <<[key |-> "a", rest |-> rest, writable |-> TRUE],
                         [key |-> "b", rest |-> rest, writable |-> w]>>]
Forking == \E h \in [Objects -> Things] :
  TuplesAreMade(h) /\ case' = [of |-> "fork", heap |-> h]
MCNext ==
  /\ UNCHANGED part
  /\ \/ part = "lookup" /\ MCLookupNext /\ UNCHANGED <<case, tables>>
     \/ part = "table" /\ T!Next /\ UNCHANGED <<case, lookupVars>>
     \/ /\ case = NoCase /\ UNCHANGED <<lookupVars, tables>>
        /\ \/ part = "path" /\ (Pathing \/ Scanning)
           \/ part = "dispatch" /\ Dispatching
           \/ part = "hash" /\ Hashing
           \/ part = "edit" /\ (Editing \/ Labelling)
           \/ part = "fork" /\ Forking
MCSpec == MCInit /\ [][MCNext]_<<part, case, lookupVars, tables>>

(* --------------------------------------------------------------- properties *)
(* Whatever way a path is walked (by show's loops or its engine, under either
   error policy, or by Workspace.resolve), a label reaches the same fields, in the
   same places. And whether parquet files are read group by group or as one
   table, a path over them finds the same rows, but for what follows a column of
   strings, whose cells are taken for paths of files when they are read group by
   group. *)
LabelsReachOneThing ==
  /\ case.of = "path" => P!LabelsReachOneThing(case.root, case.path, case.query)
  /\ case.of = "scan" =>
       /\ P!FilesAreOneTable(case.s, case.files, case.path)
       /\ Len(case.path) = 2 /\ Head(case.path).t = "index" /\ case.path[2].t = "slice" =>
            \A k \in DOMAIN case.files :
              P!DeserializerIsExact(case.files[k].groups, Head(case.path).i, case.path[2])
(* A read finds the rows of one moment, the present one if nothing on the way keeps
   older ones and the server tells its changes, and every route the same ones. *)
ReadsAreOneMoment == part = "table" => T!ReadsOneMoment /\ T!RoutesAgree
(* Of two methods the one that takes fewer of the terms wins them. Dispatch and
   unification agree on which terms a pattern takes, and two patterns that unify
   take a term in common. *)
DispatchFollowsPatterns ==
  case.of = "dispatch" =>
    /\ D!NarrowerWins(case.p, case.q, Terms)
    /\ case.p = case.q => \A a \in Terms : D!CapturesFollowMatch(case.p, a)
    /\ D!UnifiedMeet(case.p, case.q, Terms)
(* A task that hashes alike in two worlds has the same to read in both. *)
HashTellsReads ==
  case.of = "hash" => \A w \in Near(case.world) : H!HashTellsReads(case.world, w, "t")
(* An assignment does what it says at every place its selector has and nothing
   anywhere else; with several anchors, one that fails has not been made in part. *)
AssignmentsAreExact ==
  /\ case.of = "edit" => E!EditIsExact(case.root, case.selector, case.new)
  /\ case.of = "label" => E!FailedSetfWritesNothing(case.registry, case.anchors, case.new)
(* A fork of a workspace in which a module holds the objects 1 and 2, the registry
   1 and 3 and an attribute 3 shares nothing with it that one of the two could
   change, as far as no cycle is met. *)
ForkIsOwn == case.of = "fork" => F!ForkIsOwn(case.heap, <<1, 2>>, <<1, 3>>, 3)
===============================================================================
