------------------------------ MODULE TabularRows ------------------------------
(* The rows of a value (mlody/core/tabular over mlody/core/assets and
   mlody/core/sql): what a value is read from is found anew for every read, along
   the chain of its sources, and the links of the chain keep what they read: the
   cache of a download, a declared copy, a converted table, the parquet file of a
   derived value. Between the steps of a read a server publishes, or answers no
   more as it should, and users edit.

   Each call that materialises or reads is one step: what happens within a
   download, a copy or a derivation is in HttpAsset, CopiedAsset and AssetDb. A
   content is a form and rows; its hash is itself. A value is a record of its
   location, representation, source and freshness; value() gives every value one
   of these, "always" by default. Patterns of paths are in Locations. *)
EXTENDS Integers, Sequences, SequencesExt, FiniteSets, TLC

CONSTANTS Families,     \* declared values by name, several such functions
          Contents,     \* Contents[form]: what a file of this form can hold
          Queries,      \* what is asked of the values
          Shown,        \* rows of a preview, 50 in the code
          MaxChanges    \* bound: changes of a server or a file

VARIABLES decls, disk,
          server,   \* server[u]: what is published at u
          reach,    \* reach[u]: what of u's server can be reached
          read, past, changes
tables == <<decls, disk, server, reach, read, past, changes>>

NoHash == [none |-> TRUE]
Own(path) == [own |-> path]          \* a path a user wrote
Cached(uri) == [cached |-> uri]
Staged(path) == [staged |-> path]
Output(key) == [output |-> key]
Write(d, path, content) == (path :> content) @@ d
First(k, rows) == SubSeq(rows, 1, IF k < Len(rows) THEN k ELSE Len(rows))
Failed(d) == [ok |-> FALSE, disk |-> d]
At(d, path, hash) == [ok |-> TRUE, disk |-> d, path |-> path, hash |-> hash]
Got(d, rows) == [ok |-> TRUE, disk |-> d, rows |-> rows]

(* ---------------------------------------------------------------- values *)
Sourced(v) == v.source # "" /\ v.bound
HasPaths(v) == v.kind \in {"posix", "ssh"}
OwnPaths(v) == [i \in DOMAIN v.paths |-> Own(v.paths[i])]
(* asset_from_value, whether there is one. *)
HasAsset(v) == v.kind \in {"remote", "ssh"} \/ (HasPaths(v) /\ Len(v.paths) = 1)
(* derived_location_spec_from_value *)
SourcePaths(v) == OwnPaths(IF Sourced(v) /\ HasPaths(decls[v.source]) THEN decls[v.source] ELSE v)

(* ---------------------------------------------------------------- assets *)
Kept(d, path) == At(d, path, d[path])
(* A server that can be asked and read, one that tells nothing of a change (it does
   not answer, or what it answers looks the same) but can be read, one that cannot
   be read, and one that can be neither. *)
Reaches == {"up", "mute", "cut", "down"}
(* What is cached is the answer if it is young, if it has not changed, and also if
   that cannot be found out; only a download that fails is an error. *)
TellsChange(d, v) == reach[v.uri] \in {"up", "cut"} /\ d[Cached(v.uri)] # server[v.uri]
StaysCached(d, v, fresh) ==
  Cached(v.uri) \in DOMAIN d /\ (fresh = "always" => ~TellsChange(d, v))
Fetched(d, v) ==
  IF reach[v.uri] \in {"cut", "down"} THEN Failed(d)
  ELSE Kept(Write(d, Cached(v.uri), server[v.uri]), Cached(v.uri))
Download(d, v, fresh) ==
  IF StaysCached(d, v, fresh) THEN Kept(d, Cached(v.uri)) ELSE Fetched(d, v)
(* The file of an SSH or of a local asset; only the former is hashed. *)
Found(d, path, hashed) ==
  IF path \notin DOMAIN d THEN Failed(d) ELSE At(d, path, IF hashed THEN d[path] ELSE NoHash)
(* _refresh_from_upstream, and the conversion of an html table, which compares no
   hashes. *)
CopyFrom(up, dest) ==
  IF ~up.ok THEN up
  ELSE IF dest \in DOMAIN up.disk /\ up.hash # NoHash /\ up.disk[dest] = up.hash
       THEN At(up.disk, dest, up.hash)
  ELSE At(Write(up.disk, dest, up.disk[up.path]), dest, up.hash)
ConvertFrom(up, dest) ==
  IF ~up.ok \/ up.disk[up.path].form # "html" THEN Failed(up.disk)
  ELSE At(Write(up.disk, dest, [form |-> "csv", rows |-> up.disk[up.path].rows]), dest, NoHash)
(* The freshness of the value at the end of a chain rules over the whole chain. *)
RECURSIVE Materialized(_, _, _)
Copied(d, v, fresh) ==
  LET dest == Own(v.paths[1])
  IN IF dest \in DOMAIN d /\ fresh # "always" THEN At(d, dest, NoHash)
     ELSE IF Sourced(v) /\ HasAsset(decls[v.source])
          THEN CopyFrom(Materialized(d, v.source, fresh), dest)
     ELSE Failed(d)
Materialized(d, n, fresh) ==
  LET v == decls[n]
  IN CASE HasPaths(v) /\ Sourced(v) -> Copied(d, v, fresh)
       [] v.kind = "remote" -> Download(d, v, fresh)
       [] v.kind = "ssh" /\ ~Sourced(v) -> Found(d, Staged(v.paths[1]), TRUE)
       [] OTHER -> Found(d, Own(v.paths[1]), FALSE)
Converted(d, v) ==
  LET dest == Own(v.paths[1])
  IN IF dest \in DOMAIN d /\ v.fresh # "always" THEN At(d, dest, NoHash)
     ELSE IF HasAsset(decls[v.source])
          THEN ConvertFrom(Materialized(d, v.source, v.fresh), dest)
     ELSE Failed(d)

(* ----------------------------------------------------------------- queries *)
(* What a query keeps of the rows; a count is one cell. A query with a FROM of its
   own finds a registered table, but no files. *)
Keep(q, rows) ==
  CASE q.keeps = "all" -> rows
    [] q.keeps = "odd" -> SelectSeq(rows, LAMBDA r : r % 2 = 1)
    [] q.keeps = "count" -> <<Len(rows)>>
IsScalar(q) == q.keeps = "count"
FindsItsRows(input, q) == q.from = "injected" \/ "rows" \in DOMAIN input
(* The files of a source: csv skips what is missing, json and html read the first
   file only. *)
Taken(d, form, paths) ==
  CASE form = "csv" -> SelectSeq(paths, LAMBDA p : p \in DOMAIN d)
    [] form = "parquet" -> paths
    [] OTHER -> SubSeq(paths, 1, 1)
Concat(d, paths) == FlattenSeq([i \in DOMAIN paths |-> d[paths[i]].rows])
ReadAll(d, form, paths) ==
  IF paths # <<>> /\ \A i \in DOMAIN paths : paths[i] \in DOMAIN d /\ d[paths[i]].form = form
  THEN Got(d, Concat(d, paths)) ELSE Failed(d)
ReadFiles(d, form, paths) == ReadAll(d, form, Taken(d, form, paths))
(* mlody_query over a table or over parquet files. *)
Input(d, input) == IF "rows" \in DOMAIN input THEN Got(d, input.rows) ELSE ReadFiles(d, "parquet", input.paths)
Answered(got, q) == IF got.ok THEN Got(got.disk, Keep(q, got.rows)) ELSE got
RunQuery(d, input, q) ==
  IF FindsItsRows(input, q) THEN Answered(Input(d, input), q) ELSE Failed(d)

(* ---------------------------------------------------------- tabular sources *)
Source(kind, n, paths, hash) ==
  [kind |-> kind, of |-> n, paths |-> paths, hash |-> hash, key |-> NoHash, input |-> NoHash]
NotTabular == Source("none", "", <<>>, NoHash)
Is(d, source) == [ok |-> TRUE, disk |-> d, source |-> source]
(* _interpret_blob; a value without a representation is taken for parquet. *)
Interpreted(v, n, paths, hash) ==
  CASE v.rep = "none" -> Source("parquet", n, paths, hash)
    [] v.rep = "html" -> Source("html", n, paths, NoHash)
    [] v.rep \in {"csv", "json", "parquet"} -> Source(v.rep, n, paths, hash)
    [] OTHER -> NotTabular
(* DerivedSource.materialize: what is there is not made again, and one cell is not
   a table. *)
DeriveTo(out, result) ==
  IF result.ok
  THEN At(Write(result.disk, out, [form |-> "parquet", rows |-> result.rows]), out, NoHash)
  ELSE result
Derive(d, s, q) ==
  IF Output(s.key) \in DOMAIN d THEN At(d, Output(s.key), NoHash)
  ELSE IF IsScalar(q) THEN Failed(d)
  ELSE DeriveTo(Output(s.key), RunQuery(d, s.input, q))
(* `materialize', as far as preview, count and query_input need it. *)
Local(d, s) ==
  CASE s.kind = "copied" -> Copied(d, decls[s.of], decls[s.of].fresh)
    [] s.kind = "converted" -> Converted(d, decls[s.of])
    [] s.kind = "derived" -> Derive(d, s, decls[s.of].query)
Made(s) == s.kind \in {"copied", "converted", "derived"}
FormOf(s) ==
  CASE s.kind = "copied" -> decls[s.of].rep
    [] s.kind = "converted" -> "csv"
    [] s.kind = "derived" -> "parquet"
    [] OTHER -> s.kind
PathsIn(d, paths) == [ok |-> TRUE, disk |-> d, paths |-> paths]
OneFile(at) == IF at.ok THEN PathsIn(at.disk, <<at.path>>) ELSE at
FilesOf(d, s) == IF Made(s) THEN OneFile(Local(d, s)) ELSE PathsIn(d, s.paths)
(* The rows, for preview and count. *)
LoadFiles(there, form) == IF there.ok THEN ReadFiles(there.disk, form, there.paths) ELSE there
Load(d, s) == LoadFiles(FilesOf(d, s), FormOf(s))
(* query_input: parquet is left on the disk, everything else is read. *)
GivenTo(d, input) == [ok |-> TRUE, disk |-> d, input |-> input]
TableOf(got) == IF got.ok THEN GivenTo(got.disk, [rows |-> got.rows]) ELSE got
InputOf(there, form) ==
  IF there.ok /\ form = "parquet" THEN GivenTo(there.disk, [paths |-> there.paths])
  ELSE TableOf(LoadFiles(there, form))
QueryInput(d, s) == InputOf(FilesOf(d, s), FormOf(s))

(* source_from_value. A derived value that is not derived from a hash is kept under
   what its declaration says; its input is prepared at once, also when nothing
   will be made of it. *)
DerivedFrom(n, paths) ==
  [Source("derived", n, paths, NoHash) EXCEPT
     !.key = [label |-> decls[n].label, sql |-> decls[n].query], !.input = [paths |-> paths]]
DeriveUnkeyed(n, source, got) ==
  IF got.ok THEN Is(got.disk, [DerivedFrom(n, <<>>) EXCEPT !.input = got.input]) ELSE got
DeriveKeyed(n, source, got) ==
  IF got.ok
  THEN Is(got.disk,
          [DerivedFrom(n, <<>>) EXCEPT
             !.key = IF source.hash = NoHash THEN @ ELSE [hash |-> source.hash, sql |-> decls[n].query],
             !.input = got.input])
  ELSE got
DeriveOver(n, from) ==
  CASE ~from.ok -> from
    [] from.ok /\ from.source # NotTabular ->
         DeriveKeyed(n, from.source, QueryInput(from.disk, from.source))
    [] from.ok /\ from.source = NotTabular ->
         IF SourcePaths(decls[n]) = <<>> THEN Failed(from.disk)
         ELSE Is(from.disk, DerivedFrom(n, SourcePaths(decls[n])))
(* _source_backed_local_source_from_value: nothing is copied yet. *)
BackedBySource(d, n) ==
  LET v == decls[n]
      converts == v.rep = "csv" /\ Sourced(v) /\ decls[v.source].rep = "html"
  IN IF Len(v.paths) # 1 THEN Failed(d)
     ELSE Is(d, Source(IF converts THEN "converted" ELSE "copied", n, OwnPaths(v), NoHash))
(* _tabular_source_from_asset: an asset that is not a local file is materialised
   at once. *)
InterpretedAt(n, at) ==
  IF at.ok THEN Is(at.disk, Interpreted(decls[n], n, <<at.path>>, at.hash)) ELSE at
FromAsset(d, n) ==
  LET v == decls[n]
  IN InterpretedAt(n, IF v.kind = "posix" /\ ~Sourced(v) THEN At(d, Own(v.paths[1]), NoHash)
                      ELSE Materialized(d, n, v.fresh))
RECURSIVE SourceOf(_, _)
SourceOf(d, n) ==
  LET v == decls[n]
  IN CASE v.kind = "derived" /\ v.source = "" -> Is(d, DerivedFrom(n, SourcePaths(v)))
       [] v.kind = "derived" /\ v.source # "" ->
            DeriveOver(n, IF v.bound THEN SourceOf(d, v.source) ELSE Is(d, NotTabular))
       [] HasPaths(v) /\ v.source # "" /\ v.rep \in {"csv", "parquet"} -> BackedBySource(d, n)
       [] OTHER ->
            IF HasAsset(v) /\ ~v.multi /\ v.rep # "none" THEN FromAsset(d, n)
            ELSE Is(d, IF HasPaths(v) THEN Interpreted(v, n, OwnPaths(v), NoHash) ELSE NotTabular)

(* ------------------------------------------------------------------ actions *)
UserFiles(ds) ==
  UNION {IF v.kind = "ssh" THEN {Staged(v.paths[1])}
         ELSE IF v.kind = "posix" /\ v.source = "" THEN {Own(v.paths[i]) : i \in DOMAIN v.paths} ELSE {} :
           v \in {ds[n] : n \in DOMAIN ds}}
FormAt(ds, path) ==
  (CHOOSE v \in {ds[n] : n \in DOMAIN ds} :
     \E i \in DOMAIN v.paths : path \in {Own(v.paths[i]), Staged(v.paths[i])}).form
World == [files |-> [p \in UserFiles(decls) |-> disk[p]], server |-> server]
Idle == [st |-> "idle", name |-> "", route |-> "", query |-> NoHash, source |-> NotTabular,
         count |-> 0, ok |-> FALSE, rows |-> <<>>, calm |-> TRUE]

Init ==
  /\ decls \in Families
  /\ disk \in [UserFiles(decls) -> UNION {Contents[f] : f \in DOMAIN Contents}]
  /\ \A p \in DOMAIN disk : disk[p] = CHOOSE c \in Contents[FormAt(decls, p)] : TRUE
  /\ server = [u \in {v.uri : v \in {decls[n] : n \in DOMAIN decls}} \ {""} |->
                 CHOOSE c \in Contents[(CHOOSE v \in {decls[n] : n \in DOMAIN decls} : v.uri = u).form] : TRUE]
  /\ reach = [u \in DOMAIN server |-> "up"]
  /\ read = Idle /\ past = {World} /\ changes = 0

Change ==
  /\ changes' = changes + 1
  /\ past' = past \union {[files |-> [p \in UserFiles(decls) |-> disk'[p]], server |-> server']}
  /\ read' = [read EXCEPT !.calm = FALSE]
  /\ UNCHANGED decls
Publish == \E u \in DOMAIN server : \E c \in Contents[server[u].form] \ {server[u]} :
  /\ changes < MaxChanges /\ server' = [server EXCEPT ![u] = c]
  /\ UNCHANGED <<disk, reach>> /\ Change
(* An outage begins, changes or ends. *)
Falter == \E u \in DOMAIN server : \E how \in Reaches \ {reach[u]} :
  /\ changes < MaxChanges /\ reach' = [reach EXCEPT ![u] = how]
  /\ UNCHANGED <<disk, server>> /\ Change
Edit == \E p \in UserFiles(decls) : \E c \in Contents[disk[p].form] \ {disk[p]} :
  /\ changes < MaxChanges /\ disk' = [disk EXCEPT ![p] = c]
  /\ UNCHANGED <<server, reach>> /\ Change

Begun(n, route, q) == [Idle EXCEPT !.name = n, !.route = route, !.query = q]
Done(ok, rows) == [read EXCEPT !.st = "done", !.ok = ok, !.rows = rows, !.source = NotTabular]
Failing == Done(FALSE, <<>>)
Leaves(d) == disk' = d /\ UNCHANGED <<decls, server, reach, past, changes>>
(* The beginning of any read. *)
Prepared(begun, got) ==
  /\ Leaves(got.disk)
  /\ read' = IF got.ok /\ got.source # NotTabular
             THEN [begun EXCEPT !.st = "prepared", !.source = got.source]
             ELSE [begun EXCEPT !.st = "done"]
Prepare == \E n \in DOMAIN decls, route \in {"show", "rows", "sql"}, q \in Queries :
  /\ read.st \in {"idle", "done"}
  /\ route # "sql" => q.keeps = "all" /\ q.from = "injected"
  /\ Prepared(Begun(n, route, q), SourceOf(disk, n))
(* What show gives: the first rows and how many there are. *)
Previewed(got) ==
  /\ Leaves(got.disk)
  /\ read' = IF got.ok THEN [Done(TRUE, First(Shown, got.rows)) EXCEPT !.count = Len(got.rows)]
             ELSE Failing
Preview == read.st = "prepared" /\ read.route = "show" /\ Previewed(Load(disk, read.source))
(* _load_rows: as many rows as were counted. *)
Counted(got) ==
  /\ Leaves(got.disk)
  /\ read' = IF got.ok THEN [read EXCEPT !.st = "counted", !.count = Len(got.rows)] ELSE Failing
Count == read.st = "prepared" /\ read.route = "rows" /\ Counted(Load(disk, read.source))
Loaded(got) ==
  /\ Leaves(got.disk)
  /\ read' = IF got.ok THEN Done(TRUE, First(read.count, got.rows)) ELSE Failing
LoadRows == read.st = "counted" /\ Loaded(Load(disk, read.source))
Asked(from, q) == IF from.ok THEN RunQuery(from.disk, from.input, q) ELSE from
Told(got) ==
  /\ Leaves(got.disk)
  /\ read' = IF got.ok THEN Done(TRUE, got.rows) ELSE Failing
Ask ==
  /\ read.st = "prepared" /\ read.route = "sql"
  /\ Told(Asked(QueryInput(disk, read.source), read.query))
Next == Publish \/ Falter \/ Edit \/ Prepare \/ Preview \/ Count \/ LoadRows \/ Ask

(* --------------------------------------------------------------- properties *)
(* What a value stands for: its own files, or what its sources stand for. *)
RECURSIVE Denote(_, _)
Denote(n, w) ==
  LET v == decls[n]
      mine == IF v.kind = "ssh" THEN <<Staged(v.paths[1])>> ELSE OwnPaths(v)
      there == SelectSeq(mine, LAMBDA p : p \in DOMAIN w.files)
  IN CASE v.kind = "derived" -> Keep(v.query, Denote(v.source, w))
       [] v.kind # "derived" /\ Sourced(v) -> Denote(v.source, w)
       [] v.kind = "remote" -> w.server[v.uri].rows
       [] OTHER -> FlattenSeq([i \in DOMAIN there |-> w.files[there[i]].rows])
(* Nothing on the way from n to the server keeps what may be out of date, and the
   server tells its changes: where it does not, the code takes what is cached for
   the present. A derived value is kept for ever, but under the hash of its source
   if that has one. *)
RECURSIVE Hashed(_)
Hashed(n) ==
  LET v == decls[n]
  IN \/ v.kind \in {"remote", "ssh"} /\ v.rep # "html"
     \/ v.kind = "posix" /\ Sourced(v) /\ v.rep = "json" /\ Hashed(v.source)
RECURSIVE KeepsUp(_, _)
KeepsUp(n, fresh) ==
  LET v == decls[n]
  IN CASE v.kind = "derived" -> Hashed(v.source) /\ KeepsUp(v.source, decls[v.source].fresh)
       [] v.kind # "derived" /\ Sourced(v) -> fresh = "always" /\ KeepsUp(v.source, fresh)
       [] v.kind = "remote" -> fresh = "always" /\ reach[v.uri] \in {"up", "cut"}
       [] OTHER -> TRUE
Sharing(n) ==
  \E m \in DOMAIN decls \ {n} :
    /\ decls[n].kind = "derived" /\ decls[m].kind = "derived"
    /\ decls[m].label = decls[n].label /\ decls[m].query = decls[n].query
RECURSIVE Shares(_)
Shares(n) == Sharing(n) \/ (Sourced(decls[n]) /\ Shares(decls[n].source))
RowsOf(w) ==
  LET rows == Denote(read.name, w)
  IN IF read.route = "show" THEN [rows |-> First(Shown, rows), count |-> Len(rows)]
     ELSE [rows |-> Keep(read.query, rows), count |-> read.count]
Given == [rows |-> read.rows, count |-> read.count]
(* A read that nothing overlapped, an edit, a publication or a change of what can
   be reached, gives, by whatever route, the rows the value stands for: now, if
   everything on the way keeps up and the server tells its changes, or else at
   one moment of the past. One that was overlapped gives the first rows of one moment. *)
ReadsOneMoment ==
  read.st = "done" /\ read.ok /\ ~Shares(read.name) =>
    IF read.calm
    THEN \E w \in (IF KeepsUp(read.name, decls[read.name].fresh) THEN {World} ELSE past) :
           Given = RowsOf(w)
    ELSE \E w \in past : IsPrefix(read.rows, RowsOf(w).rows)
Reread(from) ==
  IF from.ok /\ from.source # NotTabular THEN Load(from.disk, from.source) ELSE Failed(from.disk)
Same(got) ==
  /\ got.ok = read.ok
  /\ read.ok => read.rows = IF read.route = "show" THEN First(Shown, got.rows)
                           ELSE Keep(read.query, got.rows)
(* After such a read every other route finds the same rows, or none where it found
   none. *)
RoutesAgree ==
  read.st = "done" /\ read.calm /\ read.query.from = "injected" =>
    Same(Reread(SourceOf(disk, read.name)))
================================================================================
