------------------------------ MODULE MCTables ------------------------------
(* Families of values with rows: a download in every form with a copy and derived
   values over both, a copy of a copy, several files, files staged from elsewhere,
   and what is not a table; all of it read by each route. *)
EXTENDS Integers, Sequences, FiniteSets

VARIABLES decls, disk, server, reach, read, past, changes
tables == <<decls, disk, server, reach, read, past, changes>>

Forms == {"csv", "parquet", "json", "html"}
TableContents == [f \in Forms |-> {[form |-> f, rows |-> r] : r \in {<<1, 2, 3>>, <<4, 5>>}}]
Injected(keeps) == [from |-> "injected", keeps |-> keeps]
TableQueries ==
  {Injected("all"), Injected("odd"), Injected("count"), [from |-> "own", keeps |-> "all"]}

Decl(kind, rep, fresh) ==
  [kind |-> kind, paths |-> <<>>, uri |-> "", rep |-> rep, form |-> rep, multi |-> FALSE,
   source |-> "", bound |-> FALSE, fresh |-> fresh, query |-> Injected("all"), label |-> ""]
Remote(rep, fresh) == [Decl("remote", rep, fresh) EXCEPT !.uri = "u"]
FilesAt(rep, paths) == [Decl("posix", rep, "always") EXCEPT !.paths = paths]
CopyOf(source, rep, fresh) ==
  [Decl("posix", rep, fresh) EXCEPT !.paths = <<source \o "-copy">>, !.source = source, !.bound = TRUE]
From(source, keeps) ==
  [Decl("derived", "none", "always") EXCEPT
     !.source = source, !.bound = TRUE, !.query = Injected(keeps), !.label = source]
Families ==
  {[r |-> Remote(rep, f[1]), c |-> CopyOf("r", IF rep = "html" THEN "csv" ELSE rep, f[2]),
    d |-> From("r", "odd"), e |-> From("c", "odd")] :
     rep \in Forms, f \in {<<"always", "always">>, <<"manual", "always">>, <<"always", "manual">>}}
  \union
  {[r |-> Remote("csv", f), c |-> CopyOf("r", "csv", g), cc |-> CopyOf("c", "csv", h),
    n |-> From("cc", "count")] :
     f \in {"manual"}, g, h \in {"always", "manual"}}
  \union
  {[p |-> FilesAt(rep, <<"a", "b">>), q |-> FilesAt(rep, <<"a">>),
    d |-> [From("p", "odd") EXCEPT !.label = "same"], e |-> [From("q", "odd") EXCEPT !.label = "same"]] :
     rep \in {"csv", "parquet"}}
  \union
  {[s |-> [Decl("ssh", "csv", "always") EXCEPT !.paths = <<"s">>], d |-> From("s", "odd"),
    f |-> From("d", "all"),
    t |-> [Decl("ssh", "none", "always") EXCEPT !.paths = <<"s">>, !.form = "csv"],
    x |-> [CopyOf("s", "csv", "always") EXCEPT !.bound = FALSE],
    m |-> [Remote("csv", "always") EXCEPT !.multi = TRUE], z |-> From("m", "all")],
   [p |-> [FilesAt("other", <<"a">>) EXCEPT !.form = "parquet"], d |-> From("p", "odd")]}

T == INSTANCE TabularRows WITH
  Families <- Families, Contents <- TableContents, Queries <- TableQueries, Shown <- 2, MaxChanges <- 2
===============================================================================
