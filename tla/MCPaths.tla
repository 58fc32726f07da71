-------------------------------- MODULE MCPaths --------------------------------
(* Values with locations of every kind on a small disk, and the paths that are
   tried on them. *)
EXTENDS Integers, Sequences

Data == [abs |-> FALSE, parts |-> <<"data">>]
Below(parts) == [abs |-> FALSE, parts |-> <<"data">> \o parts]
Doc == Below(<<"b", "j">>)
Alone == [abs |-> TRUE, parts |-> <<"lone">>]
MCDisk == <<Alone, Data, Below(<<"a">>), Below(<<"a", "x">>), Below(<<"b">>), Doc, Below(<<"b", "x">>)>>
MCJson == [p \in {Doc, Below(<<"a", "x">>)} |->
             IF p = Doc
             THEN [dict |-> <<<<"x", [atom |-> "1"]>>, <<"b", [list |-> <<[atom |-> "2"]>>]>>>>]
             ELSE [list |-> <<[dict |-> <<<<"x", [atom |-> "3"]>>>>]>>]]
P == INSTANCE ParquetRows WITH Disk <- MCDisk, Json <- MCJson

Rel(parts) == P!Posix(<<P!Rel(parts)>>)
FieldOf(name, tp, loc) == [P!Blank EXCEPT !.kind = "field", !.name = name, !.tp = tp, !.loc = loc]
RecordOf(name, loc, fields) == [FieldOf(name, "rec", loc) EXCEPT !.rec = TRUE, !.fields = fields]
ValueOf(name, loc, fields) == [RecordOf(name, loc, fields) EXCEPT !.kind = "value"]

FieldX == FieldOf("x", "string", P!NoPlace)
AnyFile == FieldOf("x", "string", Rel(<<"*">>))
J == [FieldOf("j", "top", P!NoPlace) EXCEPT !.json = TRUE]
Items(a, b) == P!Dict(<<<<"a", a>>, <<"b", b>>>>)
Own == [b |-> Items(P!Atom("1"), P!List(<<P!Atom("2"), P!Atom("3")>>))]
Row(x, b) == P!Dict(<<<<"x", x>>, <<"b", b>>>>)
Table == [cols |-> [x |-> "string", b |-> "int"],
          rows |-> <<Row(P!Atom("r"), P!Atom("1")), Row(P!Atom("s"), P!Atom("2"))>>]
Made == [lineage |-> ValueOf("lineage", P!Place("virtual", <<>>), <<FieldX>>)]
Nested == <<RecordOf("a", Rel(<<"a">>), <<FieldX, J>>), RecordOf("b", P!NoPlace, <<AnyFile, J>>),
            FieldOf("c", "string", P!Place("remote", <<>>))>>

Records ==
  {[ValueOf("v", loc, fields) EXCEPT !.own = Own, !.made = Made,
                                    !.table = IF loc.kind = "none" THEN P!Nil ELSE Table] :
     loc \in {P!NoPlace, Rel(<<"data">>), P!Posix(<<P!Rel(<<"data", "*">>), P!Rel(<<"data">>)>>),
              P!Place("derived", <<Data>>), P!Place("remote", <<>>), P!Place("virtual", <<>>)},
     fields \in {Nested, SubSeq(Nested, 1, 2), <<FieldX, FieldOf("b", "string", P!Posix(<<Alone, Rel(<<"*", "x">>).paths[1]>>))>>,
                 <<RecordOf("a", Rel(<<"*">>), <<AnyFile, RecordOf("b", Rel(<<"*">>), <<FieldX>>)>>)>>}}
Document(loc) == [FieldOf("v", "top", loc) EXCEPT !.kind = "value", !.json = TRUE]
Small == [ValueOf("a", P!NoPlace, <<>>) EXCEPT !.rec = FALSE, !.own = Own, !.made = Made]
Typed == [Small EXCEPT !.name = "b", !.fields = <<FieldOf("b", "string", P!NoPlace)>>]
Task ==
  [Small EXCEPT !.kind = "task", !.name = "t",
     !.own = [a |-> Items(P!Struct(Small), P!Struct(Typed)), b |-> P!List(<<P!Struct(Small)>>),
              x |-> Own.b, j |-> P!Struct([Small EXCEPT !.kind = "action", !.name = "j"]), c |-> P!List(<<>>)]]
PathRoots ==
  Records \union {Document(Rel(<<"data", "b", "j">>)), Document(P!Posix(<<Doc, Below(<<"a", "x">>)>>)),
                  Document(P!NoPlace), Small, Typed, Task,
                  [Small EXCEPT !.own = [x |-> P!Struct(Small), b |-> P!Struct(Typed), a |-> P!Atom("1")]],
                  [ValueOf("v", P!Place("remote", <<>>), <<>>) EXCEPT !.rec = FALSE, !.table = [broken |-> TRUE]]}
PathNames == {"a", "b", "c", "x", "j", "name", "lineage", "dag", "0"}
PathSegments ==
  {P!Field(n) : n \in PathNames}
  \union {P!Key("b"), P!Index(0), P!Index(-1), P!Index(2), P!Slice(0, 1), P!Wild, P!Deep, P!Sql}
Paths == UNION {[1..n -> PathSegments] : n \in 0..2}
(* Parquet files of up to two row groups, and what is asked of them. *)
Cell(n) == P!Dict(<<<<"x", P!Atom(n)>>, <<"b", P!Atom("1")>>, <<"j", P!Atom("0")>>>>)
Group(n) == <<Cell(n), Cell("s")>>
ParquetFiles ==
  {[there |-> FALSE, groups |-> <<>>]}
  \union [there : {TRUE}, groups : {<<>>, <<Group("r")>>, <<<<Cell("u")>>, Group("t")>>,
                                    <<<<>>, Group("v"), <<Cell("w")>>>>}]
FileLists == UNION {[1..n -> ParquetFiles] : n \in 0..2}
Frames ==
  {[Small EXCEPT !.fields = fields, !.table = [cols |-> [x |-> "string", b |-> "int", j |-> "odd"], rows |-> <<>>]] :
     fields \in {<<>>, <<FieldX, FieldOf("b", "string", P!NoPlace)>>}}
RowSegments ==
  {P!Index(i) : i \in -5..4} \union {P!Slice(i, j) : i \in 0..3, j \in {2, 9}}
  \union {P!Sql, P!Field("x"), P!Key("b"), P!Field("j"), P!Field("c"), P!Wild}
RowPaths == UNION {[1..n -> RowSegments] : n \in 1..2}
           \union {<<P!Slice(0, 9), P!Field(n), P!Index(i)>> : n \in {"x", "b", "j"}, i \in {-1, 1, 5}}
Queries == {<<>>, <<P!Index(1)>>, <<P!Wild>>, <<P!Sql>>}
================================================================================
