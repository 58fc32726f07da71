------------------------------ MODULE ParquetRows ------------------------------
(* Rows read from parquet files without loading them whole: the deserialiser of
   mlody/core/parquet, which reads only the row group a row is in, and
   ParquetTraversalStrategy (mlody/resolver/resolver_impl.py), which walks a path
   over the files of a location. The values of a workspace are walked by
   LabelPaths; both must find the same rows.

   A file is there or not and is a sequence of row groups, a group a sequence of
   rows. Handlers of special column types are left out: cells are
   scalars. *)
EXTENDS LabelPaths

Rows(groups) == FlattenSeq(groups)
Total(groups) == Len(Rows(groups))
(* _find_row_group: the first group whose end is beyond the row. *)
End(groups, g) == Total(SubSeq(groups, 1, g))
FindRowGroup(groups, n) ==
  LET g == SelectInSeq([h \in DOMAIN groups |-> End(groups, h)], LAMBDA end : n < end)
  IN [group |-> g, offset |-> n - End(groups, g - 1)]
(* _read_row *)
InGroup(groups, at) ==
  IF at.offset < Len(groups[at.group]) THEN groups[at.group][at.offset + 1] ELSE Bad
ReadRow(groups, n) ==
  LET m == IF n < 0 THEN Total(groups) + n ELSE n
  IN IF m < 0 \/ m >= Total(groups) THEN Bad ELSE InGroup(groups, FindRowGroup(groups, m))
(* _read_slice: row by row. *)
ReadSlice(groups, s) ==
  LET stop == IF s.j < Total(groups) THEN s.j ELSE Total(groups)
  IN [k \in 1..(IF stop > s.i THEN stop - s.i ELSE 0) |-> ReadRow(groups, s.i + k - 1)]

(* The traversal, one segment: of the files, a row or a list. An index below the
   first row is not refused but passed on to the first file. *)
Complete(files) == \A i \in DOMAIN files : files[i].there
AllRows(files) == FlattenSeq([i \in DOMAIN files |-> Rows(files[i].groups)])
RowOfFiles(files, n) ==
  LET m == IF n < 0 THEN Len(AllRows(files)) + n ELSE n
      f == SelectInSeq([k \in DOMAIN files |-> Len(AllRows(SubSeq(files, 1, k)))],
                       LAMBDA end : m < end)
  IN IF f = 0 THEN Bad ELSE ReadRow(files[f].groups, m - Len(AllRows(SubSeq(files, 1, f - 1))))
RowStep(row, seg) ==
  IF seg.t \in {"field", "key"} /\ KeyAt(row, seg.n) # 0 THEN row[KeyAt(row, seg.n)][2] ELSE Bad
ListStep(rows, seg) ==
  CASE seg.t \in {"field", "key"} -> Project(rows, seg.n)
    [] seg.t = "index" -> IF At(rows, seg.i) \in DOMAIN rows THEN rows[At(rows, seg.i)] ELSE Bad
    [] OTHER -> Bad
FilesStep(files, seg) ==
  CASE ~Complete(files) -> Bad
    [] Complete(files) /\ seg.t = "index" -> RowOfFiles(files, seg.i)
    [] Complete(files) /\ seg.t = "slice" -> List(Cut(AllRows(files), seg))
    [] Complete(files) /\ seg.t = "sql" -> List(AllRows(files))
    [] OTHER -> Bad
(* A list that begins with a string is taken for the files again, whatever it is:
   the cells of a column of strings are opened as paths, and none is there. *)
HoldsStrings(s, n) == n \in DOMAIN s.table.cols /\ s.table.cols[n] = "string"
TakenForFiles(s, state) ==
  Is(state.at, "list") /\ state.at.list # <<>> /\ Is(Head(state.at.list), "atom")
    /\ HoldsStrings(s, state.column)
StrategyStep(s, files, state, seg) ==
  CASE state.at = Source -> FilesStep(files, seg)
    [] TakenForFiles(s, state) -> Bad
    [] Is(state.at, "dict") -> RowStep(state.at.dict, seg)
    [] Is(state.at, "list") /\ ~TakenForFiles(s, state) -> ListStep(state.at.list, seg)
    [] OTHER -> Bad
StrategyWalk(s, files, path) ==
  LET Walk(state, seg) ==
        IF state.at = Bad THEN state
        ELSE [at |-> StrategyStep(s, files, state, seg),
              column |-> IF seg.t \in {"field", "key"} THEN seg.n ELSE state.column]
  IN FoldLeft(Walk, [at |-> Source, column |-> ""], path)
(* The end of it, with the schema of the first file. *)
Strategy(s, files, path) ==
  IF files = <<>> THEN Unresolved ELSE TabularResult(s, StrategyWalk(s, files, path))

(* ----------------------------------------------------------------- properties *)
(* Row by row, from the groups they are in, is as good as all at once. *)
DeserializerIsExact(groups, n, s) ==
  /\ ReadRow(groups, n) = (IF At(Rows(groups), n) \in DOMAIN Rows(groups)
                           THEN Rows(groups)[At(Rows(groups), n)] ELSE Bad)
  /\ ReadSlice(groups, s) = Cut(Rows(groups), s)
(* The strategy finds what the walk of a tabular value over the same files finds,
   but that it takes no slice of a list, lets an index below the first row
   through, and finds nothing in a column of strings, whose cells it takes for
   paths of files. *)
FilesAreOneTable(s, files, path) ==
  LET below == Head(path).t = "index" /\ Head(path).i < -Len(AllRows(files))
      sliced == \E k \in 2..Len(path) : path[k].t = "slice"
      intoStrings ==
        Head(path).t \in {"slice", "sql"}
        /\ \E k \in 3..Len(path) : path[k - 1].t \in {"field", "key"} /\ HoldsStrings(s, path[k - 1].n)
  IN Complete(files) /\ files # <<>> /\ ~below /\ ~sliced /\ ~intoStrings
       => Strategy(s, files, path) = TabularPath([s EXCEPT !.table.rows = AllRows(files)], path)
================================================================================
