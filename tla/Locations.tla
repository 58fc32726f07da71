------------------------------- MODULE Locations -------------------------------
(* Where a field of a value lies (mlody/core/location_composition.py over
   mlody/core/location_specs.py): the location of the value composed with the
   one the field declares, level by level, and expanded on the disk each time.

   A path is a sequence of names after an optional root; "*" is a glob. `data' is
   what an inline location holds. The output path of a derived location is a
   function of its source paths and its query and is left out. *)
EXTENDS Integers, Sequences, SequencesExt

CONSTANT Disk   \* the paths that exist, in the order glob returns them

Nil == [none |-> TRUE]
Rel(parts) == [abs |-> FALSE, parts |-> parts]
Abs(parts) == [abs |-> TRUE, parts |-> parts]
Place(kind, paths) == [kind |-> kind, paths |-> paths, data |-> Nil]
NoPlace == Place("none", <<>>)
BadPlace == Place("bad", <<>>)   \* a LocationComposeError
Posix(paths) == Place("posix", paths)

(* os.path.join: an absolute path replaces what comes before it. *)
Join(p, q) == IF q.abs THEN q ELSE [p EXCEPT !.parts = @ \o q.parts]
FitsPattern(pattern, path) ==
  /\ pattern.abs = path.abs /\ Len(pattern.parts) = Len(path.parts)
  /\ \A i \in DOMAIN path.parts : pattern.parts[i] \in {"*", path.parts[i]}
(* _expand_pattern: a pattern without a match stays. *)
Expand(pattern) ==
  LET found == SelectSeq(Disk, LAMBDA path : FitsPattern(pattern, path))
  IN IF found = <<>> THEN <<pattern>> ELSE found
(* _dedupe_preserving_order *)
Dedupe(paths) ==
  FoldLeft(LAMBDA kept, path : IF Contains(kept, path) THEN kept ELSE Append(kept, path),
           <<>>, paths)
(* The `compose' of a posix and of a derived location: every parent with every
   field path, in this order. *)
Composed(parents, fields) ==
  LET from == IF parents = <<>> THEN <<Rel(<<>>)>> ELSE parents
      joined == FlattenSeq([i \in DOMAIN from |->
                              [j \in DOMAIN fields |-> Join(from[i], fields[j])]])
  IN Dedupe(FlattenSeq([k \in DOMAIN joined |-> Expand(joined[k])]))
(* PosixLocationSpec.from_location: any location with paths but a derived one. *)
HasPaths(place) == place.kind \notin {"none", "derived"} /\ place.paths # <<>>
FieldPaths(place, name) == IF HasPaths(place) THEN place.paths ELSE <<Rel(<<name>>)>>

(* compose_location, with the composers of posix and of derived locations. *)
Compose(parent, field, name) ==
  IF parent.kind = "none" THEN field
  ELSE IF \/ parent.kind \notin {"posix", "derived"}
          \/ parent.kind = "posix" /\ field.kind \notin {"none", "posix"}
          \/ parent.kind = "posix" /\ ~HasPaths(parent)
       THEN BadPlace
  ELSE [parent EXCEPT !.paths = Composed(parent.paths, FieldPaths(field, name))]

(* The patterns that a chain of locations stands for, as if nothing were expanded
   before its end. *)
Patterns(chain) ==
  FoldLeft(LAMBDA before, paths : {Join(p, q) : p \in before, q \in ToSet(paths)},
           {Rel(<<>>)}, chain)
================================================================================
