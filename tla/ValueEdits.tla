------------------------------ MODULE ValueEdits -------------------------------
(* setf: assignment through a label and a selector (src/mlody/core/setf.py with
   its strategies, the traversal adapters and the anchors). A selector is
   resolved into places, every place is tried before anything is written, and
   then the places are written one by one, each resolved anew on the root as it
   has become; a label with a wildcard does that for one anchor after another.

   A value is [k, kids, ext, decl, tp]: its children, those synthesised at run
   time (a method's result, `lineage'), the names its type declares with their
   types, and its own type. Selectors are parsed; slices have no step. The row of
   lineage that a write leaves in the database changes no value. *)
EXTENDS Integers, Sequences, SequencesExt, FiniteSetsExt

CONSTANTS None,       \* no type, no value
          Accepts(_, _) \* a type's validator

Empty == [x \in {} |-> None]
Atom(a) == [k |-> "atom", kids |-> Empty, ext |-> Empty, decl |-> Empty, tp |-> None, a |-> a]
Node(k, kids) == [k |-> k, kids |-> kids, ext |-> Empty, decl |-> Empty, tp |-> None, a |-> None]
Field(n) == [t |-> "field", n |-> n]
Key(n) == [t |-> "key", n |-> n]
Index(i) == [t |-> "index", i |-> i]
Slice(i, j) == [t |-> "slice", i |-> i, j |-> j]
Wild == [t |-> "wild"]
Deep == [t |-> "deep"]

(* ------------------------------------------------------- the adapters *)
Fields(v) == v.k \in {"struct", "entity"}
Sequenced(v) == v.k \in {"list", "tuple"}
(* An index as Python reads it: from the end when it is negative. *)
At(v, i) == IF i < 0 THEN Len(v.kids) + i + 1 ELSE i + 1
Within(v, s) == {i \in 1..Len(v.kids) : s.i < i /\ i <= s.j}
Fail == [ok |-> FALSE, hard |-> FALSE]
Ok(x) == [ok |-> TRUE, v |-> x]

(* step_segment: what a segment reaches. A field that the value has hides the
   synthesised child of that name; a virtual value has declared children only. *)
Step(v, s) ==
  CASE s.t = "field" /\ v.k \in {"struct", "entity", "dict", "virtual"} /\ s.n \in DOMAIN v.kids
         -> Ok(v.kids[s.n])
    [] s.t = "field" /\ Fields(v) /\ s.n \in DOMAIN v.ext \ DOMAIN v.kids
         -> Ok(v.ext[s.n].v)
    [] s.t = "key" /\ v.k = "dict" /\ s.n \in DOMAIN v.kids -> Ok(v.kids[s.n])
    [] s.t = "index" /\ Sequenced(v) /\ At(v, s.i) \in DOMAIN v.kids -> Ok(v.kids[At(v, s.i)])
    [] s.t = "slice" /\ Sequenced(v)
         -> Ok(Node("list", SubSeq(v.kids, s.i + 1, Min({s.j, Len(v.kids)}))))
    [] OTHER -> Fail

(* iter_children: the segment and the value of each child. *)
Children(v) ==
  CASE Sequenced(v) -> [i \in DOMAIN v.kids |-> <<Index(i - 1), v.kids[i]>>]
    [] v.k = "dict" -> LET ns == SetToSeq(DOMAIN v.kids)
                       IN [i \in DOMAIN ns |-> <<Key(ns[i]), v.kids[ns[i]]>>]
    [] v.k = "virtual" -> LET ns == SetToSeq(DOMAIN v.kids)
                          IN [i \in DOMAIN ns |-> <<Field(ns[i]), v.kids[ns[i]]>>]
    [] Fields(v) -> LET ns == SetToSeq(DOMAIN v.kids)
                             \o SetToSeq({n \in DOMAIN v.ext \ DOMAIN v.kids : v.ext[n].listed})
                    IN [i \in DOMAIN ns |-> <<Field(ns[i]), Step(v, Field(ns[i])).v>>]
    [] OTHER -> <<>>

(* replace_child: a copy with one child, or the slice's, replaced. A tuple is
   not written to, nor is a value without children. *)
With(f, n, x) == [m \in DOMAIN f \union {n} |-> IF m = n THEN x ELSE f[m]]
Replace(v, s, x) ==
  CASE s.t = "field" /\ (Fields(v) \/ v.k \in {"dict", "virtual"})
         -> Ok([v EXCEPT !.kids = With(v.kids, s.n, x)])
    [] s.t = "key" /\ v.k = "dict" -> Ok([v EXCEPT !.kids = With(v.kids, s.n, x)])
    [] s.t = "index" /\ v.k = "list" /\ At(v, s.i) \in DOMAIN v.kids
         -> Ok([v EXCEPT !.kids[At(v, s.i)] = x])
    [] s.t = "slice" /\ v.k = "list"
         -> Ok([v EXCEPT !.kids = [i \in DOMAIN @ |-> IF i \in Within(v, s) THEN x ELSE @[i]]])
    [] OTHER -> Fail

(* --------------------------------------------------------------- places *)
Final(path) == path[Len(path)]
Above(path) == SubSeq(path, 1, Len(path) - 1)
Hard == [ok |-> FALSE, hard |-> TRUE]   \* a ValueError, which nothing swallows

(* lookup_runtime_attribute: a declared name, or a synthesised one. *)
Declared(v, s) == s.t = "field" /\ s.n \in DOMAIN v.decl
Contract(owner, s, cur) == IF Declared(owner, s) THEN owner.decl[s.n] ELSE cur.tp
ReadOnly(owner, s) == s.t = "field" /\ ~Declared(owner, s) /\ s.n \in DOMAIN owner.ext
                      /\ owner.ext[s.n].readonly
(* _STRATEGIES: the first one that matches the segment and its owner. *)
Strategy(owner, s) ==
  CASE ReadOnly(owner, s) -> "readonly"
    [] s.t = "field" /\ owner.k = "virtual" -> "virtual"
    [] s.t = "field" /\ (Fields(owner) \/ owner.k = "dict") -> "field"
    [] s.t = "key" /\ owner.k = "dict" -> "key"
    [] s.t = "index" /\ owner.k = "list" -> "index"
    [] OTHER -> None

(* _make_direct_place. *)
DirectPlace(owner, path, cur, missing) ==
  LET s == Final(path)
      strategy == Strategy(owner, s)
  IN IF strategy = None THEN Fail
     ELSE Ok(<<[owner |-> owner, path |-> path, strategy |-> strategy, missing |-> missing,
                tp |-> Contract(owner, s, cur)]>>)
(* The elements of a slice have to agree on their type (_resolve_contract). *)
SlicePlace(owner, path, cur) ==
  LET types == {cur.kids[i].tp : i \in DOMAIN cur.kids}
  IN IF Cardinality(types) > 1 THEN Hard
     ELSE Ok(<<[owner |-> owner, path |-> path, strategy |-> "slice", missing |-> FALSE,
                tp |-> IF types = {} THEN None ELSE CHOOSE t \in types : TRUE]>>)

RECURSIVE Descendants(_, _)
Descendants(v, path) ==
  FlattenSeq([i \in DOMAIN Children(v) |->
    LET child == Children(v)[i]
        below == Append(path, child[1])
    IN <<[path |-> below, owner |-> v, v |-> child[2]]>> \o Descendants(child[2], below)])

(* The places of all the branches, or the first error. *)
Joined(outcomes) ==
  LET errors == {i \in DOMAIN outcomes : ~outcomes[i].ok}
  IN IF errors # {} THEN outcomes[Min(errors)]
     ELSE Ok(FlattenSeq([i \in DOMAIN outcomes |-> outcomes[i].v]))

Nothing == Atom(None)
(* _resolve_places_recursive. Recursive descent skips the descendants on which
   the rest of the selector fails; a wildcard fails with any of its children. *)
RECURSIVE PlacesFrom(_, _, _, _)
PlacesFrom(cur, owner, path, rest) ==
  IF rest = <<>> THEN IF path = <<>> THEN Hard ELSE DirectPlace(owner, path, cur, FALSE)
  ELSE LET s == Head(rest)
           to == Step(cur, s)
           below == Append(path, s)
       IN CASE s.t \in {"field", "key", "index"} /\ to.ok ->
                 PlacesFrom(to.v, cur, below, Tail(rest))
            [] s.t = "field" /\ ~to.ok /\ Len(rest) = 1 /\ Declared(cur, s) ->
                 DirectPlace(cur, below, Nothing, TRUE)
            [] s.t = "slice" /\ to.ok /\ Len(rest) = 1 -> SlicePlace(cur, below, to.v)
            [] s.t = "wild" ->
                 Joined([i \in DOMAIN Children(cur) |->
                   PlacesFrom(Children(cur)[i][2], cur, Append(path, Children(cur)[i][1]),
                              Tail(rest))])
            [] s.t = "deep" ->
                 LET all == Descendants(cur, path)
                     found == [i \in DOMAIN all |->
                                 PlacesFrom(all[i].v, all[i].owner, all[i].path, Tail(rest))]
                 IN Joined(SelectSeq(found, LAMBDA o : o.ok \/ o.hard))
            [] OTHER -> Fail
ResolvePlaces(root, selector) ==
  IF selector = <<>> THEN Hard ELSE PlacesFrom(root, Nothing, <<>>, selector)

(* ------------------------------------------------------- try, then write *)
(* A strategy's preflight; FieldSetter.commit repeats it. *)
Preflight(p) ==
  /\ p.strategy \notin {"readonly", "virtual"}
  /\ p.strategy = "slice" => p.owner.k = "list"
  /\ p.missing \/ Step(p.owner, Final(p.path)).ok
AllWritable(places, new) ==
  /\ places.ok /\ places.v # <<>>
  /\ \A i \in DOMAIN places.v : places.v[i].tp = places.v[1].tp /\ Preflight(places.v[i])
  /\ places.v[1].tp # None => Accepts(places.v[1].tp, new)
CanSetf(root, selector, new) == AllWritable(ResolvePlaces(root, selector), new)

(* _rebuild_owner: copies of the values on the path, each around the next. *)
RECURSIVE Rebuild(_, _, _)
Rebuild(v, path, new) ==
  IF path = <<>> THEN Ok(new)
  ELSE LET child == Step(v, Head(path))
           inner == IF child.ok THEN Rebuild(child.v, Tail(path), new) ELSE Fail
       IN IF inner.ok THEN Replace(v, Head(path), inner.v) ELSE Fail

(* One turn of setf_root's loop: the place is resolved anew on the root with
   what the places before it have become. *)
Around(root, path, owner) == IF owner.ok THEN Rebuild(root, path, owner.v) ELSE Fail
Write(root, place, owner, new) ==
  Around(root, Above(place.path), Replace(owner, Final(place.path), new))
CommitAt(root, place, fresh, new) ==
  IF fresh.ok /\ Len(fresh.v) = 1 /\ Preflight(fresh.v[1])
  THEN Write(root, place, fresh.v[1].owner, new) ELSE Fail
CommitStale(root, place, new) == Write(root, place, place.owner, new)
Commit(root, place, new) == CommitAt(root, place, ResolvePlaces(root, place.path), new)
CommitAll(root, places, new) ==
  IF AllWritable(places, new)
  THEN FoldLeft(LAMBDA o, p : IF o.ok THEN Commit(o.v, p, new) ELSE o, Ok(root), places.v)
  ELSE Fail
SetfRoot(root, selector, new) == CommitAll(root, ResolvePlaces(root, selector), new)

(* --------------------------------------------------------------- anchors *)
(* An anchor names an entry of the registry and what remains of the label; the
   aggregate views are not writable. An empty rest replaces the root. *)
PreflightAnchor(registry, anchor, new) ==
  /\ anchor.writable
  /\ IF anchor.rest = <<>>
     THEN registry[anchor.key].tp # None => Accepts(registry[anchor.key].tp, new)
     ELSE CanSetf(registry[anchor.key], anchor.rest, new)
Assigned(root, anchor, new) ==
  IF anchor.rest = <<>> THEN Ok(new) ELSE SetfRoot(root, anchor.rest, new)
Set(done, key, updated) ==
  IF updated.ok THEN [done EXCEPT !.registry[key] = updated.v] ELSE [done EXCEPT !.ok = FALSE]
WriteAnchor(done, anchor, new) ==
  IF done.ok THEN Set(done, anchor.key, Assigned(done.registry[anchor.key], anchor, new))
  ELSE done
SetfOneByOne(registry, anchors, new) ==
  FoldLeft(LAMBDA done, anchor :
             IF done.ok /\ PreflightAnchor(done.registry, anchor, new)
             THEN WriteAnchor(done, anchor, new) ELSE [done EXCEPT !.ok = FALSE],
           [ok |-> TRUE, registry |-> registry], anchors)
Setf(registry, anchors, new) ==
  IF anchors = <<>> \/ \E i \in DOMAIN anchors : ~PreflightAnchor(registry, anchors[i], new)
  THEN [ok |-> FALSE, registry |-> registry]
  ELSE FoldLeft(LAMBDA done, anchor : WriteAnchor(done, anchor, new),
                [ok |-> TRUE, registry |-> registry], anchors)

(* ------------------------------------------------------------- properties *)
RECURSIVE Same(_, _)
Same(v, w) == /\ v.k = w.k /\ v.a = w.a /\ DOMAIN v.kids = DOMAIN w.kids
              /\ \A c \in DOMAIN v.kids : Same(v.kids[c], w.kids[c])
RECURSIVE Read(_, _)
Read(v, path) == IF path = <<>> THEN Ok(v)
                 ELSE IF Step(v, Head(path)).ok THEN Read(Step(v, Head(path)).v, Tail(path))
                 ELSE Fail
Nested(places) == \E i, j \in DOMAIN places :
                    Len(places[i].path) < Len(places[j].path)
                    /\ IsPrefix(places[i].path, places[j].path)
Frozen(root, places) == \E i \in DOMAIN places : \E n \in 0..Len(places[i].path) - 1 :
                          LET above == Read(root, SubSeq(places[i].path, 1, n))
                          IN above.ok /\ above.v.k = "tuple"
(* A key is also a field of its dict, and an index may count from the end. *)
Plain(root, path) ==
  [i \in DOMAIN path |->
     CASE path[i].t = "key" -> Field(path[i].n)
       [] path[i].t = "index" -> Index(At(Read(root, SubSeq(path, 1, i - 1)).v, path[i].i) - 1)
       [] OTHER -> path[i]]
(* The values that no place is at, in or around. *)
Apart(root, places) ==
  {d \in Range(Descendants(root, <<>>)) :
     \A i \in DOMAIN places :
       LET path == places[i].path
           at == IF Final(path).t = "slice" THEN Plain(root, Above(path)) ELSE Plain(root, path)
       IN ~IsPrefix(at, Plain(root, d.path)) /\ ~IsPrefix(Plain(root, d.path), at)}

(* An assignment that succeeds is exact, whatever the selector: every place it
   resolved reads back the new value, in a slice each element does, and what no
   place is at, in or around is what it was. (When a place lies inside another,
   which recursive descent can produce, the inner one is written into the new
   value itself, and only then may the outer one read back something else.) *)
EditIsExact(root, selector, new) ==
  LET ReadsBack(place, now) ==
        IF place.strategy = "slice" THEN \A j \in DOMAIN now.kids : Same(now.kids[j], new)
        ELSE Same(now, new)
      Unchanged(d, now) == now.ok /\ Same(now.v, d.v)
      Exact(places, after) ==
        after.ok => /\ Nested(places) \/ \A i \in DOMAIN places :
                                           ReadsBack(places[i], Read(after.v, places[i].path).v)
                    /\ \A d \in Apart(root, places) : Unchanged(d, Read(after.v, d.path))
  IN Exact(ResolvePlaces(root, selector).v, SetfRoot(root, selector, new))

(* A setf that fails has written nothing, though a label may stand for several
   anchors: all of them are tried before the first is written. It can fail after
   that only where trying is not enough, on a tuple that a path goes through and
   on a place inside another one. *)
FailedSetfWritesNothing(registry, anchors, new) ==
  LET AreDoubtful(root, places) ==
        places.ok /\ (Nested(places.v) \/ Frozen(root, places.v))
      Doubtful(anchor) ==
        anchor.rest # <<>>
        /\ AreDoubtful(registry[anchor.key], ResolvePlaces(registry[anchor.key], anchor.rest))
      Untouched(done) ==
        done.ok \/ \A key \in DOMAIN registry : Same(done.registry[key], registry[key])
  IN (\A i \in DOMAIN anchors : ~Doubtful(anchors[i])) => Untouched(Setf(registry, anchors, new))
================================================================================
