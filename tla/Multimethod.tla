----------------------------- MODULE Multimethod -----------------------------
(* Dispatch on patterns (src/mlody/core/multimethod.py) and the unification that
   supplies a method's captures (core/unification.py), two recursions over the
   same patterns that have to agree. A term is a record with a kind; the fields
   of a struct, and those in its attributes, are one function. *)
EXTENDS Naturals, Sequences, SequencesExt, FiniteSets, TLC

Absent == [kind |-> "none"]              \* Python's None
Str(s) == [kind |-> "str", text |-> s]
Label(n) == [kind |-> "label", name |-> n]            \* the string ":n"
Thing(k, n, fs) == [kind |-> k, name |-> n, fields |-> fs]
Posix(path) == [kind |-> "location", name |-> "posix", path |-> path]

ANY == [kind |-> "mm_any"]
Var(x) == [kind |-> "mm_var_pattern", var |-> x]
Literal(v) == [kind |-> "mm_literal_pattern", value |-> v]
Or(ps) == [kind |-> "mm_or_pattern", patterns |-> ps]
Scalar(n) == [kind |-> "mm_scalar_pattern", name |-> n]
Repr(n) == [kind |-> "mm_repr_pattern", name |-> n]
PosixGlob(g) == [kind |-> "mm_posix_pattern", glob |-> g]
Entity(k, n, fps) == [kind |-> "mm_entity_pattern", of |-> k, name |-> n, fields |-> fps]
(* What rule() registers: a field that is not passed becomes a variable. *)
Constructed(k, n, attrs, kwargs) ==
  Entity(k, n, [i \in DOMAIN attrs |->
    <<attrs[i], IF attrs[i] \in DOMAIN kwargs THEN kwargs[attrs[i]] ELSE Var(attrs[i])>>])

IsPattern(t) == t.kind \in
  {"mm_any", "mm_var_pattern", "mm_literal_pattern", "mm_or_pattern", "mm_scalar_pattern",
   "mm_repr_pattern", "mm_posix_pattern", "mm_entity_pattern"}
IsStruct(t, k) == t.kind = k
FieldOf(t, f) == IF "fields" \in DOMAIN t /\ ~IsPattern(t) /\ f \in DOMAIN t.fields
                 THEN t.fields[f] ELSE Absent
NameOf(t) == IF "name" \in DOMAIN t THEN t.name ELSE ""

(* ------------------------------------------------------------------- scores *)
(* "*" stands for a segment, "**" for at least one; a path is its segments. *)
RECURSIVE GlobMatches(_, _)
GlobMatches(g, path) ==
  IF g = <<>> THEN path = <<>>
  ELSE /\ path # <<>>
       /\ \/ Head(g) \in {Head(path), "*"} /\ GlobMatches(Tail(g), Tail(path))
          \/ Head(g) = "**" /\ \E n \in 1..Len(path) :
                GlobMatches(Tail(g), SubSeq(path, n + 1, Len(path)))
GlobRank(g) == IF Contains(g, "**") THEN 1 ELSE IF Contains(g, "*") THEN 2 ELSE 3

No == 0    \* no match; every match scores at least 1
Sum(s) == FoldLeft(LAMBDA n, m : n + m, 0, s)
RECURSIVE Score(_, _)
EntityScoreOfFields(p, a) ==
  LET subs == [i \in DOMAIN p.fields |-> Score(p.fields[i][2], FieldOf(a, p.fields[i][1]))]
  IN IF IsStruct(a, p.of) /\ p.name \in {"", NameOf(a)} /\ ~ Contains(subs, No)
     THEN Sum(subs) ELSE No
EntityScore(p, a) ==
  LET subs == [i \in DOMAIN p.fields |-> Score(p.fields[i][2], FieldOf(a, p.fields[i][1]))]
  IN IF IsStruct(a, p.of) /\ p.name \in {"", NameOf(a)} /\ ~ Contains(subs, No)
     THEN 3 + Sum(subs) ELSE No
Score(p, a) ==
  CASE p.kind \in {"mm_any", "mm_var_pattern"} -> 1
    [] p.kind = "str" -> IF a = p THEN 2 ELSE No
    [] p.kind = "mm_literal_pattern" -> IF a = p.value THEN 2 ELSE No
    [] p.kind = "mm_scalar_pattern" ->
         IF a.kind \in {"type", "label"} /\ NameOf(a) = p.name THEN 3 ELSE No
    [] p.kind = "mm_repr_pattern" ->
         IF IsStruct(a, "representation") /\ NameOf(a) = p.name THEN 3 ELSE No
    [] p.kind = "mm_posix_pattern" ->
         IF IsStruct(a, "location") /\ a.name = "posix" /\ GlobMatches(p.glob, a.path)
         THEN GlobRank(p.glob) ELSE No
    [] p.kind = "mm_or_pattern" ->
         FoldLeft(LAMBDA n, m : IF m > n THEN m ELSE n, No,
                  [i \in DOMAIN p.patterns |-> Score(p.patterns[i], a)])
    [] p.kind = "mm_entity_pattern" -> EntityScore(p, a)
    [] OTHER -> No

(* The methods of a generic, in the order of their registration, are sequences
   of patterns; the winner is the first of those with the highest total. *)
MethodScore(m, args) ==
  LET subs == [i \in DOMAIN m |-> Score(m[i], args[i])]
  IN IF Len(m) = Len(args) /\ ~ Contains(subs, No) THEN Sum(subs) ELSE No
Dispatch(methods, args) ==
  FoldLeft(LAMBDA best, i :
             LET s == MethodScore(methods[i], args) IN
             IF s # No /\ (best = 0 \/ s > MethodScore(methods[best], args)) THEN i ELSE best,
           0, [i \in DOMAIN methods |-> i])

(* -------------------------------------------------------------- unification *)
(* Bindings, or Failure; a name that is bound keeps its value. *)
Failure == [failure |-> TRUE]
Empty == <<>>
BindLabel(x, v, b) == IF x \notin DOMAIN b THEN (x :> Str(x)) @@ b ELSE b
Bind(x, v, b) ==
  IF x \notin DOMAIN b THEN (x :> v) @@ b ELSE IF b[x] = v THEN b ELSE Failure

RECURSIVE Unify(_, _, _)
UnifyOr(p, a, b) ==
  FoldLeft(LAMBDA r, q : IF r # Failure THEN r ELSE Unify(q, a, b), Failure, p.patterns)
Test(holds, b) == IF holds THEN b ELSE Failure
(* A field that is absent binds no variable; ANY in a field binds its name. *)
UnifyField(fp, a, b) ==
  LET v == FieldOf(a, fp[1]) IN
  CASE b = Failure -> Failure
    [] v = Absent /\ fp[2].kind \in {"mm_var_pattern", "mm_any"} -> b
    [] IsStruct(fp[2], "mm_any") -> Bind(fp[1], v, b)
    [] OTHER -> Unify(fp[2], v, b)
UnifyEntity(p, a, b) ==
  IF IsStruct(a, p.of) /\ p.name \in {"", NameOf(a)}
  THEN FoldLeft(LAMBDA r, fp : UnifyField(fp, a, r), b, p.fields)
  ELSE Failure
UnifyEntities(p, q, b) ==
  IF p.of # q.of \/ p.name # q.name THEN Failure
  ELSE FoldLeft(LAMBDA r, fp :
         IF r = Failure THEN Failure
         ELSE LET js == {j \in DOMAIN q.fields : q.fields[j][1] = fp[1]}
              IN IF js = {} THEN r ELSE Unify(fp[2], q.fields[CHOOSE j \in js : TRUE][2], r),
         b, p.fields)
(* The two sides are looked at in the order in which the code looks at them. *)
Unify(p, q, b) ==
  CASE IsStruct(p, "mm_any") \/ IsStruct(q, "mm_any") -> b
    [] IsStruct(p, "mm_var_pattern") -> Bind(p.var, q, b)
    [] IsStruct(q, "mm_var_pattern") -> Bind(q.var, p, b)
    [] ~IsPattern(p) /\ ~IsPattern(q) -> Test(p = q, b)
    [] IsStruct(p, "mm_literal_pattern") -> Test(p.value = q, b)
    [] IsStruct(q, "mm_literal_pattern") -> Test(q.value = p, b)
    [] IsStruct(p, "mm_or_pattern") -> UnifyOr(p, q, b)
    [] IsStruct(q, "mm_or_pattern") -> UnifyOr(q, p, b)
    [] IsStruct(p, "mm_scalar_pattern") -> Test(IsStruct(q, "type") /\ NameOf(q) = p.name, b)
    [] IsStruct(q, "mm_scalar_pattern") -> Test(IsStruct(p, "type") /\ NameOf(p) = q.name, b)
    [] IsStruct(p, "mm_repr_pattern") -> Test(IsStruct(q, "representation") /\ NameOf(q) = p.name, b)
    [] IsStruct(q, "mm_repr_pattern") -> Test(IsStruct(p, "representation") /\ NameOf(p) = q.name, b)
    [] IsStruct(p, "mm_entity_pattern") /\ IsStruct(q, "mm_entity_pattern") -> UnifyEntities(p, q, b)
    [] IsStruct(p, "mm_entity_pattern") -> UnifyEntity(p, q, b)
    [] IsStruct(q, "mm_entity_pattern") -> UnifyEntity(q, p, b)
    [] OTHER -> Test(p = q, b)

(* --------------------------------------------------------------- properties *)
RECURSIVE Parts(_)
(* A pattern and the patterns inside it, in the order of reading. *)
Parts(p) ==
  CASE p.kind = "mm_or_pattern" ->
         <<p>> \o FlattenSeq([i \in DOMAIN p.patterns |-> Parts(p.patterns[i])])
    [] p.kind = "mm_entity_pattern" ->
         <<p>> \o FlattenSeq([i \in DOMAIN p.fields |-> Parts(p.fields[i][2])])
    [] OTHER -> <<p>>
Has(p, kind) == \E i \in DOMAIN Parts(p) : Parts(p)[i].kind = kind
NamesAVarTwice(p) ==
  LET vars == SelectSeq(Parts(p), LAMBDA q : q.kind = "mm_var_pattern") IN
  Cardinality({vars[i] : i \in DOMAIN vars}) < Len(vars)

RECURSIVE Readings(_, _)
(* What a pattern captures of a term, in every way in which it can be read. *)
Readings(p, a) ==
  CASE p.kind = "mm_any" -> {Empty}
    [] p.kind = "mm_var_pattern" -> {p.var :> a}
    [] p.kind = "mm_or_pattern" -> UNION {Readings(p.patterns[i], a) : i \in DOMAIN p.patterns}
    [] p.kind = "mm_entity_pattern" ->
         IF ~IsStruct(a, p.of) \/ p.name \notin {"", NameOf(a)} THEN {}
         ELSE FoldLeft(LAMBDA rs, fp :
                LET v == FieldOf(a, fp[1])
                    here == IF v = Absent /\ fp[2].kind \in {"mm_var_pattern", "mm_any"} THEN {Empty}
                            ELSE IF fp[2].kind = "mm_any" THEN {fp[1] :> v} ELSE Readings(fp[2], v)
                IN {r @@ h : r \in rs, h \in here}, {Empty}, p.fields)
    [] OTHER -> IF Score(p, a) # No THEN {Empty} ELSE {}

(* Of two methods without alternatives, one that takes strictly fewer of the
   terms than the other wins all of these when it was registered before it. *)
NarrowerWins(p, q, terms) ==
  LET takes(r) == {a \in terms : Score(r, a) # No} IN
  ~Has(p, "mm_or_pattern") /\ ~Has(q, "mm_or_pattern")
    /\ takes(p) \subseteq takes(q) /\ takes(p) # takes(q)
  => \A a \in takes(p) : Dispatch(<< <<p>>, <<q>> >>, <<a>>) = 1

RECURSIVE HasLabel(_)
HasLabel(a) ==
  \/ a.kind = "label"
  \/ "fields" \in DOMAIN a /\ \E f \in DOMAIN a.fields : HasLabel(a.fields[f])

(* A pattern without paths that names no variable twice matches a term exactly
   when it unifies with it, and the captures are those of one way to read it;
   an unresolved label matches a scalar and unifies with none. *)
CapturesFollowMatch(p, a) ==
  ~Has(p, "mm_posix_pattern") /\ ~NamesAVarTwice(p) /\ ~HasLabel(a) =>
    LET b == Unify(p, a, Empty) IN
    /\ (Score(p, a) # No) = (b # Failure)
    /\ b # Failure => b \in Readings(p, a)

(* Two patterns that unify match a term in common. *)
UnifiedMeet(p, q, terms) ==
  ~NamesAVarTwice(p) /\ ~NamesAVarTwice(q) /\ Unify(p, q, Empty) # Failure =>
    \E a \in terms : Score(p, a) # No /\ Score(q, a) # No
===============================================================================
