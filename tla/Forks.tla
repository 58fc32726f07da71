-------------------------------- MODULE Forks --------------------------------
(***************************************************************************)
(* How a request's workspace is cloned from the baseline: the module       *)
(* globals (_clone_module_globals_for_host), then the registry, the        *)
(* methods and the injections (Evaluator.fork), and the attributes of the  *)
(* workspace (Workspace.fork_request).                                     *)
(*                                                                         *)
(* A heap is a sequence of objects [kind, side, kids].  Kinds:             *)
(*   record  a Struct or a dataclass, frozen                               *)
(*   dict    a dict, a list or a set, which can be changed in place        *)
(*   tuple   a tuple or a frozenset                                        *)
(*   fun     a function of a loaded file; side says whose globals it runs  *)
(*           in, kids what its closure and its defaults hold               *)
(*   plain   everything else, functions of the host among it               *)
(***************************************************************************)
EXTENDS Integers, Sequences, SequencesExt

Obj(kind, kids) == [kind |-> kind, side |-> "base", kids |-> kids]

(* What one pass has done: the heap, and per base object its clone so far (0: none). *)
Pass(base, h) == [h |-> h, memo |-> [x \in DOMAIN base |-> 0]]
Noted(st, x, y) == [st EXCEPT !.memo[x] = y]

RECURSIVE Clone(_, _)
(* The clones of some children, in order. *)
CloneAll(st, kids) ==
  FoldLeft(LAMBDA a, k : LET c == Clone(a.st, k) IN [st |-> c.st, out |-> Append(a.out, c.v)],
           [st |-> st, out |-> <<>>], kids)

(* x is cloned as an object with these children. *)
MadeUnnoted(st, x, kids) ==
  [st |-> [st EXCEPT !.h = Append(@, [@[x] EXCEPT !.kids = kids])], v |-> Len(st.h) + 1]
Made(st, x, kids) ==
  [st |-> Noted([st EXCEPT !.h = Append(@, [@[x] EXCEPT !.kids = kids])], x, Len(st.h) + 1),
   v |-> Len(st.h) + 1]

(* A function is copied over the fork's globals; its closure is the same one. *)
RebindNever(st, x) == [st |-> st, v |-> x]
Rebind(st, x) ==
  LET y == Made(st, x, st.h[x].kids) IN [y EXCEPT !.st.h[y.v].side = "fork"]

(* While its children are cloned an immutable object stands for itself; a
   record of which no child changed is kept. *)
CloneFrozen(st, x, kids) ==
  LET c == CloneAll(Noted(st, x, x), kids) IN
  IF st.h[x].kind = "record" /\ c.out = kids THEN [st |-> c.st, v |-> x]
  ELSE Made(c.st, x, c.out)

(* A container is known before it is filled. *)
CloneFilled(st, x, kids) ==
  LET y == Made(st, x, <<>>)
      c == CloneAll(y.st, kids)
  IN [st |-> [c.st EXCEPT !.h[y.v].kids = c.out], v |-> y.v]

Clone(st, x) ==
  LET o == st.h[x] IN
  IF st.memo[x] # 0 THEN [st |-> st, v |-> st.memo[x]]
  ELSE CASE o.kind = "plain" -> [st |-> st, v |-> x]
         [] o.kind = "fun" -> Rebind(st, x)
         [] o.kind = "dict" -> CloneFilled(st, x, o.kids)
         [] o.kind \in {"record", "tuple"} -> CloneFrozen(st, x, o.kids)

RECURSIVE Copy(_, _)
(* The attributes are copied without a memo, and functions as they are. *)
Copy(h, x) ==
  LET o == h[x]
      c == FoldLeft(LAMBDA a, k : LET y == Copy(a.h, k) IN [h |-> y.h, out |-> Append(a.out, y.v)],
                    [h |-> h, out |-> <<>>], o.kids)
  IN IF o.kind \in {"plain", "fun"} \/ (o.kind = "record" /\ c.out = o.kids) THEN [h |-> h, v |-> x]
     ELSE [h |-> Append(c.h, [o EXCEPT !.kids = c.out]), v |-> Len(c.h) + 1]

(* The modules' globals are one pass, the registry and the rest another. *)
CloneGlobals(base, globals) == CloneAll(Pass(base, base), globals)
CloneRegistry(base, h, registry) == CloneAll(Pass(base, h), registry)
Fork(base, globals, registry) ==
  LET m == CloneGlobals(base, globals)
      r == CloneRegistry(base, m.st.h, registry)
  IN [h |-> r.st.h, globals |-> m.out, registry |-> r.out]

(* --------------------------------------------------------------- properties *)
(* What code that holds an object can change or call: not what a closure holds. *)
Seen(h, x) == IF h[x].kind = "fun" THEN {} ELSE {h[x].kids[i] : i \in DOMAIN h[x].kids}
RECURSIVE Reached(_, _)
Reached(h, S) ==
  LET T == S \union UNION {Seen(h, x) : x \in S} IN IF T = S THEN S ELSE Reached(h, T)
OnCycle(h, x) == x \in Reached(h, Seen(h, x))
ReachesCycle(h, x) == \E y \in Reached(h, {x}) : OnCycle(h, y)
Elements(s) == {s[i] : i \in DOMAIN s}

(* What a fork's own objects take over from the base is of none of these kinds,
   and nothing below it is, unless it leads into a cycle: there a record is met
   while it is being cloned, and stands for itself. *)
SharesNo(kinds, base, h, roots) ==
  \A x \in DOMAIN base \intersect
           (roots \union UNION {Seen(h, y) : y \in Reached(h, roots) \ DOMAIN base}) :
    /\ base[x].kind \notin kinds
    /\ ReachesCycle(base, x) \/ \A y \in Reached(base, {x}) : base[y].kind \notin kinds

RECURSIVE Pairs(_, _, _)
(* Objects and their clones that the same path leads to. *)
Pairs(base, h, S) ==
  LET T == S \union UNION {IF base[p[1]].kind = "fun" THEN {}
                           ELSE {<<base[p[1]].kids[i], h[p[2]].kids[i]>> : i \in DOMAIN base[p[1]].kids}
                             : p \in S}
  IN IF T = S THEN S ELSE Pairs(base, h, T)

(* The clones have the shape of what they are clones of: no two objects have one
   clone, and no object has two in a pass. *)
KeepsShape(base, h, from, to) ==
  LET ps == Pairs(base, h, {<<from[i], to[i]>> : i \in DOMAIN from}) IN
  \A p \in ps :
    /\ base[p[1]].kind = h[p[2]].kind
    /\ Len(base[p[1]].kids) = Len(h[p[2]].kids)
    /\ \A q \in ps : /\ p[2] = q[2] => p[1] = q[1]
                     /\ p[1] = q[1] /\ {p[2], q[2]} \intersect DOMAIN base = {} => p[2] = q[2]

(* A request changes nothing of the workspace it was forked from: its globals and
   its registry share no container with the base's and no function that runs over
   the base's globals, its attributes no container; nothing was merged on the way. *)
ForkIsOwn(base, globals, registry, attribute) ==
  LET f == Fork(base, globals, registry) IN
  /\ \A x \in DOMAIN base : f.h[x] = base[x]
  /\ SharesNo({"dict", "fun"}, base, f.h, Elements(f.globals) \union Elements(f.registry))
  /\ KeepsShape(base, f.h, globals, f.globals)
  /\ KeepsShape(base, f.h, registry, f.registry)
  /\ ~ReachesCycle(base, attribute) =>
       LET c == Copy(base, attribute) IN SharesNo({"dict"}, base, c.h, {c.v})
===============================================================================
