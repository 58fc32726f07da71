----------------------------- MODULE Requests ------------------------------
(***************************************************************************)
(* What a request sees of a workspace: the layers of a value's inline      *)
(* payload (DEFAULT < CONFIG < COMMAND_LINE, mlody/resolver/resolver.py),  *)
(* the fork that keeps one request's overrides from the others             *)
(* (Workspace.fork_request, Evaluator.fork), the task context that every   *)
(* fork refreshes, the multimethod dispatcher that all forks share         *)
(* (mlody/common/mm_namespace.py), and the lineage rows that every         *)
(* assignment adds to one database (mlody/core/lineage.py).                *)
(*                                                                         *)
(* Values have inline locations, so a value's hash is that of its payload. *)
(* Payloads are numbers; a command-line text q means q * Factor[label] in  *)
(* the unit of the label it is assigned to.                                *)
(***************************************************************************)
EXTENDS Integers, FiniteSets, Sequences, SequencesExt

CONSTANTS
  Request,    \* the threads
  Version,    \* the workspaces, by commit
  Label,      \* the values
  NoData,     \* a location without a payload
  None,
  Own,        \* version -> label -> the payload written in the .mlody file
  Default,    \* version -> label -> the default
  Rules,      \* version -> label -> <<payload>>: its config rules, in order
  CtxRule,    \* version -> the ctx fields a config rule sets
  Factor,     \* label -> what one of its unit is
  Asks        \* what requests ask: [user, with], with a list of
              \* [refs, text], refs the labels that the override expands to

\* None is nobody, no number is NoData, and an override reaches something: one
\* whose label expands to nothing fails its request (apply_request_overrides).
ASSUME RequestConstants ==
  /\ None \notin Request /\ NoData \notin Int /\ Factor \in [Label -> Int]
  /\ \A v \in Version, l \in Label : Rules[v][l] \in Seq(Range(Rules[v][l]))
  /\ \A ask \in Asks : ask.with \in Seq([refs : Seq(Label) \ {<<>>}, text : Int])

Field == {"user", "commit"}

VARIABLES
  base,       \* version -> [built, data, ctx, default]
  req,        \* request -> [at, ver, user, with, data, ctx, default]
  pos,        \* request -> [i, j, value]: the override, the ref, its value
  rows,       \* label -> its rows of lineage_events, in created_at order
  lost,       \* history: the labels that some row was not written for
  dispatch,   \* version -> whose methods mm dispatches to: a request or None
  methods,    \* request -> its fork registered a method after the fork
  met,        \* request -> another one ran in its workspace meanwhile
  found       \* request -> what a call of that method met: "none" before

requestsVars == <<base, req, pos, rows, lost, dispatch, methods, met, found>>

Nobody == [at |-> "new", ver |-> None, user |-> None, with |-> <<>>,
           data |-> <<>>, ctx |-> <<>>, default |-> <<>>]

RequestsInit ==
  /\ base = [v \in Version |-> [built |-> FALSE, data |-> <<>>, ctx |-> <<>>, default |-> <<>>]]
  /\ req = [r \in Request |-> Nobody]
  /\ pos = [r \in Request |-> [i |-> 1, j |-> 1, value |-> NoData]]
  /\ rows = [l \in Label |-> <<>>] /\ lost = {}
  /\ dispatch = [v \in Version |-> None]
  /\ methods = [r \in Request |-> FALSE]
  /\ met = [r \in Request |-> FALSE]
  /\ found = [r \in Request |-> "none"]

----------------------------------------------------------------------------
(* Lineage *)

Row(new, src, prev) == [hash |-> new, source |-> src, prev |-> prev]

\* INSERT OR IGNORE: a row that is there already keeps its place in time.
Insert(rs, new) ==
  LET upto[i \in 0..Len(new)] ==
        IF i = 0 THEN rs
        ELSE IF new[i] \in Range(upto[i - 1]) THEN upto[i - 1]
        ELSE Append(upto[i - 1], new[i])
  IN upto[Len(new)]

Events(rs, h) == {i \in DOMAIN rs : rs[i].hash = h}
Newest(rs, h) == rs[CHOOSE i \in Events(rs, h) : \A j \in Events(rs, h) : j <= i]

\* materialized_lineage: the sources, oldest first, from the current hash back
\* by previous_owner_hash, until a hash comes again or has no row.
Walk(rs, h) ==
  LET walk[n \in 0..Len(rs)] ==
        IF n = 0 THEN [hash |-> h, seen |-> {}, out |-> <<>>]
        ELSE LET w == walk[n - 1]
             IN IF w.hash \in w.seen \/ Events(rs, w.hash) = {} THEN w
                ELSE LET e == Newest(rs, w.hash)
                     IN [hash |-> e.prev, seen |-> w.seen \cup {w.hash},
                         out |-> <<e.source>> \o w.out]
  IN walk[Len(rs)].out

\* The previous owner is the object before the assignment ...
PreviousAfter(before, after) == after
Previous(before, after) == before

----------------------------------------------------------------------------
(* build_baseline_workspace: defaults, then the config rules in their order *)

DefaultApplies(v, l) == Own[v][l] = NoData /\ Default[v][l] # NoData

Layers(v, l) ==
  (IF DefaultApplies(v, l)
   THEN <<[source |-> <<"DEFAULT", v>>, payload |-> Default[v][l]]>> ELSE <<>>) \o
  [i \in DOMAIN Rules[v][l] |-> [source |-> <<"CONFIG", v>>, payload |-> Rules[v][l][i]]]

\* The payload of l after its first n layers.
After(v, l, n) == IF n = 0 THEN Own[v][l] ELSE Layers(v, l)[n].payload

BaseRows(v, l) ==
  [n \in DOMAIN Layers(v, l) |->
     Row(After(v, l, n), Layers(v, l)[n].source,
         Previous(After(v, l, n - 1), After(v, l, n)))]

FreshCtx(v, u) == [f \in Field |-> IF f = "user" THEN u ELSE v]
Configured(v) == [f \in Field |-> IF f \in DOMAIN CtxRule[v] THEN CtxRule[v][f]
                                  ELSE FreshCtx(v, None)[f]]

\* new is label -> the rows to write; the database may refuse those of a label.
Write(new) ==
  \E refused \in SUBSET {l \in Label : new[l] # <<>>} :
    /\ rows' = [l \in Label |-> IF l \in refused THEN rows[l] ELSE Insert(rows[l], new[l])]
    /\ lost' = lost \cup refused

Build(v) ==
  /\ ~base[v].built
  /\ base' = [base EXCEPT ![v] =
       [built |-> TRUE,
        data |-> [l \in Label |-> After(v, l, Len(Layers(v, l)))],
        ctx |-> Configured(v), default |-> FreshCtx(v, None)]]
  /\ Write([l \in Label |-> BaseRows(v, l)])
  /\ UNCHANGED <<req, pos, dispatch, methods, met, found>>

----------------------------------------------------------------------------
(* apply_workspace_user and configure_workspace *)

\* Of a ctx field, what the request's context says, unless it was set.
RefreshNever(prev, cur, fresh) == cur
Refresh(prev, cur, fresh) == IF cur = prev THEN fresh ELSE cur

Active(r) == req[r].at \in {"with", "ready"}
Peers(r, v) == {p \in Request \ {r} : Active(p) /\ req[p].ver = v}

\* Installing a sandbox's bindings makes mm dispatch to its evaluator.
BindFirst(v, r) == dispatch' = [dispatch EXCEPT ![v] = IF @ = None THEN r ELSE @]
Bind(v, r) == dispatch' = [dispatch EXCEPT ![v] = r]

Fork(r) ==
  /\ req[r].at = "new"
  /\ \E v \in Version, ask \in Asks :
       /\ base[v].built
       /\ LET b == base[v] IN
          req' = [req EXCEPT ![r] =
            [at |-> "with", ver |-> v, user |-> ask.user, with |-> ask.with, data |-> b.data,
             ctx |-> [f \in Field |-> Refresh(b.default[f], b.ctx[f], FreshCtx(v, ask.user)[f])],
             default |-> FreshCtx(v, ask.user)]]
       /\ Bind(v, r)
       /\ met' = [p \in Request |-> IF p \in Peers(r, v) \/ (p = r /\ Peers(r, v) # {})
                                    THEN TRUE ELSE met[p]]
  /\ UNCHANGED <<base, pos, rows, lost, methods, found>>

\* The text becomes a quantity at the first ref of the override, and the loop
\* keeps that value for the refs that follow.
Meant(l, text) == text * Factor[l]
Value(r, l) == IF pos[r].value = NoData THEN Meant(l, req[r].with[pos[r].i].text)
               ELSE pos[r].value

More(r) == pos[r].i <= Len(req[r].with)
Ref(r) == req[r].with[pos[r].i].refs[pos[r].j]

Advance(r, x) ==
  pos' = [pos EXCEPT ![r] =
    IF @.j < Len(req[r].with[@.i].refs)
    THEN [i |-> @.i, j |-> @.j + 1, value |-> x]
    ELSE [i |-> @.i + 1, j |-> 1, value |-> NoData]]

\* setf writes the fork's registry, never the baseline's.
AssignInBase(r, l, x) ==
  /\ base' = [base EXCEPT ![req[r].ver].data[l] = x]
  /\ req' = [req EXCEPT ![r].data[l] = x]
Assign(r, l, x) ==
  /\ req' = [req EXCEPT ![r].data[l] = x]
  /\ UNCHANGED base

Override(r) ==
  /\ req[r].at = "with" /\ More(r)
  /\ LET l == Ref(r)
         x == Value(r, l)
     IN /\ Assign(r, l, x)
        /\ Write([k \in Label |-> IF k # l THEN <<>>
                  ELSE <<Row(x, <<"COMMAND_LINE", req[r].with[pos[r].i].text>>,
                             Previous(req[r].data[l], x))>>])
        /\ Advance(r, x)
  /\ UNCHANGED <<dispatch, methods, met, found>>

\* The type refuses the value: the request fails, its earlier rows stay.
Refuse(r) ==
  /\ req[r].at = "with" /\ More(r)
  /\ req' = [req EXCEPT ![r].at = "failed"]
  /\ UNCHANGED <<base, pos, rows, lost, dispatch, methods, met, found>>

Ready(r) ==
  /\ req[r].at = "with" /\ ~More(r)
  /\ req' = [req EXCEPT ![r].at = "ready"]
  /\ UNCHANGED <<base, pos, rows, lost, dispatch, methods, met, found>>

----------------------------------------------------------------------------
(* Use of the configured workspace *)

\* A label makes the request run a file that defines a method.
DefineMethod(r) ==
  /\ req[r].at = "ready" /\ ~methods[r]
  /\ methods' = [methods EXCEPT ![r] = TRUE]
  /\ Bind(req[r].ver, r)
  /\ UNCHANGED <<base, req, pos, rows, lost, met, found>>

\* dispatch_fn goes through mm, to the evaluator that was bound last.
Call(r) ==
  /\ req[r].at = "ready" /\ methods[r] /\ found[r] = "none"
  /\ LET d == dispatch[req[r].ver] IN
     found' = [found EXCEPT ![r] =
       IF d = r THEN "own" ELSE IF d # None /\ methods[d] THEN "other" ELSE "missing"]
  /\ UNCHANGED <<base, req, pos, rows, lost, dispatch, methods, met>>

End(r) ==
  /\ req[r].at = "ready"
  /\ req' = [req EXCEPT ![r].at = "done"]
  /\ UNCHANGED <<base, pos, rows, lost, dispatch, methods, met, found>>

RequestsNext ==
  \/ \E v \in Version : Build(v)
  \/ \E r \in Request :
       \/ Fork(r) \/ Override(r) \/ Refuse(r) \/ Ready(r)
       \/ DefineMethod(r) \/ Call(r) \/ End(r)

RequestsSpec == RequestsInit /\ [][RequestsNext]_requestsVars

----------------------------------------------------------------------------
Applied(r) == req[r].at \in {"ready", "done"}

\* The last override that names l, if its refs are all of one unit.
Naming(r, l) == {i \in DOMAIN req[r].with : l \in Range(req[r].with[i].refs)}
LastNaming(r, l) == CHOOSE i \in Naming(r, l) : \A j \in Naming(r, l) : j <= i
OneUnit(refs) == \A k, l \in Range(refs) : Factor[k] = Factor[l]

(* A configured request sees, of every value, what the last of its own      *)
(* overrides says, else the last config rule, else the default, whatever    *)
(* the other requests of the workspace assigned or where they failed.  (An  *)
(* override whose wildcard reaches values of two units is left out: the     *)
(* loop gives the second the magnitude it parsed for the first.)            *)
LayersHold ==
  \A r \in Request : Applied(r) => \A l \in Label :
    LET v == req[r].ver IN
    IF Naming(r, l) = {} THEN req[r].data[l] = After(v, l, Len(Layers(v, l)))
    ELSE LET w == req[r].with[LastNaming(r, l)]
         IN OneUnit(w.refs) => req[r].data[l] = Meant(l, w.text)

(* A ctx field that a config rule set keeps its value in every request; the *)
(* others are the request's own user and commit, not those of the baseline  *)
(* or of another request.  (A rule that sets a field to the value it had    *)
(* cannot be told from no rule, and is lost.)                               *)
CtxIsOwnOrConfigured ==
  \A r \in Request : Applied(r) => \A f \in Field :
    LET v == req[r].ver IN
    req[r].ctx[f] = IF f \in DOMAIN CtxRule[v] /\ CtxRule[v][f] # FreshCtx(v, None)[f]
                    THEN CtxRule[v][f] ELSE FreshCtx(v, req[r].user)[f]

\* i -> the sources of the layers of l and of the first i overrides of with
\* that name it.
History(v, with, l) ==
  LET told[i \in 0..Len(with)] ==
        IF i = 0 THEN [n \in DOMAIN Layers(v, l) |-> Layers(v, l)[n].source]
        ELSE IF l \in Range(with[i].refs)
             THEN Append(told[i - 1], <<"COMMAND_LINE", with[i].text>>)
             ELSE told[i - 1]
  IN told

\* Two rows give l the same payload, or one gives it the one of its file.
Collision(l, own) == \E a \in Range(rows[l]) :
  a.hash = own \/ \E b \in Range(rows[l]) : a # b /\ a.hash = b.hash

(* The lineage of a value, read back from the database by its payload's     *)
(* hash, is the list of the assignments that the request made or inherited, *)
(* through every layer, whatever rows the other requests and commits add:   *)
(* unless a row of the value could not be written, or two assignments of    *)
(* it, of any request or commit, had one payload, or one had the payload    *)
(* that its file gives it, from where a walk would go on into another's     *)
(* history.                                                                 *)
LineageIsOwnHistory ==
  \A r \in Request : Applied(r) => \A l \in Label :
    LET v == req[r].ver IN
    l \notin lost /\ ~Collision(l, Own[v][l]) =>
      Walk(rows[l], req[r].data[l]) = History(v, req[r].with, l)[Len(req[r].with)]

(* A request that has its workspace to itself dispatches to the methods of  *)
(* its own fork, though the dispatcher belongs to all the forks and other   *)
(* requests were bound to it before.                                        *)
LoneDispatchIsOwn ==
  \A r \in Request : found[r] \in {"missing", "other"} => met[r]
=============================================================================
