------------------------------- MODULE MCLookup --------------------------------
(* Three files and one that a load skips; a root whose path begins another
   folder's name, one whose path is empty, and one without a path. A file in that
   other folder is written, below the first root, like the third file. *)
EXTENDS EntityLookup

Def(kind, name) == [kind |-> kind, name |-> name]
MCTokens == {"team", "s", "a", "out", "/"}
TeamA == <<"team", "/", "a">>
TeamsA == <<"team", "s", "/", "a">>
TeamSA == <<"team", "/", "s", "/", "a">>
Out == <<"out">>
MCFiles == {TeamA, TeamsA, TeamSA, Out}
MCPathRank == (Out :> 1) @@ (TeamA :> 2) @@ (TeamSA :> 3) @@ (TeamsA :> 4)
MCSkipped == {Out}
MCModules ==
  {<<Def("task", "x")>>, <<Def("action", "x"), Def("task", "x")>>,
   <<Def("value", "y"), Def("type", "x")>>, <<Def("value", "x"), Def("value", "y")>>}
(* The third file is loaded first, and has one task. *)
MCLookupNext ==
  /\ LookupNext
  /\ loaded = {} => reg' = Registered(reg, TeamSA, <<Def("task", "x")>>)
MCPlaces == [t |-> <<"team">>, all |-> <<>>]
MCRels == {<<>>, <<"team">>}
Label(root, path, name, query, wildcard) ==
  [root |-> root, path |-> path, name |-> name, query |-> query, wildcard |-> wildcard]
MCLabels ==
  {Label(r, p, n, q, w) :
     r \in {"", "t"}, p \in (MCFiles \ {TeamSA}) \union {<<"a">>, <<"team">>, <<>>},
     n \in {"x", "y", ""}, q \in {{}, {"task"}}, w \in BOOLEAN}
  \union {Label(r, TeamA, n, {}, FALSE) : r \in {"all", "bare", "nope"}, n \in {"x", ""}}
  \union {Label("all", <<"a">>, n, {"value"}, w) : n \in {"x", ""}, w \in BOOLEAN}
================================================================================
