----------------------------- MODULE MCRequests ----------------------------
(***************************************************************************)
(* Two requests, two commits that differ in a default and in the rules,    *)
(* two values of different units.  The --with lists assign one value, both *)
(* by a wildcard, one value twice, and a payload that a layer or the file  *)
(* gave before.                                                            *)
(***************************************************************************)
EXTENDS Requests

MCOwn == [v1 |-> [size |-> NoData, dist |-> 70], v2 |-> [size |-> NoData, dist |-> 70]]
MCDefault == [v1 |-> [size |-> 1, dist |-> NoData], v2 |-> [size |-> 2, dist |-> 5]]
MCRules == [v1 |-> [size |-> <<2>>, dist |-> <<8>>],
            v2 |-> [size |-> <<>>, dist |-> <<9, 6>>]]
MCCtxRule == [v1 |-> [user |-> "ops"], v2 |-> [commit |-> "pinned"]]
MCFactor == [size |-> 1, dist |-> 10]
With(refs, text) == [refs |-> refs, text |-> text]
Ask(u, w) == [user |-> u, with |-> w]
MCAsks == {Ask("ann", <<>>),
           Ask("ann", <<With(<<"dist">>, 4)>>),
           Ask("ann", <<With(<<"size", "dist">>, 5)>>),
           Ask("bob", <<With(<<"dist">>, 1), With(<<"size">>, 1)>>),
           Ask("ann", <<With(<<"dist">>, 7), With(<<"dist">>, 4)>>)}
MCSymmetry == Permutations(Request)
=============================================================================
