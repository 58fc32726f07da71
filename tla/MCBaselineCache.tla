---------------------------- MODULE MCBaselineCache ----------------------------
(* Model-checking instance of BaselineCache: one cwd request and one commit   *)
(* request that live under different monorepo roots.                          *)
EXTENDS BaselineCache

CONSTANTS cwd, commit

MCKeys == {cwd, commit}
MCCwdKeys == {cwd}
MCRootOf == [k \in MCKeys |-> IF k = cwd THEN "repo" ELSE "clone"]
================================================================================
