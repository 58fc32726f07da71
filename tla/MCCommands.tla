------------------------------ MODULE MCCommands ------------------------------
(* The programs that run the commands of others, each in a behaviour of its own:
   the image builder over git, bazel and crane, and the provisioner of the local
   cluster over docker, kind and kubectl. Two builds at a time, three in all, with
   two changes and two targets; two nodes, ports and limits, three runs of the
   provisioner and two faults. *)
EXTENDS ImageBuild, TLC

CONSTANTS Nodes, First, Ports, Limits, MaxRuns, MaxFaults

ASSUME KindConstants == First \in Nodes

VARIABLES part, local, cluster, toml, limit, configmap, pc, ask, todo, host, runs, faults,
          found, hitch
kindVars == <<local, cluster, toml, limit, configmap, pc, ask, todo, host, runs, faults,
              found, hitch>>

K == INSTANCE KindCluster WITH registry <- local

MCInit ==
  /\ part \in {"image", "kind"} /\ Init /\ K!Init
  /\ part # "kind" => ask = CHOOSE o \in K!Options : TRUE
MCNext ==
  /\ UNCHANGED part
  /\ \/ part = "image" /\ Next /\ UNCHANGED kindVars
     \/ part = "kind" /\ K!Next /\ UNCHANGED vars
MCSpec == MCInit /\ [][MCNext]_<<part, vars, kindVars>>

MCSymmetry == Permutations(Procs) \union Permutations(Targets) \union Permutations(Diffs)

(* The property of KindCluster. *)
CleanRunProvisions == K!CleanRunProvisions
===============================================================================
