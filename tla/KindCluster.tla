------------------------------ MODULE KindCluster ------------------------------
(* The provisioner of the local Kubernetes cluster (src/mlody/infra/kind): six
   steps over docker, kind and kubectl, run by hand again and again, each of
   which tests what is there and supplies what is missing.

   A command whose output is read (run_output) ends the run when it fails; the
   exit code of any other (run, run_with_stdin) is thrown away, and the run goes
   on to say that the step is done. One run at a time; others may use docker
   meanwhile. What a node can reach, reserve and consume is a port and a limit. *)
EXTENDS Naturals

CONSTANTS Nodes, First,  \* First: the one node of a cluster that the code creates
          Ports, Limits, \* what --registry-port, and --max-cpus with --max-memory, may be
          None,
          MaxRuns,       \* bound: runs begun
          MaxFaults      \* bound: commands that fail, runs killed, others' acts

VARIABLES
  registry,  \* the registry container: its state, host port, and whether it is
             \* on the kind network
  cluster,   \* its state, its nodes and what the kubelet was told to reserve
  toml,      \* hosts.toml: node and port to the host it names
  limit,     \* docker's limit on each node
  configmap, \* the port in local-registry-hosting, or None
  pc, ask,   \* the run: where it is, its options
  todo,      \* the nodes a loop has not reached
  host,      \* the registry's host as step 3 found it
  runs, faults,
  found,     \* ghost: the registry and the cluster the run began with
  hitch      \* ghost: something failed or somebody interfered during the run
world == <<registry, cluster, toml, limit, configmap>>
run == <<ask, todo, host, runs, faults, found, hitch>>
vars == <<world, pc, run>>

NoRegistry == [st |-> "none", port |-> None, joined |-> FALSE]
NoCluster == [st |-> "none", nodes |-> {}, reserves |-> None]
NoToml == [np \in Nodes \X Ports |-> None]
NoLimit == [n \in Nodes |-> None]
Options == [port : Ports, limit : Limits, force : BOOLEAN]
Silent == {"rm", "run", "start", "delete", "exec", "connect", "apply"}
Loud == {"clusters", "create", "nodes", "limits", "update"}
Busy == pc \notin {"idle", "ok", "failed"}

Init ==
  /\ registry = NoRegistry /\ cluster = NoCluster /\ toml = NoToml /\ limit = NoLimit
  /\ configmap = None /\ pc = "idle" /\ ask \in Options /\ todo = {} /\ host = None
  /\ runs = 0 /\ faults = 0 /\ hitch = FALSE
  /\ found = [registry |-> NoRegistry, cluster |-> NoCluster]

Go(from, to) == pc = from /\ pc' = to
Begin ==
  /\ ~Busy /\ runs < MaxRuns /\ runs' = runs + 1
  /\ pc' = "inspect" /\ ask' \in Options /\ hitch' = FALSE
  /\ found' = [registry |-> registry, cluster |-> cluster]
  /\ UNCHANGED <<world, todo, host, faults>>

(* ---------------------------------------------------- step 1: the registry *)
(* An inspection that fails looks like a container that is not there. *)
Inspect ==
  /\ Go("inspect", CASE registry.st = "none" -> "run"
                     [] registry.st # "none" /\ ask.force -> "rm"
                     [] registry.st = "running" /\ ~ask.force -> "clusters"
                     [] OTHER -> "start")
  /\ UNCHANGED <<world, run>>
RemoveRegistry ==
  /\ Go("rm", "run") /\ registry' = NoRegistry
  /\ UNCHANGED <<cluster, toml, limit, configmap, run>>
(* docker refuses a name that is taken. *)
RunRegistry ==
  /\ Go("run", "clusters")
  /\ registry' = IF registry.st # "none" THEN registry
                 ELSE [st |-> "running", port |-> ask.port, joined |-> FALSE]
  /\ UNCHANGED <<cluster, toml, limit, configmap, run>>
StartRegistry ==
  /\ Go("start", "clusters")
  /\ registry' = IF registry.st = "none" THEN registry ELSE [registry EXCEPT !.st = "running"]
  /\ UNCHANGED <<cluster, toml, limit, configmap, run>>

(* ----------------------------------------------------- step 2: the cluster *)
(* A cluster that exists is left as it is, whatever it is like. *)
GetClusters ==
  /\ Go("clusters", CASE cluster.st = "none" -> "create"
                      [] cluster.st # "none" /\ ask.force -> "delete"
                      [] OTHER -> "nodes")
  /\ UNCHANGED <<world, run>>
(* What the nodes held, and the config map, goes with them. *)
Gone == cluster' = NoCluster /\ toml' = NoToml /\ limit' = NoLimit /\ configmap' = None
DeleteCluster == Go("delete", "create") /\ Gone /\ UNCHANGED <<registry, run>>
CreateCluster ==
  /\ Go("create", "nodes") /\ cluster.st = "none"
  /\ cluster' = [st |-> "up", nodes |-> {First}, reserves |-> ask.limit]
  /\ UNCHANGED <<registry, toml, limit, configmap, run>>

(* ------------------------------------- step 3: the registry's host per node *)
GetNodes ==
  /\ Go("nodes", "gateway") /\ todo' = cluster.nodes
  /\ UNCHANGED <<world, ask, host, runs, faults, found, hitch>>
(* Without the gateway of the kind network the registry's name has to do. *)
Gateway ==
  /\ Go("gateway", "exec") /\ host' = "gateway"
  /\ UNCHANGED <<world, ask, todo, runs, faults, found, hitch>>
NoGateway ==
  /\ Go("gateway", "exec") /\ host' = "name" /\ faults < MaxFaults /\ faults' = faults + 1
  /\ hitch' = TRUE /\ UNCHANGED <<world, ask, todo, runs, found>>
(* Each node's file for the port is written over. *)
WriteTomlOnce(n) ==
  /\ pc = "exec" /\ n \in todo /\ todo' = todo \ {n} /\ pc' = pc
  /\ toml' = IF n \notin cluster.nodes \/ toml[<<n, ask.port>>] # None THEN toml
             ELSE [toml EXCEPT ![<<n, ask.port>>] = host]
  /\ UNCHANGED <<registry, cluster, limit, configmap, ask, host, runs, faults, found, hitch>>
WriteToml(n) ==
  /\ pc = "exec" /\ n \in todo /\ todo' = todo \ {n} /\ pc' = pc
  /\ toml' = IF n \notin cluster.nodes THEN toml ELSE [toml EXCEPT ![<<n, ask.port>>] = host]
  /\ UNCHANGED <<registry, cluster, limit, configmap, ask, host, runs, faults, found, hitch>>
Configured == Go("exec", "connected") /\ todo = {} /\ UNCHANGED <<world, run>>

(* -------------------------- steps 4 and 5: the network, and the config map *)
CheckConnected ==
  /\ Go("connected", IF registry.joined THEN "apply" ELSE "connect") /\ UNCHANGED <<world, run>>
Connect ==
  /\ Go("connect", "apply")
  /\ registry' = IF registry.st = "none" THEN registry ELSE [registry EXCEPT !.joined = TRUE]
  /\ UNCHANGED <<cluster, toml, limit, configmap, run>>
(* Only a cluster that has come up answers kubectl. *)
Apply ==
  /\ Go("apply", "limits")
  /\ configmap' = IF cluster.st = "up" THEN ask.port ELSE configmap
  /\ UNCHANGED <<registry, cluster, toml, limit, run>>

(* ------------------------------------------------------ step 6: the limits *)
GetNodesAgain ==
  /\ Go("limits", "update") /\ todo' = cluster.nodes
  /\ UNCHANGED <<world, ask, host, runs, faults, found, hitch>>
Update(n) ==
  /\ pc = "update" /\ n \in todo \cap cluster.nodes /\ todo' = todo \ {n} /\ pc' = pc
  /\ limit' = [limit EXCEPT ![n] = ask.limit]
  /\ UNCHANGED <<registry, cluster, toml, configmap, ask, host, runs, faults, found, hitch>>
Done == Go("update", "ok") /\ todo = {} /\ UNCHANGED <<world, run>>

(* ------------------------------------------------------------------ faults *)
Fault == faults < MaxFaults /\ faults' = faults + 1 /\ hitch' = TRUE
(* An inspection that fails for another reason has docker run go for the name. *)
InspectFails ==
  /\ Fault /\ Go("inspect", "run") /\ UNCHANGED <<world, ask, todo, host, runs, found>>
(* A command whose exit code nobody looks at; a container that cannot have its
   port is created all the same, and stays. *)
FailsSilently ==
  /\ Fault /\ pc \in Silent
  /\ pc' = [rm |-> "run", run |-> "clusters", start |-> "clusters", delete |-> "create",
            exec |-> "exec", connect |-> "apply", apply |-> "limits"][pc]
  /\ registry' \in {registry} \union
       (IF pc = "run" /\ registry.st = "none"
        THEN {[st |-> "stopped", port |-> ask.port, joined |-> FALSE]} ELSE {})
  /\ IF pc = "exec" THEN \E n \in todo : todo' = todo \ {n} ELSE UNCHANGED todo
  /\ UNCHANGED <<cluster, toml, limit, configmap, ask, host, runs, found>>
(* One whose output is read: kind takes a cluster away that did not come up. *)
FailsLoudly ==
  /\ Fault /\ pc \in Loud /\ pc' = "failed"
  /\ UNCHANGED <<world, ask, todo, host, runs, found>>
(* The name is taken, or a node is gone: nobody's fault but those before. *)
Refused ==
  /\ \/ pc = "create" /\ cluster.st # "none"
     \/ pc = "update" /\ ~ todo \subseteq cluster.nodes
  /\ pc' = "failed" /\ UNCHANGED <<world, run>>
(* A run killed while the cluster comes up leaves half of one. *)
Kill ==
  /\ Fault /\ Busy /\ pc' = "failed"
  /\ cluster' \in {cluster} \union
       (IF pc = "create" /\ cluster.st = "none"
        THEN {[st |-> "half", nodes |-> {First}, reserves |-> ask.limit]} ELSE {})
  /\ UNCHANGED <<registry, toml, limit, configmap, ask, todo, host, runs, found>>
(* Others use docker and kind too. *)
Others ==
  /\ Fault /\ pc' = pc
  /\ \/ registry.st # "none" /\ registry' = NoRegistry
        /\ UNCHANGED <<cluster, toml, limit, configmap>>
     \/ registry.st = "running" /\ registry' = [registry EXCEPT !.st = "stopped"]
        /\ UNCHANGED <<cluster, toml, limit, configmap>>
     \/ cluster.st # "none" /\ Gone /\ UNCHANGED registry
     \/ cluster.st = "none" /\ cluster' = [st |-> "up", nodes |-> Nodes, reserves |-> None]
        /\ UNCHANGED <<registry, toml, limit, configmap>>
  /\ UNCHANGED <<ask, todo, host, runs, found>>

Next ==
  \/ Begin \/ Inspect \/ RemoveRegistry \/ RunRegistry \/ StartRegistry \/ GetClusters
  \/ DeleteCluster \/ CreateCluster \/ GetNodes \/ Gateway \/ NoGateway \/ Configured
  \/ CheckConnected \/ Connect \/ Apply \/ GetNodesAgain \/ Done
  \/ \E n \in Nodes : WriteToml(n) \/ Update(n)
  \/ InspectFails \/ FailsSilently \/ FailsLoudly \/ Refused \/ Kill \/ Others
Spec == Init /\ [][Next]_vars

(* -------------------------------------------------------------- properties *)
RegistryServes ==
  /\ registry.st = "running" /\ registry.joined
  /\ ask.force \/ found.registry.st = "none" => registry.port = ask.port
ClusterServes ==
  /\ ask.force \/ found.cluster.st = "none" =>
       cluster = [st |-> "up", nodes |-> {First}, reserves |-> ask.limit]
  /\ cluster.nodes # {}
  /\ \A n \in cluster.nodes : toml[<<n, ask.port>>] = "gateway" /\ limit[n] = ask.limit
  /\ cluster.st = "up" => configmap = ask.port

(* Whatever failed runs, killed runs and other users have left, a run of its own
   in which no command fails provisions everything it was asked for, all but
   what it found and did not have to touch: the port of a container, and what a
   cluster reserves and whether it ever came up. And no order of the steps makes
   docker or kind refuse what a later step asks for. *)
CleanRunProvisions ==
  ~hitch => pc # "failed" /\ (pc = "ok" => RegistryServes /\ ClusterServes)
==============================================================================
