----------------------------- MODULE CommandsProofs -----------------------------
(***************************************************************************)
(* Theorems about the two programs of MCCommands, for any number of        *)
(* processes, targets, nodes, runs and faults.  First the provisioner of   *)
(* the cluster; the image builder is below.                                *)
(***************************************************************************)
EXTENDS MCCommands, TLAPS

WorldTypes ==
  /\ local = [st |-> local.st, port |-> local.port, joined |-> local.joined]
  /\ cluster = [st |-> cluster.st, nodes |-> cluster.nodes, reserves |-> cluster.reserves]
  /\ cluster.nodes \in SUBSET Nodes
  /\ toml \in [Nodes \X Ports -> {None, "gateway", "name"}]
  /\ limit \in [Nodes -> Limits \cup {None}]
  /\ ask \in [port : Ports, limit : Limits, force : BOOLEAN]
  /\ host \in {None, "gateway", "name"}
  /\ todo \in SUBSET Nodes

(* A registry's state is one of three, and a cluster that exists has nodes. *)
WorldHolds ==
  /\ local.st \in {"none", "stopped", "running"}
  /\ cluster.st # "none" => cluster.nodes # {}

(* What a run in which nothing failed has found and done when it is at a   *)
(* place: what each step leaves and the later ones keep.                   *)
RegistryUp ==
  /\ local.st = "running"
  /\ ask.force \/ found.registry.st = "none" => local.port = ask.port

ClusterUp ==
  /\ cluster.st # "none"
  /\ ask.force \/ found.cluster.st = "none" =>
       cluster = [st |-> "up", nodes |-> {First}, reserves |-> ask.limit]

TomlsWritten(nodes) == \A n \in nodes : toml[<<n, ask.port>>] = "gateway"
LimitsSet(nodes) == \A n \in nodes : limit[n] = ask.limit
MapApplied == cluster.st = "up" => configmap = ask.port

Places == {"idle", "inspect", "rm", "run", "start", "clusters", "delete", "create", "nodes",
           "gateway", "exec", "connected", "connect", "apply", "limits", "update", "ok"}
BeforeCluster == {"inspect", "rm", "run", "start", "clusters"}
AfterTomls == {"connected", "connect", "apply", "limits", "update", "ok"}

CleanRun ==
  /\ pc \in Places
  /\ pc \in {"inspect", "rm", "start"} => local = found.registry
  /\ pc = "rm" => ask.force
  /\ pc = "run" => local.st = "none" /\ (found.registry.st = "none" \/ ask.force)
  /\ pc = "start" => local.st = "stopped" /\ ~ask.force
  /\ pc \in BeforeCluster \cup {"delete"} => cluster = found.cluster
  /\ pc = "delete" => ask.force
  /\ pc = "create" => cluster.st = "none" /\ (found.cluster.st = "none" \/ ask.force)
  /\ pc \notin {"idle", "inspect", "rm", "run", "start"} => RegistryUp
  /\ pc \in {"nodes", "gateway", "exec"} \cup AfterTomls => ClusterUp
  /\ pc \in {"gateway", "exec"} => todo \subseteq cluster.nodes
  /\ pc = "gateway" => todo = cluster.nodes
  /\ pc = "exec" => host = "gateway" /\ TomlsWritten(cluster.nodes \ todo)
  /\ pc \in AfterTomls => TomlsWritten(cluster.nodes)
  /\ pc \in {"apply", "limits", "update", "ok"} => local.joined
  /\ pc \in {"limits", "update", "ok"} => MapApplied
  /\ pc = "update" => todo \subseteq cluster.nodes /\ LimitsSet(cluster.nodes \ todo)
  /\ pc = "ok" => LimitsSet(cluster.nodes)

KInv == WorldTypes /\ WorldHolds /\ (~hitch => CleanRun)

LEMMA ClusterGone ==
  ASSUME K!Gone
  PROVE  /\ cluster' = [st |-> "none", nodes |-> {}, reserves |-> None]
         /\ toml' \in [Nodes \X Ports -> {None, "gateway", "name"}]
         /\ limit' \in [Nodes -> Limits \cup {None}]
<1>1. K!NoToml \in [Nodes \X Ports -> {None, "gateway", "name"}]
  BY DEF K!NoToml
<1> QED BY <1>1 DEF K!Gone, K!NoCluster, K!NoLimit

LEMMA BeginKeeps == ASSUME KInv, K!Begin PROVE KInv'
<1>1. WorldTypes'
  BY DEF KInv, WorldTypes, K!Begin, K!Busy, K!Options, K!world
<1>2. WorldHolds'
  BY DEF KInv, WorldTypes, WorldHolds, K!Begin, K!Busy, K!Options, K!world
<1>3. ~hitch' => CleanRun'
  BY DEF KInv, WorldTypes, WorldHolds, CleanRun, RegistryUp, ClusterUp, TomlsWritten,
         LimitsSet, MapApplied, Places, BeforeCluster, AfterTomls, K!Begin, K!Busy,
         K!Options, K!world
<1> QED BY <1>1, <1>2, <1>3 DEF KInv

LEMMA InspectKeeps == ASSUME KInv, K!Inspect PROVE KInv'
<1>1. WorldTypes'
  BY DEF KInv, WorldTypes, K!Inspect, K!Go, K!run, K!world
<1>2. WorldHolds'
  BY DEF KInv, WorldTypes, WorldHolds, K!Inspect, K!Go, K!run, K!world
<1>3. ~hitch' => CleanRun'
  BY DEF KInv, WorldTypes, WorldHolds, CleanRun, RegistryUp, ClusterUp, TomlsWritten,
         LimitsSet, MapApplied, Places, BeforeCluster, AfterTomls, K!Inspect, K!Go,
         K!run, K!world
<1> QED BY <1>1, <1>2, <1>3 DEF KInv

LEMMA RemoveRegistryKeeps == ASSUME KInv, K!RemoveRegistry PROVE KInv'
<1>1. WorldTypes'
  BY DEF KInv, WorldTypes, K!RemoveRegistry, K!Go, K!run, K!NoRegistry
<1>2. WorldHolds'
  BY DEF KInv, WorldTypes, WorldHolds, K!RemoveRegistry, K!Go, K!run, K!NoRegistry
<1>3. ~hitch' => CleanRun'
  BY DEF KInv, WorldTypes, WorldHolds, CleanRun, RegistryUp, ClusterUp, TomlsWritten,
         LimitsSet, MapApplied, Places, BeforeCluster, AfterTomls, K!RemoveRegistry,
         K!Go, K!run, K!NoRegistry
<1> QED BY <1>1, <1>2, <1>3 DEF KInv

LEMMA RunRegistryKeeps == ASSUME KInv, K!RunRegistry PROVE KInv'
<1>1. WorldTypes'
  BY DEF KInv, WorldTypes, K!RunRegistry, K!Go, K!run
<1>2. WorldHolds'
  BY DEF KInv, WorldTypes, WorldHolds, K!RunRegistry, K!Go, K!run
<1>3. ~hitch' => CleanRun'
  BY DEF KInv, WorldTypes, WorldHolds, CleanRun, RegistryUp, ClusterUp, TomlsWritten,
         LimitsSet, MapApplied, Places, BeforeCluster, AfterTomls, K!RunRegistry, K!Go,
         K!run
<1> QED BY <1>1, <1>2, <1>3 DEF KInv

LEMMA StartRegistryKeeps == ASSUME KInv, K!StartRegistry PROVE KInv'
<1>1. WorldTypes'
  BY DEF KInv, WorldTypes, K!StartRegistry, K!Go, K!run
<1>2. WorldHolds'
  BY DEF KInv, WorldTypes, WorldHolds, K!StartRegistry, K!Go, K!run
<1>3. ~hitch' => CleanRun'
  BY DEF KInv, WorldTypes, WorldHolds, CleanRun, RegistryUp, ClusterUp, TomlsWritten,
         LimitsSet, MapApplied, Places, BeforeCluster, AfterTomls, K!StartRegistry,
         K!Go, K!run
<1> QED BY <1>1, <1>2, <1>3 DEF KInv

LEMMA GetClustersKeeps == ASSUME KInv, K!GetClusters PROVE KInv'
<1>1. WorldTypes'
  BY DEF KInv, WorldTypes, K!GetClusters, K!Go, K!world, K!run
<1>2. WorldHolds'
  BY DEF KInv, WorldTypes, WorldHolds, K!GetClusters, K!Go, K!world, K!run
<1>3. ~hitch' => CleanRun'
  BY DEF KInv, WorldTypes, WorldHolds, CleanRun, RegistryUp, ClusterUp, TomlsWritten,
         LimitsSet, MapApplied, Places, BeforeCluster, AfterTomls, K!GetClusters, K!Go,
         K!world, K!run
<1> QED BY <1>1, <1>2, <1>3 DEF KInv

LEMMA DeleteClusterKeeps == ASSUME KInv, K!DeleteCluster PROVE KInv'
<1>1. WorldTypes'
  BY ClusterGone DEF KInv, WorldTypes, K!DeleteCluster, K!Go, K!Gone, K!run
<1>2. WorldHolds'
  BY ClusterGone DEF KInv, WorldTypes, WorldHolds, K!DeleteCluster, K!Go, K!Gone, K!run
<1>3. ~hitch' => CleanRun'
  BY ClusterGone DEF KInv, WorldTypes, WorldHolds, CleanRun, RegistryUp, ClusterUp,
         TomlsWritten, LimitsSet, MapApplied, Places, BeforeCluster, AfterTomls,
         K!DeleteCluster, K!Go, K!Gone, K!run
<1> QED BY <1>1, <1>2, <1>3 DEF KInv

LEMMA CreateClusterKeeps == ASSUME KInv, K!CreateCluster PROVE KInv'
<1>1. WorldTypes'
  BY KindConstants DEF KInv, WorldTypes, K!CreateCluster, K!Go, K!run
<1>2. WorldHolds'
  BY DEF KInv, WorldTypes, WorldHolds, K!CreateCluster, K!Go, K!run
<1>3. ~hitch' => CleanRun'
  BY DEF KInv, WorldTypes, WorldHolds, CleanRun, RegistryUp, ClusterUp, TomlsWritten,
         LimitsSet, MapApplied, Places, BeforeCluster, AfterTomls, K!CreateCluster,
         K!Go, K!run
<1> QED BY <1>1, <1>2, <1>3 DEF KInv

LEMMA GetNodesKeeps == ASSUME KInv, K!GetNodes PROVE KInv'
<1>1. WorldTypes'
  BY DEF KInv, WorldTypes, K!GetNodes, K!Go, K!world
<1>2. WorldHolds'
  BY DEF KInv, WorldTypes, WorldHolds, K!GetNodes, K!Go, K!world
<1>3. ~hitch' => CleanRun'
  BY DEF KInv, WorldTypes, WorldHolds, CleanRun, RegistryUp, ClusterUp, TomlsWritten,
         LimitsSet, MapApplied, Places, BeforeCluster, AfterTomls, K!GetNodes, K!Go,
         K!world
<1> QED BY <1>1, <1>2, <1>3 DEF KInv

LEMMA GatewayKeeps == ASSUME KInv, K!Gateway PROVE KInv'
<1>1. WorldTypes'
  BY DEF KInv, WorldTypes, K!Gateway, K!Go, K!world
<1>2. WorldHolds'
  BY DEF KInv, WorldTypes, WorldHolds, K!Gateway, K!Go, K!world
<1>3. ~hitch' => CleanRun'
  BY DEF KInv, WorldTypes, WorldHolds, CleanRun, RegistryUp, ClusterUp, TomlsWritten,
         LimitsSet, MapApplied, Places, BeforeCluster, AfterTomls, K!Gateway, K!Go,
         K!world
<1> QED BY <1>1, <1>2, <1>3 DEF KInv

LEMMA NoGatewayKeeps == ASSUME KInv, K!NoGateway PROVE KInv'
<1>1. WorldTypes'
  BY DEF KInv, WorldTypes, K!NoGateway, K!Go, K!world
<1>2. WorldHolds'
  BY DEF KInv, WorldTypes, WorldHolds, K!NoGateway, K!Go, K!world
<1>3. hitch'
  BY DEF K!NoGateway
<1> QED BY <1>1, <1>2, <1>3 DEF KInv

LEMMA ConfiguredKeeps == ASSUME KInv, K!Configured PROVE KInv'
<1>1. WorldTypes'
  BY DEF KInv, WorldTypes, K!Configured, K!Go, K!world, K!run
<1>2. WorldHolds'
  BY DEF KInv, WorldTypes, WorldHolds, K!Configured, K!Go, K!world, K!run
<1>3. ~hitch' => CleanRun'
  BY DEF KInv, WorldTypes, WorldHolds, CleanRun, RegistryUp, ClusterUp, TomlsWritten,
         LimitsSet, MapApplied, Places, BeforeCluster, AfterTomls, K!Configured, K!Go,
         K!world, K!run
<1> QED BY <1>1, <1>2, <1>3 DEF KInv

LEMMA CheckConnectedKeeps == ASSUME KInv, K!CheckConnected PROVE KInv'
<1>1. WorldTypes'
  BY DEF KInv, WorldTypes, K!CheckConnected, K!Go, K!world, K!run
<1>2. WorldHolds'
  BY DEF KInv, WorldTypes, WorldHolds, K!CheckConnected, K!Go, K!world, K!run
<1>3. ~hitch' => CleanRun'
  BY DEF KInv, WorldTypes, WorldHolds, CleanRun, RegistryUp, ClusterUp, TomlsWritten,
         LimitsSet, MapApplied, Places, BeforeCluster, AfterTomls, K!CheckConnected,
         K!Go, K!world, K!run
<1> QED BY <1>1, <1>2, <1>3 DEF KInv

LEMMA ConnectKeeps == ASSUME KInv, K!Connect PROVE KInv'
<1>1. WorldTypes'
  BY DEF KInv, WorldTypes, K!Connect, K!Go, K!run
<1>2. WorldHolds'
  BY DEF KInv, WorldTypes, WorldHolds, K!Connect, K!Go, K!run
<1>3. ~hitch' => CleanRun'
  BY DEF KInv, WorldTypes, WorldHolds, CleanRun, RegistryUp, ClusterUp, TomlsWritten,
         LimitsSet, MapApplied, Places, BeforeCluster, AfterTomls, K!Connect, K!Go,
         K!run
<1> QED BY <1>1, <1>2, <1>3 DEF KInv

LEMMA ApplyKeeps == ASSUME KInv, K!Apply PROVE KInv'
<1>1. WorldTypes'
  BY DEF KInv, WorldTypes, K!Apply, K!Go, K!run
<1>2. WorldHolds'
  BY DEF KInv, WorldTypes, WorldHolds, K!Apply, K!Go, K!run
<1>3. ~hitch' => CleanRun'
  BY DEF KInv, WorldTypes, WorldHolds, CleanRun, RegistryUp, ClusterUp, TomlsWritten,
         LimitsSet, MapApplied, Places, BeforeCluster, AfterTomls, K!Apply, K!Go, K!run
<1> QED BY <1>1, <1>2, <1>3 DEF KInv

LEMMA GetNodesAgainKeeps == ASSUME KInv, K!GetNodesAgain PROVE KInv'
<1>1. WorldTypes'
  BY DEF KInv, WorldTypes, K!GetNodesAgain, K!Go, K!world
<1>2. WorldHolds'
  BY DEF KInv, WorldTypes, WorldHolds, K!GetNodesAgain, K!Go, K!world
<1>3. ~hitch' => CleanRun'
  BY DEF KInv, WorldTypes, WorldHolds, CleanRun, RegistryUp, ClusterUp, TomlsWritten,
         LimitsSet, MapApplied, Places, BeforeCluster, AfterTomls, K!GetNodesAgain,
         K!Go, K!world
<1> QED BY <1>1, <1>2, <1>3 DEF KInv

LEMMA DoneKeeps == ASSUME KInv, K!Done PROVE KInv'
<1>1. WorldTypes'
  BY DEF KInv, WorldTypes, K!Done, K!Go, K!world, K!run
<1>2. WorldHolds'
  BY DEF KInv, WorldTypes, WorldHolds, K!Done, K!Go, K!world, K!run
<1>3. ~hitch' => CleanRun'
  BY DEF KInv, WorldTypes, WorldHolds, CleanRun, RegistryUp, ClusterUp, TomlsWritten,
         LimitsSet, MapApplied, Places, BeforeCluster, AfterTomls, K!Done, K!Go,
         K!world, K!run
<1> QED BY <1>1, <1>2, <1>3 DEF KInv

LEMMA InspectFailsKeeps == ASSUME KInv, K!InspectFails PROVE KInv'
<1>1. WorldTypes'
  BY DEF KInv, WorldTypes, K!InspectFails, K!Fault, K!Go, K!run, K!world
<1>2. WorldHolds'
  BY DEF KInv, WorldTypes, WorldHolds, K!InspectFails, K!Fault, K!Go, K!run, K!world
<1>3. hitch'
  BY DEF K!InspectFails, K!Fault
<1> QED BY <1>1, <1>2, <1>3 DEF KInv

LEMMA FailsSilentlyKeeps == ASSUME KInv, K!FailsSilently PROVE KInv'
<1>1. WorldTypes'
  BY DEF KInv, WorldTypes, K!FailsSilently, K!Fault, K!Silent, K!run
<1>2. WorldHolds'
  BY DEF KInv, WorldTypes, WorldHolds, K!FailsSilently, K!Fault, K!Silent, K!run
<1>3. hitch'
  BY DEF K!FailsSilently, K!Fault
<1> QED BY <1>1, <1>2, <1>3 DEF KInv

LEMMA FailsLoudlyKeeps == ASSUME KInv, K!FailsLoudly PROVE KInv'
<1>1. WorldTypes'
  BY DEF KInv, WorldTypes, K!FailsLoudly, K!Fault, K!Loud, K!world
<1>2. WorldHolds'
  BY DEF KInv, WorldTypes, WorldHolds, K!FailsLoudly, K!Fault, K!Loud, K!world
<1>3. hitch'
  BY DEF K!FailsLoudly, K!Fault
<1> QED BY <1>1, <1>2, <1>3 DEF KInv

LEMMA RefusedKeeps == ASSUME KInv, K!Refused PROVE KInv'
<1>1. WorldTypes'
  BY DEF KInv, WorldTypes, K!Refused, K!world, K!run
<1>2. WorldHolds'
  BY DEF KInv, WorldTypes, WorldHolds, K!Refused, K!world, K!run
<1>3. hitch'
  BY DEF KInv, CleanRun, K!Refused, K!world, K!run
<1> QED BY <1>1, <1>2, <1>3 DEF KInv

LEMMA KillKeeps == ASSUME KInv, K!Kill PROVE KInv'
<1>1. WorldTypes'
  BY KindConstants DEF KInv, WorldTypes, K!Kill, K!Fault, K!Busy
<1>2. WorldHolds'
  BY DEF KInv, WorldTypes, WorldHolds, K!Kill, K!Fault, K!Busy
<1>3. hitch'
  BY DEF K!Kill, K!Fault
<1> QED BY <1>1, <1>2, <1>3 DEF KInv

LEMMA WriteTomlKeeps == ASSUME KInv, NEW n \in Nodes, K!WriteToml(n) PROVE KInv'
<1>1. WorldTypes'
  BY DEF KInv, WorldTypes, K!WriteToml
<1>2. WorldHolds'
  BY DEF KInv, WorldTypes, WorldHolds, K!WriteToml
<1>3. ~hitch' => CleanRun'
  BY DEF KInv, WorldTypes, WorldHolds, CleanRun, RegistryUp, ClusterUp, TomlsWritten,
         LimitsSet, MapApplied, Places, BeforeCluster, AfterTomls, K!WriteToml
<1> QED BY <1>1, <1>2, <1>3 DEF KInv

LEMMA UpdateKeeps == ASSUME KInv, NEW n \in Nodes, K!Update(n) PROVE KInv'
<1>1. WorldTypes'
  BY DEF KInv, WorldTypes, K!Update
<1>2. WorldHolds'
  BY DEF KInv, WorldTypes, WorldHolds, K!Update
<1>3. ~hitch' => CleanRun'
  BY DEF KInv, WorldTypes, WorldHolds, CleanRun, RegistryUp, ClusterUp, TomlsWritten,
         LimitsSet, MapApplied, Places, BeforeCluster, AfterTomls, K!Update
<1> QED BY <1>1, <1>2, <1>3 DEF KInv

LEMMA OthersKeeps == ASSUME KInv, K!Others PROVE KInv'
<1>1. CASE local.st # "none" /\ local' = K!NoRegistry /\ UNCHANGED <<cluster, toml, limit, configmap>>
  BY <1>1 DEF KInv, WorldTypes, WorldHolds, K!Others, K!Fault, K!NoRegistry
<1>2. CASE /\ local.st = "running" /\ local' = [local EXCEPT !.st = "stopped"]
           /\ UNCHANGED <<cluster, toml, limit, configmap>>
  BY <1>2 DEF KInv, WorldTypes, WorldHolds, K!Others, K!Fault
<1>3. CASE K!Gone /\ UNCHANGED local
  <2>1. WorldTypes'
    BY <1>3, ClusterGone DEF KInv, WorldTypes, K!Others
  <2> QED BY <1>3, <2>1, ClusterGone DEF KInv, WorldHolds, K!Others, K!Fault
<1>4. CASE /\ cluster' = [st |-> "up", nodes |-> Nodes, reserves |-> None]
           /\ UNCHANGED <<local, toml, limit, configmap>>
  BY <1>4, KindConstants DEF KInv, WorldTypes, WorldHolds, K!Others, K!Fault
<1> QED BY <1>1, <1>2, <1>3, <1>4 DEF K!Others

LEMMA NextKInv == KInv /\ [K!Next]_(K!vars) => KInv'
<1> SUFFICES ASSUME KInv, [K!Next]_(K!vars) PROVE KInv' OBVIOUS
<1>1. CASE K!Begin
  BY <1>1, BeginKeeps
<1>2. CASE K!Inspect
  BY <1>2, InspectKeeps
<1>3. CASE K!RemoveRegistry
  BY <1>3, RemoveRegistryKeeps
<1>4. CASE K!RunRegistry
  BY <1>4, RunRegistryKeeps
<1>5. CASE K!StartRegistry
  BY <1>5, StartRegistryKeeps
<1>6. CASE K!GetClusters
  BY <1>6, GetClustersKeeps
<1>7. CASE K!DeleteCluster
  BY <1>7, DeleteClusterKeeps
<1>8. CASE K!CreateCluster
  BY <1>8, CreateClusterKeeps
<1>9. CASE K!GetNodes
  BY <1>9, GetNodesKeeps
<1>10. CASE K!Gateway
  BY <1>10, GatewayKeeps
<1>11. CASE K!NoGateway
  BY <1>11, NoGatewayKeeps
<1>12. CASE K!Configured
  BY <1>12, ConfiguredKeeps
<1>13. CASE K!CheckConnected
  BY <1>13, CheckConnectedKeeps
<1>14. CASE K!Connect
  BY <1>14, ConnectKeeps
<1>15. CASE K!Apply
  BY <1>15, ApplyKeeps
<1>16. CASE K!GetNodesAgain
  BY <1>16, GetNodesAgainKeeps
<1>17. CASE K!Done
  BY <1>17, DoneKeeps
<1>18. CASE K!InspectFails
  BY <1>18, InspectFailsKeeps
<1>19. CASE K!FailsSilently
  BY <1>19, FailsSilentlyKeeps
<1>20. CASE K!FailsLoudly
  BY <1>20, FailsLoudlyKeeps
<1>21. CASE K!Refused
  BY <1>21, RefusedKeeps
<1>22. CASE K!Kill
  BY <1>22, KillKeeps
<1>23. CASE K!Others
  BY <1>23, OthersKeeps
<1>24. ASSUME NEW n \in Nodes, K!WriteToml(n) \/ K!Update(n) PROVE KInv'
  BY <1>24, WriteTomlKeeps, UpdateKeeps
<1>25. CASE UNCHANGED K!vars
  BY <1>25 DEF KInv, WorldTypes, WorldHolds, CleanRun, RegistryUp, ClusterUp, TomlsWritten,
         LimitsSet, MapApplied, K!vars, K!world, K!run
<1> QED
  BY <1>1, <1>2, <1>3, <1>4, <1>5, <1>6, <1>7, <1>8, <1>9, <1>10, <1>11, <1>12, <1>13,
         <1>14, <1>15, <1>16, <1>17, <1>18, <1>19, <1>20, <1>21, <1>22, <1>23, <1>24,
         <1>25 DEF K!Next

LEMMA InitKInv == K!Init => KInv
<1> SUFFICES ASSUME K!Init PROVE KInv OBVIOUS
<1>1. WorldTypes
  <2>1. /\ local = [st |-> "none", port |-> None, joined |-> FALSE]
        /\ cluster = [st |-> "none", nodes |-> {}, reserves |-> None]
    BY DEF K!Init, K!NoRegistry, K!NoCluster
  <2>2. toml \in [Nodes \X Ports -> {None, "gateway", "name"}]
    BY DEF K!Init, K!NoToml
  <2>3. limit \in [Nodes -> Limits \cup {None}]
    BY DEF K!Init, K!NoLimit
  <2>4. ask \in [port : Ports, limit : Limits, force : BOOLEAN] /\ host = None /\ todo = {}
    BY DEF K!Init, K!Options
  <2> QED BY <2>1, <2>2, <2>3, <2>4 DEF WorldTypes
<1>2. WorldHolds
  BY DEF K!Init, K!NoRegistry, K!NoCluster, WorldHolds
<1>3. CleanRun
  BY DEF K!Init, CleanRun, Places, BeforeCluster, AfterTomls
<1> QED BY <1>1, <1>2, <1>3 DEF KInv

(* A run of its own in which no command fails provisions what it was asked *)
(* for, whatever failed runs, killed runs and other users left.            *)
THEOREM CleanRunsProvision == K!Spec => []CleanRunProvisions
<1>1. KInv => CleanRunProvisions
  <2> SUFFICES ASSUME KInv, ~hitch PROVE pc # "failed" /\ (pc = "ok" => K!RegistryServes /\ K!ClusterServes)
    BY DEF CleanRunProvisions, K!CleanRunProvisions
  <2>1. pc # "failed"
    BY DEF KInv, CleanRun, Places
  <2>2. ASSUME pc = "ok" PROVE K!RegistryServes
    BY <2>2 DEF KInv, CleanRun, RegistryUp, AfterTomls, K!RegistryServes
  <2>3. ASSUME pc = "ok" PROVE K!ClusterServes
    BY <2>3 DEF KInv, WorldHolds, CleanRun, ClusterUp, AfterTomls, TomlsWritten, LimitsSet,
                MapApplied, K!ClusterServes
  <2> QED BY <2>1, <2>2, <2>3
<1> QED BY InitKInv, NextKInv, <1>1, PTL DEF K!Spec

---------------------------------------------------------------------------------
(* The image builder                                                       *)

Working == {"invalidate", "check", "lock", "recheck", "clone", "checkout", "apply", "clean",
            "write", "build", "layout"}

(* The fields that a build has at each place.                              *)
BuildShape(p) ==
  \/ build[p] = Idle
  \/ /\ build[p].pc \in Working
     /\ build[p] = [pc |-> build[p].pc, key |-> build[p].key, from |-> build[p].from,
                     steady |-> build[p].steady]
     /\ build[p].key \in Keys /\ build[p].steady \in BOOLEAN
  \/ /\ build[p].pc = "push"
     /\ build[p] = [pc |-> "push", key |-> build[p].key, steady |-> build[p].steady,
                     image |-> build[p].image, todo |-> build[p].todo]
     /\ build[p].key \in Keys /\ build[p].steady \in BOOLEAN

ImageTypes ==
  /\ build = [p \in Procs |-> build[p]] /\ \A p \in Procs : BuildShape(p)
  /\ registry = [tk \in Targets \X Keys |-> registry[tk]]
  /\ clone = [tree |-> clone.tree, has |-> clone.has, dyn |-> clone.dyn, layout |-> clone.layout]
  /\ cwd \in Keys /\ lock \in Procs \cup {None}
  /\ alone \in BOOLEAN /\ whole \in BOOLEAN

(* Who clones holds the lock, and until a build is killed a clone without  *)
(* its files is in the hands of the build that will check them out.        *)
HoldersLock == \A p \in Procs : build[p].pc \in {"recheck", "clone", "checkout"} => lock = p
HalfIsHeld ==
  whole /\ clone.tree = "half" => \E p \in Procs : lock = p /\ build[p].pc = "checkout"

OneBuilds == alone => \A p, q \in Procs : p = q \/ build[p] = Idle \/ build[q] = Idle

(* What a build with changes knows of the clone when no other has been     *)
(* beside it: it is new, then patched with these changes alone while the   *)
(* working directory has not moved, and so are the labels and the layout.  *)
Exact(key) == [tree |-> "full", has |-> {key}, label |-> key]
CloneIsOwn(p) == LET b == build[p] IN
  /\ b.steady => cwd = b.key
  /\ b.pc \in {"check", "lock", "recheck", "clone"} => clone.tree = "absent"
  /\ b.pc = "checkout" => clone.has = {}
  /\ b.pc = "apply" => clone.tree = "full" /\ clone.has = {}
  /\ b.pc \in {"clean", "write", "build", "layout"} =>
       (b.steady => clone.tree = "full" /\ clone.has = {b.key})
  /\ b.pc \in {"build", "layout"} => (b.steady => clone.dyn = b.key)
  /\ b.pc = "layout" => (b.steady => clone.layout = Exact(b.key))
  /\ b.pc = "push" => (b.steady => b.image = Exact(b.key))
ClonesAreOwn ==
  alone => \A p \in Procs : build[p] # Idle /\ build[p].key \in Diffs => CloneIsOwn(p)

TagsAreExact ==
  \A t \in Targets, d \in Diffs :
    registry[<<t, d>>] # None /\ registry[<<t, d>>].steady =>
      /\ registry[<<t, d>>].tree = "full" /\ registry[<<t, d>>].has = {d}
      /\ registry[<<t, d>>].label = d

BInv == ImageTypes /\ HoldersLock /\ HalfIsHeld /\ OneBuilds /\ ClonesAreOwn /\ TagsAreExact

(* The place c of a build p; the rest of it stays.                         *)
Place(p, c, f) == [pc |-> c, key |-> build[p].key, from |-> f, steady |-> build[p].steady]

LEMMA GotoIs ==
  ASSUME ImageTypes, NEW p \in Procs, build[p].pc \in Working, NEW c, Goto(p, c)
  PROVE  build' = [build EXCEPT ![p] = Place(p, c, build[p].from)]
<1>1. build[p] = [pc |-> build[p].pc, key |-> build[p].key, from |-> build[p].from,
                  steady |-> build[p].steady]
  BY DEF ImageTypes, BuildShape, Idle, Working
<1>2. build = [q \in Procs |-> build[q]]
  BY DEF ImageTypes
<1>3. [build[p] EXCEPT !.pc = c] = Place(p, c, build[p].from)
  BY <1>1 DEF Place
<1> QED BY <1>2, <1>3 DEF Goto

(* A step of one build that goes on, from what it does to the lock and the *)
(* clone.                                                                  *)
LEMMA GoKeeps ==
  ASSUME BInv, NEW p \in Procs, build[p].pc \in Working, NEW c \in Working, NEW f,
         build' = [build EXCEPT ![p] = Place(p, c, f)], UNCHANGED <<registry, env>>,
         clone' = [tree |-> clone'.tree, has |-> clone'.has, dyn |-> clone'.dyn,
                   layout |-> clone'.layout],
         lock' \in Procs \cup {None}, \A q \in Procs \ {p} : lock = q => lock' = q,
         c \in {"recheck", "clone", "checkout"} => lock' = p,
         clone'.tree = "half" => clone.tree = "half" \/ c = "checkout",
         build[p].pc = "checkout" => clone'.tree # "half",
         build[p].key \in Diffs /\ CloneIsOwn(p) => CloneIsOwn(p)'
  PROVE  BInv'
<1>1. /\ build' = [q \in Procs |-> build'[q]] /\ build'[p] = Place(p, c, f)
      /\ \A q \in Procs \ {p} : build'[q] = build[q]
  BY DEF BInv, ImageTypes
<1>2. UNCHANGED <<registry, cwd, whole, alone>>
  BY DEF env
<1>3. build[p] # Idle /\ build[p].key \in Keys /\ build[p].steady \in BOOLEAN
  BY DEF BInv, ImageTypes, BuildShape, Idle, Working
<1>4. /\ build'[p].pc = c /\ build'[p].key = build[p].key /\ build'[p].from = f
      /\ build'[p].steady = build[p].steady
  BY <1>1 DEF Place
<1>5. ImageTypes'
  <2>1. BuildShape(p)'
    BY <1>1, <1>3, <1>4 DEF BuildShape, Place
  <2>2. \A q \in Procs : BuildShape(q)'
    BY <1>1, <2>1 DEF BInv, ImageTypes, BuildShape
  <2> QED BY <1>1, <1>2, <2>2 DEF BInv, ImageTypes
<1>6. HoldersLock'
  BY <1>1, <1>4 DEF BInv, HoldersLock
<1>7. HalfIsHeld'
  <2> SUFFICES ASSUME whole, clone'.tree = "half"
               PROVE  \E q \in Procs : lock' = q /\ build'[q].pc = "checkout"
    BY <1>2 DEF HalfIsHeld
  <2>1. CASE c = "checkout"
    BY <2>1, <1>4
  <2>2. CASE clone.tree = "half"
    <3>1. PICK q \in Procs : lock = q /\ build[q].pc = "checkout"
      BY <2>2 DEF BInv, HalfIsHeld
    <3>2. q # p
      BY <3>1
    <3> QED BY <1>1, <3>1, <3>2
  <2> QED BY <2>1, <2>2
<1>8. alone => \A q \in Procs \ {p} : build[q] = Idle
  BY <1>3 DEF BInv, OneBuilds
<1>9. OneBuilds'
  BY <1>1, <1>2, <1>8 DEF OneBuilds
<1>10. ClonesAreOwn'
  <2> SUFFICES ASSUME alone, build[p].key \in Diffs PROVE CloneIsOwn(p)'
    BY <1>1, <1>2, <1>4, <1>8 DEF ClonesAreOwn, Idle
  <2>1. CloneIsOwn(p)
    BY <1>3 DEF BInv, ClonesAreOwn
  <2> QED BY <2>1
<1>11. TagsAreExact'
  BY <1>2 DEF BInv, TagsAreExact
<1> QED BY <1>5, <1>6, <1>7, <1>9, <1>10, <1>11 DEF BInv

(* A build that ends.                                                      *)
LEMMA EndKeeps ==
  ASSUME BInv, NEW p \in Procs, build[p] # Idle, End(p), UNCHANGED <<registry, cwd, alone>>,
         clone' \in {clone, Absent}, whole' \in BOOLEAN, whole' => whole,
         lock' \in Procs \cup {None}, \A q \in Procs \ {p} : lock = q => lock' = q,
         whole' /\ build[p].pc = "checkout" => clone'.tree # "half"
  PROVE  BInv'
<1>1. /\ build' = [q \in Procs |-> build'[q]] /\ build'[p] = Idle
      /\ \A q \in Procs \ {p} : build'[q] = build[q]
  BY DEF BInv, ImageTypes, End
<1>2. build'[p].pc = "idle"
  BY <1>1 DEF Idle
<1>3. ImageTypes'
  <2>1. BuildShape(p)'
    BY <1>1 DEF BuildShape
  <2>2. \A q \in Procs : BuildShape(q)'
    BY <1>1, <2>1 DEF BInv, ImageTypes, BuildShape
  <2> QED BY <1>1, <2>2 DEF BInv, ImageTypes, Absent
<1>4. HoldersLock'
  BY <1>1, <1>2 DEF BInv, HoldersLock
<1>5. HalfIsHeld'
  <2> SUFFICES ASSUME whole', clone'.tree = "half"
               PROVE  \E q \in Procs : lock' = q /\ build'[q].pc = "checkout"
    BY DEF HalfIsHeld
  <2>1. clone.tree = "half"
    BY DEF Absent
  <2>2. PICK q \in Procs : lock = q /\ build[q].pc = "checkout"
    BY <2>1 DEF BInv, HalfIsHeld
  <2>3. q # p
    BY <2>2
  <2> QED BY <1>1, <2>2, <2>3
<1>6. alone => \A q \in Procs \ {p} : build[q] = Idle
  BY DEF BInv, OneBuilds
<1>7. OneBuilds'
  BY <1>1, <1>6 DEF OneBuilds
<1>8. ClonesAreOwn'
  BY <1>1, <1>6 DEF ClonesAreOwn
<1>9. TagsAreExact'
  BY DEF BInv, TagsAreExact
<1> QED BY <1>3, <1>4, <1>5, <1>7, <1>8, <1>9 DEF BInv

LEMMA ShapeOfClone ==
  ASSUME ImageTypes
  PROVE  /\ clone = [tree |-> clone.tree, has |-> clone.has, dyn |-> clone.dyn,
                     layout |-> clone.layout]
         /\ Absent.tree = "absent" /\ Absent.has = {}
         /\ Absent = [tree |-> Absent.tree, has |-> Absent.has, dyn |-> Absent.dyn,
                      layout |-> Absent.layout]
  BY DEF ImageTypes, Absent

LEMMA InvalidateKeeps == ASSUME BInv, NEW p \in Procs, Invalidate(p) PROVE BInv'
<1>1. build[p].pc = "invalidate" /\ Goto(p, "check") /\ UNCHANGED <<lock, registry, env>>
  BY DEF Invalidate, At
<1>2. build' = [build EXCEPT ![p] = Place(p, "check", build[p].from)]
  BY <1>1, GotoIs DEF BInv, Working
<1>3. clone' \in {clone, Absent} /\ clone'.tree = "absent"
  BY ShapeOfClone DEF Invalidate, Cached, BInv
<1>4. clone' = [tree |-> clone'.tree, has |-> clone'.has, dyn |-> clone'.dyn,
                layout |-> clone'.layout]
  BY <1>3, ShapeOfClone DEF BInv
<1>5. CloneIsOwn(p) => CloneIsOwn(p)'
  <2>1. build'[p] = Place(p, "check", build[p].from)
    BY <1>2 DEF BInv, ImageTypes
  <2> QED BY <1>1, <1>3, <2>1 DEF CloneIsOwn, Place, env
<1>6. lock' \in Procs \cup {None}
  BY <1>1 DEF BInv, ImageTypes
<1> QED BY <1>1, <1>2, <1>3, <1>4, <1>5, <1>6, GoKeeps DEF Working

(* Prepare goes to the changes or past them.                               *)
LEMMA PrepareIs ==
  ASSUME ImageTypes, NEW p \in Procs, build[p].pc \in Working, Prepare(p)
  PROVE  \E c \in {"apply", "clean"} :
           /\ build' = [build EXCEPT ![p] = Place(p, c, build[p].from)]
           /\ build[p].key \in Diffs => c = "apply"
<1>1. None \notin Diffs
  BY BuildConstants
<1>2. CASE build[p].key = None
  BY <1>1, <1>2, GotoIs DEF Prepare
<1>3. CASE build[p].key # None
  BY <1>3, GotoIs DEF Prepare
<1> QED BY <1>2, <1>3

LEMMA CheckKeeps == ASSUME BInv, NEW p \in Procs, Check(p) PROVE BInv'
<1>1. build[p].pc = "check" /\ UNCHANGED <<clone, lock, registry, env>>
  BY DEF Check, At
<1>2. PICK c \in {"apply", "clean", "lock"} :
        /\ build' = [build EXCEPT ![p] = Place(p, c, build[p].from)]
        /\ clone.tree = "absent" => c = "lock"
  <2>1. CASE Cached
    BY <1>1, <2>1, PrepareIs DEF BInv, Check, Cached, Working
  <2>2. CASE ~Cached
    BY <1>1, <2>2, GotoIs DEF BInv, Check, Working
  <2> QED BY <2>1, <2>2
<1>3. build'[p] = Place(p, c, build[p].from)
  BY <1>2 DEF BInv, ImageTypes
<1>4. CloneIsOwn(p) => CloneIsOwn(p)'
  BY <1>1, <1>2, <1>3 DEF CloneIsOwn, Place, env
<1>5. c \in Working /\ lock' \in Procs \cup {None}
  BY <1>1 DEF BInv, ImageTypes, Working
<1>6. clone' = [tree |-> clone'.tree, has |-> clone'.has, dyn |-> clone'.dyn,
                layout |-> clone'.layout]
  BY <1>1 DEF BInv, ImageTypes
<1> QED BY <1>1, <1>2, <1>4, <1>5, <1>6, GoKeeps DEF Working

LEMMA AcquireKeeps == ASSUME BInv, NEW p \in Procs, Acquire(p) PROVE BInv'
<1>1. /\ build[p].pc = "lock" /\ lock = None /\ lock' = p /\ Goto(p, "recheck")
      /\ UNCHANGED <<clone, registry, env>>
  BY DEF Acquire, At
<1>2. build' = [build EXCEPT ![p] = Place(p, "recheck", build[p].from)]
  BY <1>1, GotoIs DEF BInv, Working
<1>3. build'[p] = Place(p, "recheck", build[p].from)
  BY <1>2 DEF BInv, ImageTypes
<1>4. CloneIsOwn(p) => CloneIsOwn(p)'
  BY <1>1, <1>3 DEF CloneIsOwn, Place, env
<1>5. \A q \in Procs \ {p} : lock # q
  BY <1>1, BuildConstants
<1>6. clone' = [tree |-> clone'.tree, has |-> clone'.has, dyn |-> clone'.dyn,
                layout |-> clone'.layout]
  BY <1>1 DEF BInv, ImageTypes
<1> QED BY <1>1, <1>2, <1>4, <1>5, <1>6, GoKeeps DEF Working

LEMMA RecheckKeeps == ASSUME BInv, NEW p \in Procs, Recheck(p) PROVE BInv'
<1>1. build[p].pc = "recheck" /\ UNCHANGED <<clone, registry, env>> /\ lock = p
  BY DEF Recheck, At, BInv, HoldersLock
<1>2. PICK c \in {"apply", "clean", "clone"} :
        /\ build' = [build EXCEPT ![p] = Place(p, c, build[p].from)]
        /\ clone.tree = "absent" => c = "clone"
        /\ lock' \in {p, None} /\ (c = "clone" => lock' = p)
  <2>1. CASE Cached
    BY <1>1, <2>1, PrepareIs DEF BInv, Recheck, Cached, Working
  <2>2. CASE ~Cached
    BY <1>1, <2>2, GotoIs DEF BInv, Recheck, Working
  <2> QED BY <2>1, <2>2
<1>3. build'[p] = Place(p, c, build[p].from)
  BY <1>2 DEF BInv, ImageTypes
<1>4. CloneIsOwn(p) => CloneIsOwn(p)'
  BY <1>1, <1>2, <1>3 DEF CloneIsOwn, Place, env
<1>5. c \in Working /\ lock' \in Procs \cup {None}
  BY <1>2 DEF Working
<1>6. clone' = [tree |-> clone'.tree, has |-> clone'.has, dyn |-> clone'.dyn,
                layout |-> clone'.layout]
  BY <1>1 DEF BInv, ImageTypes
<1> QED BY <1>1, <1>2, <1>4, <1>5, <1>6, GoKeeps DEF Working

LEMMA CloneHeadKeeps == ASSUME BInv, NEW p \in Procs, CloneHead(p) PROVE BInv'
<1>1. /\ build[p].pc = "clone" /\ Goto(p, "checkout") /\ UNCHANGED <<lock, registry, env>>
      /\ lock = p
  BY DEF CloneHead, At, BInv, HoldersLock
<1>2. build' = [build EXCEPT ![p] = Place(p, "checkout", build[p].from)]
  BY <1>1, GotoIs DEF BInv, Working
<1>3. build'[p] = Place(p, "checkout", build[p].from)
  BY <1>2 DEF BInv, ImageTypes
<1>4. /\ clone' = [tree |-> clone'.tree, has |-> clone'.has, dyn |-> clone'.dyn,
                   layout |-> clone'.layout]
      /\ clone'.has = {}
  BY DEF CloneHead, Absent
<1>5. CloneIsOwn(p) => CloneIsOwn(p)'
  BY <1>1, <1>3, <1>4 DEF CloneIsOwn, Place, env
<1> QED BY <1>1, <1>2, <1>4, <1>5, GoKeeps DEF Working

LEMMA CheckoutKeeps == ASSUME BInv, NEW p \in Procs, Checkout(p) PROVE BInv'
<1>1. /\ build[p].pc = "checkout" /\ Prepare(p) /\ UNCHANGED <<registry, env>> /\ lock' = None
      /\ lock = p
  BY DEF Checkout, At, BInv, HoldersLock
<1>2. PICK c \in {"apply", "clean"} :
        /\ build' = [build EXCEPT ![p] = Place(p, c, build[p].from)]
        /\ build[p].key \in Diffs => c = "apply"
  BY <1>1, PrepareIs DEF BInv, Working
<1>3. build'[p] = Place(p, c, build[p].from)
  BY <1>2 DEF BInv, ImageTypes
<1>4. /\ clone' = [tree |-> clone'.tree, has |-> clone'.has, dyn |-> clone'.dyn,
                   layout |-> clone'.layout]
      /\ clone'.has = clone.has /\ clone'.tree = "full"
  <2>1. clone = [tree |-> clone.tree, has |-> clone.has, dyn |-> clone.dyn,
                 layout |-> clone.layout]
    BY DEF BInv, ImageTypes
  <2>2. clone' = [clone EXCEPT !.tree = "full"]
    BY DEF Checkout
  <2> QED BY <2>1, <2>2
<1>5. build[p].key \in Diffs /\ CloneIsOwn(p) => CloneIsOwn(p)'
  BY <1>1, <1>2, <1>3, <1>4 DEF CloneIsOwn, Place, env
<1> QED BY <1>1, <1>2, <1>4, <1>5, GoKeeps DEF Working

LEMMA GitFailsKeeps == ASSUME BInv, NEW p \in Procs, GitFails(p) PROVE BInv'
<1>1. /\ build[p].pc \in {"clone", "checkout"} /\ clone' = Absent /\ UNCHANGED <<registry, env>>
      /\ lock = p
  BY DEF GitFails, At, BInv, HoldersLock
<1>2. CASE build[p].from = "remote"
  <2>1. /\ build' = [build EXCEPT ![p] = Place(p, "clone", "local")] /\ UNCHANGED lock
    BY <1>2 DEF GitFails, Place, BInv, ImageTypes
  <2>2. build'[p] = Place(p, "clone", "local")
    BY <2>1 DEF BInv, ImageTypes
  <2>3. CloneIsOwn(p) => CloneIsOwn(p)'
    BY <1>1, <2>2 DEF CloneIsOwn, Place, env, Absent
  <2>4. /\ clone'.tree = "absent"
        /\ clone' = [tree |-> clone'.tree, has |-> clone'.has, dyn |-> clone'.dyn,
                     layout |-> clone'.layout]
    BY <1>1 DEF Absent
  <2> QED BY <1>1, <2>1, <2>3, <2>4, GoKeeps DEF Working
<1>3. CASE build[p].from # "remote"
  <2>1. End(p) /\ lock' = None /\ UNCHANGED <<registry, cwd, alone, whole>>
    BY <1>1, <1>3 DEF GitFails, env
  <2>2. build[p] # Idle /\ clone'.tree = "absent"
    BY <1>1 DEF Idle, Absent
  <2>3. whole \in BOOLEAN
    BY DEF BInv, ImageTypes
  <2> QED BY <1>1, <2>1, <2>2, <2>3, EndKeeps
<1> QED BY <1>2, <1>3

LEMMA ApplyChangesKeeps == ASSUME BInv, NEW p \in Procs, Apply(p) PROVE BInv'
<1>1. build[p].pc = "apply" /\ Goto(p, "clean") /\ UNCHANGED <<lock, registry, env>>
  BY DEF Apply, At
<1>2. build' = [build EXCEPT ![p] = Place(p, "clean", build[p].from)]
  BY <1>1, GotoIs DEF BInv, Working
<1>3. build'[p] = Place(p, "clean", build[p].from)
  BY <1>2 DEF BInv, ImageTypes
<1>4. PICK now \in {{}, {cwd} \ {None}} :
        clone' = [clone EXCEPT !.has = @ \union {build[p].key} \union now]
  BY DEF Apply
<1>5. /\ clone' = [tree |-> clone'.tree, has |-> clone'.has, dyn |-> clone'.dyn,
                   layout |-> clone'.layout]
      /\ clone'.tree = clone.tree
      /\ clone'.has = clone.has \union {build[p].key} \union now
  <2>1. clone = [tree |-> clone.tree, has |-> clone.has, dyn |-> clone.dyn,
                 layout |-> clone.layout]
    BY DEF BInv, ImageTypes
  <2> QED BY <1>4, <2>1
<1>6. CloneIsOwn(p) => CloneIsOwn(p)'
  <2> SUFFICES ASSUME CloneIsOwn(p) PROVE CloneIsOwn(p)' OBVIOUS
  <2>1. clone.tree = "full" /\ clone.has = {} /\ (build[p].steady => cwd = build[p].key)
    BY <1>1 DEF CloneIsOwn
  <2>2. build[p].steady => clone'.has = {build[p].key}
    BY <1>4, <1>5, <2>1
  <2> QED BY <1>1, <1>3, <1>5, <2>1, <2>2 DEF CloneIsOwn, Place, env
<1>7. lock' \in Procs \cup {None}
  BY <1>1 DEF BInv, ImageTypes
<1> QED BY <1>1, <1>2, <1>5, <1>6, <1>7, GoKeeps DEF Working

LEMMA CleanKeeps == ASSUME BInv, NEW p \in Procs, Clean(p) PROVE BInv'
<1>1. build[p].pc = "clean" /\ Goto(p, "write") /\ UNCHANGED <<lock, registry, env>>
  BY DEF Clean, At
<1>2. build' = [build EXCEPT ![p] = Place(p, "write", build[p].from)]
  BY <1>1, GotoIs DEF BInv, Working
<1>3. build'[p] = Place(p, "write", build[p].from)
  BY <1>2 DEF BInv, ImageTypes
<1>4. /\ clone' = [tree |-> clone'.tree, has |-> clone'.has, dyn |-> clone'.dyn,
                   layout |-> clone'.layout]
      /\ clone'.tree = clone.tree /\ clone'.has = clone.has
  <2>1. clone = [tree |-> clone.tree, has |-> clone.has, dyn |-> clone.dyn,
                 layout |-> clone.layout]
    BY DEF BInv, ImageTypes
  <2>2. clone' = [clone EXCEPT !.layout = None]
    BY DEF Clean
  <2> QED BY <2>1, <2>2
<1>5. CloneIsOwn(p) => CloneIsOwn(p)'
  BY <1>1, <1>3, <1>4 DEF CloneIsOwn, Place, env
<1>6. lock' \in Procs \cup {None}
  BY <1>1 DEF BInv, ImageTypes
<1> QED BY <1>1, <1>2, <1>4, <1>5, <1>6, GoKeeps DEF Working

LEMMA WriteBuildFileKeeps == ASSUME BInv, NEW p \in Procs, WriteBuildFile(p) PROVE BInv'
<1>1. build[p].pc = "write" /\ Goto(p, "build") /\ UNCHANGED <<lock, registry, env>>
  BY DEF WriteBuildFile, At
<1>2. build' = [build EXCEPT ![p] = Place(p, "build", build[p].from)]
  BY <1>1, GotoIs DEF BInv, Working
<1>3. build'[p] = Place(p, "build", build[p].from)
  BY <1>2 DEF BInv, ImageTypes
<1>4. /\ clone' = [tree |-> clone'.tree, has |-> clone'.has, dyn |-> clone'.dyn,
                   layout |-> clone'.layout]
      /\ clone'.tree = clone.tree /\ clone'.has = clone.has /\ clone'.dyn = build[p].key
  <2>1. clone = [tree |-> clone.tree, has |-> clone.has, dyn |-> clone.dyn,
                 layout |-> clone.layout]
    BY DEF BInv, ImageTypes
  <2>2. clone' = [clone EXCEPT !.dyn = build[p].key]
    BY DEF WriteBuildFile
  <2> QED BY <2>1, <2>2
<1>5. CloneIsOwn(p) => CloneIsOwn(p)'
  BY <1>1, <1>3, <1>4 DEF CloneIsOwn, Place, env
<1>6. lock' \in Procs \cup {None}
  BY <1>1 DEF BInv, ImageTypes
<1> QED BY <1>1, <1>2, <1>4, <1>5, <1>6, GoKeeps DEF Working

LEMMA BazelBuildKeeps == ASSUME BInv, NEW p \in Procs, BazelBuild(p) PROVE BInv'
<1>1. build[p].pc = "build" /\ Goto(p, "layout") /\ UNCHANGED <<lock, registry, env>>
  BY DEF BazelBuild, At
<1>2. build' = [build EXCEPT ![p] = Place(p, "layout", build[p].from)]
  BY <1>1, GotoIs DEF BInv, Working
<1>3. build'[p] = Place(p, "layout", build[p].from)
  BY <1>2 DEF BInv, ImageTypes
<1>4. /\ clone' = [tree |-> clone'.tree, has |-> clone'.has, dyn |-> clone'.dyn,
                   layout |-> clone'.layout]
      /\ clone'.tree = clone.tree /\ clone'.has = clone.has /\ clone'.dyn = clone.dyn
      /\ clone'.layout = [tree |-> clone.tree, has |-> clone.has, label |-> clone.dyn]
  <2>1. clone = [tree |-> clone.tree, has |-> clone.has, dyn |-> clone.dyn,
                 layout |-> clone.layout]
    BY DEF BInv, ImageTypes
  <2>2. clone' = [clone EXCEPT !.layout = [tree |-> clone.tree, has |-> clone.has,
                                           label |-> clone.dyn]]
    BY DEF BazelBuild
  <2> QED BY <2>1, <2>2
<1>5. CloneIsOwn(p) => CloneIsOwn(p)'
  <2> SUFFICES ASSUME CloneIsOwn(p) PROVE CloneIsOwn(p)' OBVIOUS
  <2>1. /\ build'[p].pc = "layout" /\ build'[p].key = build[p].key
        /\ build'[p].steady = build[p].steady /\ cwd' = cwd
    BY <1>1, <1>3 DEF Place, env
  <2>2. /\ build[p].steady => clone.tree = "full" /\ clone.has = {build[p].key}
        /\ build[p].steady => clone.dyn = build[p].key /\ cwd = build[p].key
    BY <1>1 DEF CloneIsOwn
  <2>3. build[p].steady => clone'.layout = Exact(build[p].key)
    BY <1>4, <2>2 DEF Exact
  <2> QED BY <1>4, <2>1, <2>2, <2>3 DEF CloneIsOwn
<1>6. lock' \in Procs \cup {None}
  BY <1>1 DEF BInv, ImageTypes
<1> QED BY <1>1, <1>2, <1>4, <1>5, <1>6, GoKeeps DEF Working

(* The steps that end a build: a lock that is taken, a clone that is gone, *)
(* a failure, a kill and an interrupt.                                     *)
LEMMA EndingKeeps ==
  ASSUME BInv, NEW p \in Procs, Contended(p) \/ CloneGone(p) \/ StepFails(p)
  PROVE  BInv'
<1>1. /\ End(p) /\ UNCHANGED <<clone, registry, cwd, alone, whole>> /\ build[p] # Idle
      /\ whole \in BOOLEAN
  BY DEF Contended, CloneGone, StepFails, At, env, Idle, BInv, ImageTypes
<1>2. build[p].pc = "checkout" => clone.tree # "half"
  BY DEF Contended, CloneGone, StepFails, At, Cached
<1>3. lock' \in Procs \cup {None} /\ \A q \in Procs \ {p} : lock = q => lock' = q
  <2>1. CASE UNCHANGED lock
    BY <2>1 DEF BInv, ImageTypes
  <2>2. CASE CloneGone(p)
    BY <2>2 DEF CloneGone, At, BInv, HoldersLock
  <2> QED BY <2>1, <2>2 DEF Contended, StepFails
<1> QED BY <1>1, <1>2, <1>3, EndKeeps

LEMMA StopKeeps ==
  ASSUME BInv, NEW p \in Procs, Kill(p) \/ Interrupt(p)
  PROVE  BInv'
<1>1. /\ End(p) /\ UNCHANGED <<clone, registry, cwd, alone>> /\ build[p] # Idle
      /\ whole' = FALSE
  BY DEF Kill, Interrupt, Stop, At, Idle
<1>2. lock' \in Procs \cup {None} /\ \A q \in Procs \ {p} : lock = q => lock' = q
  BY DEF Kill, Interrupt, BInv, ImageTypes
<1> QED BY <1>1, <1>2, EndKeeps

LEMMA BeginBuildKeeps ==
  ASSUME BInv, NEW p \in Procs, NEW policy \in Policies, Begin(p, policy)
  PROVE  BInv'
<1> DEFINE new == [pc |-> IF policy = "apply" /\ cwd # None THEN "invalidate" ELSE "check",
                   key |-> IF policy = "apply" THEN cwd ELSE None,
                   from |-> "remote", steady |-> TRUE]
<1>1. /\ build[p].pc = "idle" /\ build' = [build EXCEPT ![p] = new]
      /\ alone' = (alone /\ \A q \in Procs : build[q].pc = "idle")
      /\ UNCHANGED <<clone, lock, cwd, registry, whole>>
  BY DEF Begin, At
<1>2. build' = [q \in Procs |-> build'[q]] /\ build'[p] = new
      /\ \A q \in Procs \ {p} : build'[q] = build[q]
  BY <1>1 DEF BInv, ImageTypes
<1>3. \A q \in Procs : build[q].pc = "idle" => build[q] = Idle
  BY DEF BInv, ImageTypes, BuildShape, Working
<1>4. /\ new.pc \in {"invalidate", "check"} /\ new.key \in Keys /\ new.steady = TRUE
      /\ new.key \in Diffs => new.pc = "invalidate" /\ new.key = cwd
  BY BuildConstants DEF BInv, ImageTypes, Keys
<1>5. new = [pc |-> new.pc, key |-> new.key, from |-> new.from, steady |-> new.steady]
  OBVIOUS
<1> HIDE DEF new
<1>6. ImageTypes'
  <2>1. BuildShape(p)'
    BY <1>2, <1>4, <1>5 DEF BuildShape, Working, Keys
  <2>2. \A q \in Procs : BuildShape(q)'
    BY <1>2, <2>1 DEF BInv, ImageTypes, BuildShape
  <2> QED BY <1>1, <1>2, <2>2 DEF BInv, ImageTypes
<1>7. HoldersLock'
  BY <1>1, <1>2, <1>4 DEF BInv, HoldersLock
<1>8. HalfIsHeld'
  <2> SUFFICES ASSUME whole, clone.tree = "half"
               PROVE  \E q \in Procs : lock = q /\ build'[q].pc = "checkout"
    BY <1>1 DEF HalfIsHeld
  <2>1. PICK q \in Procs : lock = q /\ build[q].pc = "checkout"
    BY DEF BInv, HalfIsHeld
  <2> QED BY <1>1, <1>2, <2>1
<1>9. alone' => \A q \in Procs \ {p} : build'[q] = Idle
  BY <1>1, <1>2, <1>3
<1>10. OneBuilds'
  BY <1>9 DEF OneBuilds
<1>11. ClonesAreOwn'
  <2> SUFFICES ASSUME alone', build'[p].key \in Diffs PROVE CloneIsOwn(p)'
    BY <1>9 DEF ClonesAreOwn
  <2> QED BY <1>1, <1>2, <1>4 DEF CloneIsOwn
<1>12. TagsAreExact'
  BY <1>1 DEF BInv, TagsAreExact
<1> QED BY <1>6, <1>7, <1>8, <1>10, <1>11, <1>12 DEF BInv

(* A change of the working directory: no build under way is steady.        *)
LEMMA EditKeeps == ASSUME BInv, NEW d \in Keys, Edit(d) PROVE BInv'
<1>1. /\ build' = [p \in Procs |-> IF build[p].pc = "idle" THEN Idle
                                   ELSE [build[p] EXCEPT !.steady = FALSE]]
      /\ cwd' = d /\ UNCHANGED <<clone, lock, registry, alone, whole>>
  BY DEF Edit, At
<1>2. \A p \in Procs : build[p].pc = "idle" <=> build[p] = Idle
  BY DEF BInv, ImageTypes, BuildShape, Working, Idle
<1>3. ASSUME NEW p \in Procs
      PROVE  /\ BuildShape(p)' /\ build'[p].pc = build[p].pc
             /\ build'[p] = Idle <=> build[p] = Idle
             /\ build[p] # Idle => build'[p].key = build[p].key /\ build'[p].steady = FALSE
  <2>1. CASE build[p] = Idle
    BY <1>1, <1>2, <2>1 DEF BuildShape
  <2>2. CASE build[p].pc \in Working /\ build[p] # Idle
    <3>1. /\ build[p] = [pc |-> build[p].pc, key |-> build[p].key, from |-> build[p].from,
                         steady |-> build[p].steady]
          /\ build[p].key \in Keys
      BY <2>2 DEF BInv, ImageTypes, BuildShape, Working
    <3>2. build'[p] = [pc |-> build[p].pc, key |-> build[p].key, from |-> build[p].from,
                       steady |-> FALSE]
      BY <1>1, <1>2, <2>2, <3>1
    <3> QED BY <2>2, <3>1, <3>2 DEF BuildShape, Idle, Working, Keys
  <2>3. CASE build[p].pc = "push"
    <3>1. /\ build[p] = [pc |-> "push", key |-> build[p].key, steady |-> build[p].steady,
                         image |-> build[p].image, todo |-> build[p].todo]
          /\ build[p].key \in Keys
      BY <2>3 DEF BInv, ImageTypes, BuildShape, Working, Idle
    <3>2. build'[p] = [pc |-> "push", key |-> build[p].key, steady |-> FALSE,
                       image |-> build[p].image, todo |-> build[p].todo]
      BY <1>1, <2>3, <3>1
    <3> QED BY <2>3, <3>1, <3>2 DEF BuildShape, Idle, Keys
  <2> QED BY <2>1, <2>2, <2>3 DEF BInv, ImageTypes, BuildShape
<1>4. ImageTypes'
  BY <1>1, <1>3 DEF BInv, ImageTypes, Keys
<1>5. HoldersLock' /\ HalfIsHeld'
  BY <1>1, <1>3 DEF BInv, HoldersLock, HalfIsHeld
<1>6. OneBuilds'
  BY <1>1, <1>3 DEF BInv, OneBuilds
<1>7. ClonesAreOwn'
  <2> SUFFICES ASSUME alone, NEW p \in Procs, build[p] # Idle, build[p].key \in Diffs
               PROVE  CloneIsOwn(p)'
    BY <1>1, <1>3 DEF ClonesAreOwn
  <2>1. CloneIsOwn(p)
    BY DEF BInv, ClonesAreOwn
  <2> QED BY <1>1, <1>3, <2>1 DEF CloneIsOwn
<1>8. TagsAreExact'
  BY <1>1 DEF BInv, TagsAreExact
<1> QED BY <1>4, <1>5, <1>6, <1>7, <1>8 DEF BInv

LEMMA MaterializeKeeps == ASSUME BInv, NEW p \in Procs, Materialize(p) PROVE BInv'
<1> DEFINE new == [pc |-> "push", key |-> build[p].key, steady |-> build[p].steady,
                   image |-> clone.layout, todo |-> Targets]
<1>1. /\ build[p].pc = "layout" /\ build' = [build EXCEPT ![p] = new]
      /\ UNCHANGED <<clone, lock, cwd, registry, alone, whole>>
  BY DEF Materialize, At, env
<1>2. build' = [q \in Procs |-> build'[q]] /\ build'[p] = new
      /\ \A q \in Procs \ {p} : build'[q] = build[q]
  BY <1>1 DEF BInv, ImageTypes
<1>3. build[p] # Idle /\ build[p].key \in Keys /\ build[p].steady \in BOOLEAN
  BY <1>1 DEF BInv, ImageTypes, BuildShape, Idle
<1>4. ImageTypes'
  <2>1. BuildShape(p)'
    BY <1>2, <1>3 DEF BuildShape, Keys
  <2>2. \A q \in Procs : BuildShape(q)'
    BY <1>2, <2>1 DEF BInv, ImageTypes, BuildShape
  <2> QED BY <1>1, <1>2, <2>2 DEF BInv, ImageTypes
<1>5. HoldersLock'
  BY <1>1, <1>2 DEF BInv, HoldersLock
<1>6. HalfIsHeld'
  <2> SUFFICES ASSUME whole, clone.tree = "half"
               PROVE  \E q \in Procs : lock = q /\ build'[q].pc = "checkout"
    BY <1>1 DEF HalfIsHeld
  <2>1. PICK q \in Procs : lock = q /\ build[q].pc = "checkout"
    BY DEF BInv, HalfIsHeld
  <2> QED BY <1>1, <1>2, <2>1
<1>7. alone => \A q \in Procs \ {p} : build'[q] = Idle
  BY <1>2, <1>3 DEF BInv, OneBuilds
<1>8. OneBuilds'
  BY <1>1, <1>7 DEF OneBuilds
<1>9. ClonesAreOwn'
  <2> SUFFICES ASSUME alone, build[p].key \in Diffs PROVE CloneIsOwn(p)'
    BY <1>1, <1>2, <1>7 DEF ClonesAreOwn
  <2>1. CloneIsOwn(p)
    BY <1>3 DEF BInv, ClonesAreOwn
  <2> QED BY <1>1, <1>2, <2>1 DEF CloneIsOwn
<1>10. TagsAreExact'
  BY <1>1 DEF BInv, TagsAreExact
<1> QED BY <1>4, <1>5, <1>6, <1>8, <1>9, <1>10 DEF BInv

(* A tag that is pushed is exact, and the build goes on or ends.           *)
LEMMA PushKeeps == ASSUME BInv, NEW p \in Procs, NEW t \in Targets, Push(p, t) PROVE BInv'
<1> DEFINE pushed == [tree |-> build[p].image.tree, has |-> build[p].image.has,
                      label |-> build[p].image.label, steady |-> build[p].steady /\ alone]
<1>1. /\ build[p].pc = "push" /\ registry' = [registry EXCEPT ![<<t, build[p].key>>] = pushed]
      /\ UNCHANGED <<clone, lock, cwd, alone, whole>>
  BY DEF Push, At, env
<1>2. /\ build[p] = [pc |-> "push", key |-> build[p].key, steady |-> build[p].steady,
                     image |-> build[p].image, todo |-> build[p].todo]
      /\ build[p].key \in Keys /\ build[p].steady \in BOOLEAN /\ build[p] # Idle
  BY <1>1 DEF BInv, ImageTypes, BuildShape, Idle, Working
<1>3. /\ build' = [q \in Procs |-> build'[q]] /\ \A q \in Procs \ {p} : build'[q] = build[q]
      /\ \/ build'[p] = Idle
         \/ build'[p] = [pc |-> "push", key |-> build[p].key, steady |-> build[p].steady,
                         image |-> build[p].image, todo |-> build[p].todo \ {t}]
  <2>1. CASE build[p].todo = {t}
    BY <2>1 DEF Push, End, BInv, ImageTypes
  <2>2. CASE build[p].todo # {t}
    <3>1. build' = [build EXCEPT ![p].todo = @ \ {t}]
      BY <2>2 DEF Push
    <3>2. /\ build' = [q \in Procs |-> build'[q]] /\ \A q \in Procs \ {p} : build'[q] = build[q]
          /\ build'[p] = [build[p] EXCEPT !.todo = @ \ {t}]
      BY <3>1 DEF BInv, ImageTypes
    <3>3. [build[p] EXCEPT !.todo = @ \ {t}]
            = [pc |-> "push", key |-> build[p].key, steady |-> build[p].steady,
               image |-> build[p].image, todo |-> build[p].todo \ {t}]
      BY <1>2
    <3> QED BY <3>2, <3>3
  <2> QED BY <2>1, <2>2
<1>4. ImageTypes'
  <2>1. BuildShape(p)'
    BY <1>2, <1>3 DEF BuildShape, Keys
  <2>2. \A q \in Procs : BuildShape(q)'
    BY <1>3, <2>1 DEF BInv, ImageTypes, BuildShape
  <2>3. registry' = [tk \in Targets \X Keys |-> registry'[tk]]
    BY <1>1 DEF BInv, ImageTypes
  <2> QED BY <1>1, <1>3, <2>2, <2>3 DEF BInv, ImageTypes, Keys
<1>5. HoldersLock'
  BY <1>1, <1>3 DEF BInv, HoldersLock, Idle
<1>6. HalfIsHeld'
  <2> SUFFICES ASSUME whole, clone.tree = "half"
               PROVE  \E q \in Procs : lock = q /\ build'[q].pc = "checkout"
    BY <1>1 DEF HalfIsHeld
  <2>1. PICK q \in Procs : lock = q /\ build[q].pc = "checkout"
    BY DEF BInv, HalfIsHeld
  <2> QED BY <1>1, <1>3, <2>1
<1>7. alone => \A q \in Procs \ {p} : build'[q] = Idle
  BY <1>2, <1>3 DEF BInv, OneBuilds
<1>8. OneBuilds'
  BY <1>1, <1>7 DEF OneBuilds
<1>9. alone /\ build[p].key \in Diffs => CloneIsOwn(p)
  BY <1>2 DEF BInv, ClonesAreOwn
<1>10. ClonesAreOwn'
  <2> SUFFICES ASSUME alone, build'[p] # Idle, build'[p].key \in Diffs PROVE CloneIsOwn(p)'
    BY <1>1, <1>7 DEF ClonesAreOwn
  <2> QED BY <1>1, <1>2, <1>3, <1>9 DEF CloneIsOwn
<1>11. TagsAreExact'
  <2>1. alone /\ build[p].key \in Diffs /\ build[p].steady => build[p].image = Exact(build[p].key)
    BY <1>1, <1>9 DEF CloneIsOwn
  <2>2. ASSUME NEW u \in Targets, NEW d \in Diffs, registry'[<<u, d>>] # None,
               registry'[<<u, d>>].steady
        PROVE  /\ registry'[<<u, d>>].tree = "full" /\ registry'[<<u, d>>].has = {d}
               /\ registry'[<<u, d>>].label = d
    <3>1. CASE u = t /\ d = build[p].key
      <4>1. registry'[<<u, d>>] = pushed
        BY <1>1, <1>2, <3>1 DEF BInv, ImageTypes
      <4>2. alone /\ build[p].steady
        <5>1. pushed.steady = (build[p].steady /\ alone)
          OBVIOUS
        <5>2. pushed.steady
          BY <2>2, <4>1
        <5> HIDE DEF pushed
        <5> QED BY <5>1, <5>2, Zenon
      <4>3. build[p].image = Exact(d)
        BY <2>1, <3>1, <4>2
      <4> QED BY <4>1, <4>3 DEF Exact
    <3>2. CASE ~(u = t /\ d = build[p].key)
      <4>1. registry'[<<u, d>>] = registry[<<u, d>>]
        <5>1. <<u, d>> # <<t, build[p].key>> /\ <<u, d>> \in Targets \X Keys
          BY <3>2 DEF Keys
        <5> QED BY <1>1, <5>1 DEF BInv, ImageTypes
      <4> QED BY <2>2, <4>1 DEF BInv, TagsAreExact
    <3> QED BY <3>1, <3>2
  <2> QED BY <2>2 DEF TagsAreExact
<1> QED BY <1>4, <1>5, <1>6, <1>8, <1>10, <1>11 DEF BInv

LEMMA NextBInv == BInv /\ [Next]_vars => BInv'
<1> SUFFICES ASSUME BInv, [Next]_vars PROVE BInv' OBVIOUS
<1>1. ASSUME NEW d \in Keys, Edit(d) PROVE BInv'
  BY <1>1, EditKeeps
<1>2. ASSUME NEW p \in Procs, NEW policy \in Policies, Begin(p, policy) PROVE BInv'
  BY <1>2, BeginBuildKeeps
<1>3. ASSUME NEW p \in Procs, Invalidate(p) \/ Check(p) \/ Acquire(p) \/ Recheck(p) PROVE BInv'
  BY <1>3, InvalidateKeeps, CheckKeeps, AcquireKeeps, RecheckKeeps
<1>4. ASSUME NEW p \in Procs, CloneHead(p) \/ Checkout(p) \/ GitFails(p) PROVE BInv'
  BY <1>4, CloneHeadKeeps, CheckoutKeeps, GitFailsKeeps
<1>5. ASSUME NEW p \in Procs, Apply(p) \/ Clean(p) \/ WriteBuildFile(p) \/ BazelBuild(p) PROVE BInv'
  BY <1>5, ApplyChangesKeeps, CleanKeeps, WriteBuildFileKeeps, BazelBuildKeeps
<1>6. ASSUME NEW p \in Procs, NEW t \in Targets, Push(p, t) PROVE BInv'
  BY <1>6, PushKeeps
<1>7. ASSUME NEW p \in Procs, Materialize(p) PROVE BInv'
  BY <1>7, MaterializeKeeps
<1>8. ASSUME NEW p \in Procs, Contended(p) \/ CloneGone(p) \/ StepFails(p) \/ Kill(p) \/ Interrupt(p)
      PROVE  BInv'
  BY <1>8, EndingKeeps, StopKeeps
<1>9. CASE UNCHANGED vars
  <2>1. ImageTypes'
    BY <1>9 DEF vars, BInv, ImageTypes, BuildShape
  <2>2. HoldersLock' /\ HalfIsHeld' /\ OneBuilds'
    BY <1>9 DEF vars, BInv, HoldersLock, HalfIsHeld, OneBuilds
  <2>3. ClonesAreOwn'
    BY <1>9 DEF vars, BInv, ClonesAreOwn, CloneIsOwn
  <2>4. TagsAreExact'
    BY <1>9 DEF vars, BInv, TagsAreExact
  <2> QED BY <2>1, <2>2, <2>3, <2>4 DEF BInv
<1> QED BY <1>1, <1>2, <1>3, <1>4, <1>5, <1>6, <1>7, <1>8, <1>9 DEF Next

LEMMA InitBInv == Init => BInv
<1> SUFFICES ASSUME Init PROVE BInv OBVIOUS
<1>1. \A p \in Procs : build[p] = Idle
  BY DEF Init
<1>2. ImageTypes
  BY <1>1 DEF Init, ImageTypes, BuildShape, Absent, Keys
<1>3. HoldersLock /\ HalfIsHeld
  BY <1>1 DEF Init, HoldersLock, HalfIsHeld, Absent, Idle
<1>4. OneBuilds /\ ClonesAreOwn
  BY <1>1 DEF OneBuilds, ClonesAreOwn
<1>5. TagsAreExact
  BY DEF Init, TagsAreExact, Keys
<1> QED BY <1>2, <1>3, <1>4, <1>5 DEF BInv

(* The image of a tag that names changes is exact, and a clone that nobody *)
(* holds and a later build takes is checked out.                           *)
THEOREM DirtyTagsAreExact == Spec => []DirtyTagIsExact
<1>1. BInv => DirtyTagIsExact
  <2> SUFFICES ASSUME BInv PROVE DirtyTagIsExact OBVIOUS
  <2>1. whole /\ lock = None => clone.tree # "half"
    BY BuildConstants DEF BInv, HalfIsHeld
  <2>2. TagsAreExact
    BY DEF BInv
  <2> QED BY <2>1, <2>2 DEF DirtyTagIsExact, TagsAreExact
<1> QED BY InitBInv, NextBInv, <1>1, PTL DEF Spec

=============================================================================
