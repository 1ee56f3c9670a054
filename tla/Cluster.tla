------------------------------ MODULE Cluster ------------------------------
(***************************************************************************)
(* The Kubernetes cluster, as far as the gateway reads and writes it        *)
(* through computing/docker/k8s_service.go and the client set: Deployments, *)
(* the NodePort service the gateway creates for the first Deployment of a   *)
(* yaml, and the Services a yaml brings along.                              *)
(*                                                                          *)
(* The API server is external.  Each operator below is the effect of one    *)
(* accepted call; whether a call is refused or its answer lost is decided   *)
(* by the module that makes it.                                             *)
(***************************************************************************)
EXTENDS Naturals, FiniteSets

CONSTANTS
    Apps,       \* Deployment names as written in the yamls
    Accounts,   \* lower-cased user addresses: the suffix Deploy appends
    SvcNames,   \* names of the Services written in the yamls
    Ports,      \* node ports the cluster hands out
    Balanced,   \* apps whose pods carry the label "load-balancer-example"
    None

VARIABLES
    deployment, \* DepName -> "absent", "progressing" or "available"
    npSvc,      \* DepName -> node port of service "svc-<name>", or None
    yamlSvc,    \* SvcNames -> account whose deploy created it, or None
    leased      \* history: <<name, port>> pairs the cluster ever handed out

clusterVars == <<deployment, npSvc, yamlSvc, leased>>

ASSUME BalancedAreApps == Balanced \subseteq Apps
ASSUME NoneIsNobody ==
    /\ None \notin Ports
    /\ None \notin Accounts
    /\ None \notin Apps \X Accounts

\* "<app>-<lower-cased address>": an address has no dash, so the pair is the name.
DepName == Apps \X Accounts

ClusterTypeOK ==
    /\ deployment \in [DepName -> {"absent", "progressing", "available"}]
    /\ npSvc \in [DepName -> Ports \cup {None}]
    /\ yamlSvc \in [SvcNames -> Accounts \cup {None}]
    /\ leased \subseteq DepName \X Ports

ClusterInit ==
    /\ deployment = [d \in DepName |-> "absent"]
    /\ npSvc = [d \in DepName |-> None]
    /\ yamlSvc = [s \in SvcNames |-> None]
    /\ leased = {}

\* An order without an app names no Deployment, and the API refuses the empty name.
DeploymentExists(d) == d # None /\ deployment[d] # "absent"
ServiceExists(d) == d # None /\ npSvc[d] # None

FreePorts == Ports \ {npSvc[d] : d \in DepName}

\* A NodePort service selects its pods by the fixed label, whatever its name.
Backends == {d \in DepName : d[1] \in Balanced /\ deployment[d] = "available"}

CreateDeployment(d) ==
    /\ ~DeploymentExists(d)
    /\ deployment' = [deployment EXCEPT ![d] = "progressing"]
    /\ UNCHANGED <<npSvc, yamlSvc, leased>>

\* Mutant: Deployments are deleted by their common label instead of by name.
DeleteByLabel(d) ==
    /\ DeploymentExists(d)
    /\ deployment' = [x \in DepName |-> "absent"]
    /\ UNCHANGED <<npSvc, yamlSvc, leased>>

DeleteDeployment(d) ==
    /\ DeploymentExists(d)
    /\ deployment' = [deployment EXCEPT ![d] = "absent"]
    /\ UNCHANGED <<npSvc, yamlSvc, leased>>

CreateNodePortService(d, port) ==
    /\ ~ServiceExists(d)
    /\ port \in FreePorts
    /\ npSvc' = [npSvc EXCEPT ![d] = port]
    /\ leased' = leased \cup {<<d, port>>}
    /\ UNCHANGED <<deployment, yamlSvc>>

DeleteService(d) ==
    /\ ServiceExists(d)
    /\ npSvc' = [npSvc EXCEPT ![d] = None]
    /\ UNCHANGED <<deployment, yamlSvc, leased>>

CreateYamlService(s, account) ==
    /\ yamlSvc[s] = None
    /\ yamlSvc' = [yamlSvc EXCEPT ![s] = account]
    /\ UNCHANGED <<deployment, npSvc, leased>>

\* The containers of a Deployment come up.
BecomeAvailable(d) ==
    /\ deployment[d] = "progressing"
    /\ deployment' = [deployment EXCEPT ![d] = "available"]
    /\ UNCHANGED <<npSvc, yamlSvc, leased>>
=============================================================================
