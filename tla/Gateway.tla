------------------------------ MODULE Gateway ------------------------------
(***************************************************************************)
(* The compute gateway: the HTTP handlers that deploy an app, clean it and  *)
(* forward requests to it (computing/server/httpserver/handler.go), the     *)
(* deploy package and the local gateway they call                           *)
(* (computing/deploy/deploy.go, computing/gateway/local/local.go) and the   *)
(* order they read and write on chain (computing/gateway/remote/remote.go). *)
(*                                                                          *)
(* gin runs each request in a goroutine of its own and no lock guards the   *)
(* cluster, the database or the order: a process is one such goroutine, its *)
(* label names the next call it makes to one of those three stores, and the *)
(* calls of different processes interleave.  What a handler holds between   *)
(* two calls is its request record.  A request whose cookie, yaml or query  *)
(* is refused changes nothing and is not started here.                      *)
(***************************************************************************)
EXTENDS Cluster, Sequences

CONSTANTS
    Procs,          \* goroutines serving requests
    Users,          \* user addresses as they stand in the cookies
    Lower,          \* [Users -> Accounts], strings.ToLower
    Yamls,          \* yaml files that can be deployed
    Deps,           \* [Yamls -> Seq(Apps)], their Deployments in file order
    Svcs,           \* [Yamls -> Seq(SvcNames)], their Services in file order
    Pinned,         \* yamls whose first Deployment has a nodeSelector
    Orders,         \* order ids
    OrdersOf,       \* [Users -> SUBSET Orders], the orders a user names
    Statuses,       \* order statuses the market moves orders through
    Kinds,          \* requests that clients send
    MaxPolls,       \* polls of WaitReady (60 in the code)
    MaxInFlight,    \* requests an account has under way at most
    StartsInTime,   \* whether containers start before the last poll
    Faulty,         \* labels whose call may fail, with or without effect
    CrashAt,        \* labels at which the daemon may be killed
    MaxCrashes

VARIABLES
    entrance,   \* database, prefix "e": Users -> node port or None
    order,      \* the market contract: Orders -> status and app name
    pc,         \* label of each process
    req,        \* request of each process
    crashes     \* kills of the daemon so far

gatewayVars == <<entrance, order, pc, req, crashes>>
vars == <<deployment, npSvc, yamlSvc, leased, entrance, order, pc, req, crashes>>

AllKinds == {"deployUrl", "deployId", "clean", "compute"}
Deploying == {"deployUrl", "deployId"}
WithOrder == {"deployId", "clean", "compute"}

\* The calls, then the two ways to answer (ack: 200, fail: 4xx or 5xx).
Calls == {"getOrder", "checkSvc", "createDep", "createSvc", "createNp", "waitReady",
          "putEntrance", "setApp", "delDep", "delSvc", "checkOrder", "getEntrance",
          "forward"}
Labels == Calls \cup {"idle", "ack", "fail"}

ASSUME GatewayAssumption ==
    /\ Lower \in [Users -> Accounts]
    /\ Deps \in [Yamls -> Seq(Apps)]
    /\ Svcs \in [Yamls -> Seq(SvcNames)]
    /\ Pinned \subseteq Yamls
    /\ OrdersOf \in [Users -> SUBSET Orders]
    /\ Statuses \subseteq 0..4
    /\ Kinds \subseteq AllKinds
    /\ MaxPolls \in Nat \ {0}
    /\ MaxInFlight \in Nat
    /\ StartsInTime \in BOOLEAN
    /\ Faulty \subseteq Calls
    /\ CrashAt \subseteq Labels \ {"idle"}
    /\ MaxCrashes \in Nat
    /\ None \notin Yamls \cup Orders

\* The handlers never compare the order's user with the cookie's: that a client
\* names only orders of its own account is an assumption about clients.
ASSUME OwnOrders ==
    \A u, v \in Users : Lower[u] # Lower[v] => OrdersOf[u] \cap OrdersOf[v] = {}

Order == [status : 0..4, app : DepName \cup {None}]

Request == [kind : AllKinds, user : Users, yaml : Yamls \cup {None},
            oid : Orders \cup {None}, i : Nat, polls : Nat,
            port : Ports \cup {None}, snap : Order \cup {None}]

ASSUME NoneIsNoRecord == None \notin Request \cup Order

TypeOK ==
    /\ ClusterTypeOK
    /\ entrance \in [Users -> Ports \cup {None}]
    /\ order \in [Orders -> Order]
    /\ pc \in [Procs -> Labels]
    /\ req \in [Procs -> Request \cup {None}]
    /\ \A p \in Procs : req[p] = None <=> pc[p] = "idle"
    /\ crashes \in Nat

Init ==
    /\ ClusterInit
    /\ entrance = [u \in Users |-> None]
    /\ order \in [Orders -> [status : Statuses, app : {None}]]
    /\ pc = [p \in Procs |-> "idle"]
    /\ req = [p \in Procs |-> None]
    /\ crashes = 0

-----------------------------------------------------------------------------
(* What a process knows from its request. *)

Account(r) == Lower[r.user]

\* Mutant: the names are not suffixed.
DepUnsuffixed(r, n) == <<Deps[r.yaml][n], CHOOSE a \in Accounts : TRUE>>

\* Deploy suffixes every Deployment name with the lower-cased address.
Dep(r, n) == <<Deps[r.yaml][n], Account(r)>>

\* What DelDeploy is called with: the first Deployment of the yaml (Clean returns
\* from its loop after one iteration), or the app name read from the order.
Target(r) == IF r.kind = "clean" THEN r.snap.app ELSE Dep(r, 1)

AfterDeps(r) == IF Svcs[r.yaml] = <<>> THEN "createNp" ELSE "createSvc"

\* deps[0] and a write to its NodeSelector: either panics, gin recovers with a 500.
Panics(r) == Deps[r.yaml] = <<>> \/ r.yaml \notin Pinned

\* handlerClean drops the error of DelDeploy, the deploy handlers answer 500.
Deleted(r) == IF r.kind = "clean" THEN "ack" ELSE "fail"

InFlight(a) == Cardinality({p \in Procs : pc[p] # "idle" /\ Account(req[p]) = a})

MayFail(l) == l \in Faulty

Goto(p, l) == pc' = [pc EXCEPT ![p] = l] /\ UNCHANGED req
GotoWith(p, l, r) ==
    /\ pc' = [pc EXCEPT ![p] = l]
    /\ req' = [req EXCEPT ![p] = r]

\* Mutant: an error is answered without Clean.
CleanUpForgotten(p) == Goto(p, "fail")

\* Every error of a deploy ends in deploy.Clean(deps).
CleanUp(p) == Goto(p, "delDep")

-----------------------------------------------------------------------------
(* A request arrives, is answered, or dies with the daemon. *)

\* deployUrl calls Deploy at once (an empty yaml is refused there, and Clean then
\* has nothing to do); the other handlers read the order first.
FirstLabel(r) ==
    IF r.kind # "deployUrl" THEN "getOrder"
    ELSE IF Deps[r.yaml] = <<>> THEN "fail" ELSE "checkSvc"

Submit(p, k, u, y, o) ==
    LET r == [kind |-> k, user |-> u, yaml |-> y, oid |-> o, i |-> 1, polls |-> 0,
              port |-> None, snap |-> None]
    IN  /\ pc[p] = "idle"
        /\ InFlight(Lower[u]) < MaxInFlight
        /\ GotoWith(p, FirstLabel(r), r)
        /\ UNCHANGED <<clusterVars, entrance, order, crashes>>

Receive(p, u) ==
    \E k \in Kinds :
        \E y \in (IF k \in Deploying THEN Yamls ELSE {None}),
           o \in (IF k \in WithOrder THEN OrdersOf[u] ELSE {None}) :
            Submit(p, k, u, y, o)

\* Mutant: the request record outlives the request.
AnswerKeepsRequest(p) ==
    /\ pc[p] \in {"ack", "fail"}
    /\ Goto(p, "idle")
    /\ UNCHANGED <<clusterVars, entrance, order, crashes>>

Answer(p) ==
    /\ pc[p] \in {"ack", "fail"}
    /\ GotoWith(p, "idle", None)
    /\ UNCHANGED <<clusterVars, entrance, order, crashes>>

\* kill -9, or log.Fatal after the 10 s of Shutdown: goroutines are gone, the
\* cluster, the database and the chain stay.
Crash ==
    /\ crashes < MaxCrashes
    /\ \E p \in Procs : pc[p] # "idle"
    /\ \A p \in Procs : pc[p] \in CrashAt \cup {"idle"}
    /\ crashes' = crashes + 1
    /\ pc' = [p \in Procs |-> "idle"]
    /\ req' = [p \in Procs |-> None]
    /\ UNCHANGED <<clusterVars, entrance, order>>

-----------------------------------------------------------------------------
(* deploy.Deploy, CreateNodePortSvc and WaitReady. *)

\* Mutant: an existing service is waited for instead of refused.
CheckSvcWaits(p) ==
    /\ pc[p] = "checkSvc"
    /\ ~ServiceExists(Dep(req[p], 1))
    /\ Goto(p, "createDep")
    /\ UNCHANGED <<clusterVars, entrance, order, crashes>>

\* The error of GetServiceByName is dropped: a failed lookup reads as "no service".
CheckSvc(p) ==
    /\ pc[p] = "checkSvc"
    /\ \/ ServiceExists(Dep(req[p], 1)) /\ CleanUp(p)
       \/ ~ServiceExists(Dep(req[p], 1)) /\ Goto(p, "createDep")
       \/ MayFail("checkSvc") /\ Goto(p, "createDep")
    /\ UNCHANGED <<clusterVars, entrance, order, crashes>>

\* Mutant: the deploy goes on at the index it stopped at (i is not reset).
CreateDepKeepsIndex(p) ==
    LET r == req[p] IN
    /\ pc[p] = "createDep"
    /\ CreateDeployment(Dep(r, r.i))
    /\ GotoWith(p, IF r.i < Len(Deps[r.yaml]) THEN "createDep" ELSE "waitReady",
                [r EXCEPT !.i = @ + 1])
    /\ UNCHANGED <<entrance, order, crashes>>

CreateDep(p) ==
    LET r == req[p] IN
    /\ pc[p] = "createDep"
    /\ \/ /\ CreateDeployment(Dep(r, r.i))
          /\ IF r.i < Len(Deps[r.yaml])
             THEN GotoWith(p, "createDep", [r EXCEPT !.i = @ + 1])
             ELSE GotoWith(p, AfterDeps(r), [r EXCEPT !.i = 1])
       \/ /\ DeploymentExists(Dep(r, r.i)) \/ MayFail("createDep")
          /\ CleanUp(p)
          /\ UNCHANGED clusterVars
       \/ MayFail("createDep") /\ CreateDeployment(Dep(r, r.i)) /\ CleanUp(p)
    /\ UNCHANGED <<entrance, order, crashes>>

\* The Services of the yaml keep their name, and their errors are dropped.
CreateSvc(p) ==
    LET r == req[p]
        s == Svcs[r.yaml][r.i]
    IN  /\ pc[p] = "createSvc"
        /\ \/ CreateYamlService(s, Account(r))
           \/ (yamlSvc[s] # None \/ MayFail("createSvc")) /\ UNCHANGED clusterVars
        /\ IF r.i < Len(Svcs[r.yaml])
           THEN GotoWith(p, "createSvc", [r EXCEPT !.i = @ + 1])
           ELSE GotoWith(p, "createNp", [r EXCEPT !.i = 1])
        /\ UNCHANGED <<entrance, order, crashes>>

CreateNp(p) ==
    LET r == req[p] IN
    /\ pc[p] = "createNp"
    /\ \/ \E port \in Ports :
            /\ CreateNodePortService(Dep(r, 1), port)
            /\ GotoWith(p, "waitReady", [r EXCEPT !.port = port])
       \/ /\ ServiceExists(Dep(r, 1)) \/ FreePorts = {} \/ MayFail("createNp")
          /\ CleanUp(p)
          /\ UNCHANGED clusterVars
       \/ /\ MayFail("createNp")
          /\ \E port \in Ports : CreateNodePortService(Dep(r, 1), port)
          /\ CleanUp(p)
    /\ UNCHANGED <<entrance, order, crashes>>

\* Mutant: running out of polls counts as ready.
WaitReadyGivesUpReady(p) ==
    LET r == req[p]
        d == Dep(r, r.i)
    IN  /\ pc[p] = "waitReady"
        /\ \/ /\ DeploymentExists(d)
              /\ GotoWith(p, "putEntrance", [r EXCEPT !.i = 1, !.polls = 0])
           \/ ~DeploymentExists(d) /\ CleanUp(p)
        /\ UNCHANGED <<clusterVars, entrance, order, crashes>>

\* One poll of WaitReady.  A Deployment that is gone is an error, one that is not
\* available costs a poll, the last poll fails the deploy.
WaitReady(p) ==
    LET r == req[p]
        d == Dep(r, r.i)
    IN  /\ pc[p] = "waitReady"
        /\ \/ /\ deployment[d] = "available"
              /\ IF r.i < Len(Deps[r.yaml])
                 THEN GotoWith(p, "waitReady", [r EXCEPT !.i = @ + 1, !.polls = 0])
                 ELSE GotoWith(p, "putEntrance", [r EXCEPT !.i = 1, !.polls = 0])
           \/ /\ deployment[d] = "progressing"
              /\ IF r.polls + 1 < MaxPolls
                 THEN GotoWith(p, "waitReady", [r EXCEPT !.polls = @ + 1])
                 ELSE ~StartsInTime /\ CleanUp(p)
           \/ (~DeploymentExists(d) \/ MayFail("waitReady")) /\ CleanUp(p)
        /\ UNCHANGED <<clusterVars, entrance, order, crashes>>

-----------------------------------------------------------------------------
(* GatewayLocalProcess.Deploy after deploy.Deploy, and SetApp of handlerDeployID. *)

\* Mutant: the error of DB.Put is dropped.
PutEntranceDropsError(p) ==
    LET r == req[p] IN
    /\ pc[p] = "putEntrance"
    /\ \/ entrance' = [entrance EXCEPT ![r.user] = r.port]
       \/ MayFail("putEntrance") /\ UNCHANGED entrance
    /\ Goto(p, IF r.kind = "deployId" THEN "setApp" ELSE "ack")
    /\ UNCHANGED <<clusterVars, order, crashes>>

\* Mutant: a Put that fails is tried again once the containers are seen to be up.
PutEntranceRetries(p) ==
    LET r == req[p] IN
    /\ pc[p] = "putEntrance"
    /\ \/ /\ entrance' = [entrance EXCEPT ![r.user] = r.port]
          /\ Goto(p, IF r.kind = "deployId" THEN "setApp" ELSE "ack")
       \/ MayFail("putEntrance") /\ Goto(p, "waitReady") /\ UNCHANGED entrance
    /\ UNCHANGED <<clusterVars, order, crashes>>

PutEntrance(p) ==
    LET r == req[p] IN
    /\ pc[p] = "putEntrance"
    /\ \/ /\ entrance' = [entrance EXCEPT ![r.user] = r.port]
          /\ Goto(p, IF r.kind = "deployId" THEN "setApp" ELSE "ack")
       \/ MayFail("putEntrance") /\ CleanUp(p) /\ UNCHANGED entrance
    /\ UNCHANGED <<clusterVars, order, crashes>>

\* The transaction may be mined and its receipt or the re-read of the order fail.
SetApp(p) ==
    LET r == req[p]
        mined == order' = [order EXCEPT ![r.oid].app = Dep(r, 1)]
    IN  /\ pc[p] = "setApp"
        /\ \/ mined /\ Goto(p, "ack")
           \/ MayFail("setApp") /\ (mined \/ UNCHANGED order) /\ CleanUp(p)
        /\ UNCHANGED <<clusterVars, entrance, crashes>>

-----------------------------------------------------------------------------
(* DelDeploy: the Deployment, and only if that went well its service. *)

\* Mutant: a clean deletes the Deployment and leaves its service.
DelDepOnly(p) ==
    LET d == Target(req[p]) IN
    /\ pc[p] = "delDep"
    /\ \/ DeleteDeployment(d)
       \/ ~DeploymentExists(d) /\ UNCHANGED clusterVars
    /\ Goto(p, Deleted(req[p]))
    /\ UNCHANGED <<entrance, order, crashes>>

DelDep(p) ==
    LET d == Target(req[p]) IN
    /\ pc[p] = "delDep"
    /\ \/ DeleteDeployment(d) /\ Goto(p, "delSvc")
       \/ /\ ~DeploymentExists(d) \/ MayFail("delDep")
          /\ Goto(p, Deleted(req[p]))
          /\ UNCHANGED clusterVars
       \/ MayFail("delDep") /\ DeleteDeployment(d) /\ Goto(p, Deleted(req[p]))
    /\ UNCHANGED <<entrance, order, crashes>>

DelSvc(p) ==
    LET d == Target(req[p]) IN
    /\ pc[p] = "delSvc"
    /\ \/ DeleteService(d)
       \/ (~ServiceExists(d) \/ MayFail("delSvc")) /\ UNCHANGED clusterVars
    /\ Goto(p, Deleted(req[p]))
    /\ UNCHANGED <<entrance, order, crashes>>

-----------------------------------------------------------------------------
(* The order, and handlerCompute. *)

\* Mutant: the order is told the app's name before the app is deployed.
GetOrderNamesApp(p) ==
    LET r == req[p] IN
    /\ pc[p] = "getOrder"
    /\ r.kind = "deployId"
    /\ order' = [order EXCEPT ![r.oid].app = Dep(r, 1)]
    /\ Goto(p, "checkSvc")
    /\ UNCHANGED <<clusterVars, entrance, crashes>>

GetOrder(p) ==
    LET r == req[p]
        read == [r EXCEPT !.snap = order[r.oid]]
    IN  /\ pc[p] = "getOrder"
        /\ \/ /\ r.kind = "deployId"   \* uses the order's node id only
              /\ Goto(p, IF Panics(r) THEN "fail" ELSE "checkSvc")
           \/ r.kind = "clean" /\ GotoWith(p, "delDep", read)
           \/ r.kind = "compute" /\ GotoWith(p, "checkOrder", read)
           \/ MayFail("getOrder") /\ Goto(p, "fail")
        /\ UNCHANGED <<clusterVars, entrance, order, crashes>>

\* Mutant: the status check is gone.
CheckOrderAnyStatus(p) ==
    /\ pc[p] = "checkOrder"
    /\ Goto(p, "getEntrance")
    /\ UNCHANGED <<clusterVars, entrance, order, crashes>>

\* Status 2 is active.  ExpireCheck compares the times of the snapshot with a clock
\* read now, so whatever the snapshot says it may refuse; the arithmetic is left out.
CheckOrder(p) ==
    /\ pc[p] = "checkOrder"
    /\ \/ req[p].snap.status = 2 /\ Goto(p, "getEntrance")
       \/ Goto(p, "fail")
    /\ UNCHANGED <<clusterVars, entrance, order, crashes>>

GetEntrance(p) ==
    LET r == req[p]
        e == entrance[r.user]
    IN  /\ pc[p] = "getEntrance"
        /\ \/ e # None /\ GotoWith(p, "forward", [r EXCEPT !.port = e])
           \/ (e = None \/ MayFail("getEntrance")) /\ Goto(p, "fail")
        /\ UNCHANGED <<clusterVars, entrance, order, crashes>>

\* proxy.ServeHTTP: the answer of whatever listens on the port, or a 502.
Forward(p) ==
    /\ pc[p] = "forward"
    /\ Goto(p, "ack")
    /\ UNCHANGED <<clusterVars, entrance, order, crashes>>

-----------------------------------------------------------------------------
(* The environment: containers start, the market moves orders on. *)

ContainersStart ==
    /\ \E d \in DepName : BecomeAvailable(d)
    /\ UNCHANGED gatewayVars

MarketMoves(o) ==
    /\ \E s \in Statuses \ {order[o].status} : order' = [order EXCEPT ![o].status = s]
    /\ UNCHANGED <<clusterVars, entrance, pc, req, crashes>>

\* What the server does for a request it has taken on.
Serve(p) ==
    \/ CheckSvc(p) \/ CreateDep(p) \/ CreateSvc(p) \/ CreateNp(p) \/ WaitReady(p)
    \/ PutEntrance(p) \/ SetApp(p) \/ DelDep(p) \/ DelSvc(p)
    \/ GetOrder(p) \/ CheckOrder(p) \/ GetEntrance(p) \/ Forward(p) \/ Answer(p)

Next ==
    \/ \E p \in Procs : Serve(p) \/ \E u \in Users : Receive(p, u)
    \/ ContainersStart
    \/ \E o \in Orders : MarketMoves(o)
    \/ Crash

Spec == Init /\ [][Next]_vars

\* A goroutine keeps running; a container that can start does.  Nothing is assumed
\* of clients, of the market or of faults.
Fairness ==
    /\ \A p \in Procs : WF_vars(Serve(p))
    /\ \A d \in DepName : WF_vars(BecomeAvailable(d) /\ UNCHANGED gatewayVars)

FairSpec == Spec /\ Fairness

-----------------------------------------------------------------------------
(* Safety under every interleaving, fault and crash. *)

LeasedTo(a, port) == \E x \in Apps : <<<<x, a>>, port>> \in leased

\* The entrance the database keeps for a user is a node port the cluster once gave to
\* an app of that user's account: no interleaving of deploys, cleans, failures and
\* kills stores a port that was never leased or the port of another account
\* (local.go Deploy: the port written is the one carried from CreateNodePortSvc).
EntranceProvenance ==
    \A u \in Users : entrance[u] # None => LeasedTo(Lower[u], entrance[u])

\* A request is forwarded only to a node port that was leased to the account in its
\* cookie, and only with an order read as active (handlerCompute: order, status and
\* entrance are three reads, with other requests in between).
ForwardProvenance ==
    \A p \in Procs : pc[p] = "forward" =>
        /\ LeasedTo(Account(req[p]), req[p].port)
        /\ req[p].snap.status = 2

\* The app an order names was really brought up behind a node port, by the account
\* whose users name that order (handlerDeployID calls SetApp after Deploy).
AppProvenance ==
    \A o \in Orders : order[o].app # None =>
        /\ \E port \in Ports : <<order[o].app, port>> \in leased
        /\ \E u \in Users : o \in OrdersOf[u] /\ Lower[u] = order[o].app[2]

Touched(d) ==
    \/ deployment[d] # "absent" /\ deployment'[d] = "absent"
    \/ npSvc[d] # npSvc'[d]

\* Whoever touches the app of an account serves a request of that account.
Isolated == \A d \in DepName : Touched(d) =>
    \E p \in Procs : /\ pc[p] \in {"createNp", "delDep", "delSvc"}
                     /\ pc'[p] # pc[p]
                     /\ Account(req[p]) = d[2]

\* A Deployment goes, and a NodePort service comes or goes, only at the hands of a
\* request of the account in its name: the suffix of Deploy, the order read by
\* handlerClean and the cleanup after an error never reach another account's app.
AccountIsolation == [][Isolated]_vars

-----------------------------------------------------------------------------
(* The inductive invariant: what a process at a label knows of its request. *)

DeployLabels == {"checkSvc", "createDep", "createSvc", "createNp", "waitReady",
                 "putEntrance", "setApp"}

\* The label and the request belong together, whatever the stores hold.
Fits(l, r) ==
    /\ r.kind \in Deploying => r.yaml \in Yamls
    /\ r.kind \in WithOrder => r.oid \in OrdersOf[r.user]
    /\ l \in DeployLabels => r.kind \in Deploying /\ Deps[r.yaml] # <<>>
    /\ l \in {"getOrder", "checkSvc", "createNp"} => r.i = 1
    /\ l \in {"createDep", "waitReady"} => r.i \in DOMAIN Deps[r.yaml]
    /\ l = "createSvc" => r.i \in DOMAIN Svcs[r.yaml]
    /\ l = "setApp" => r.kind = "deployId"
    /\ l = "getOrder" => r.kind \in WithOrder
    /\ l \in {"delDep", "delSvc"} =>
         \/ r.kind \in Deploying /\ Deps[r.yaml] # <<>>
         \/ r.kind = "clean" /\ r.snap \in Order
    /\ l = "delSvc" /\ r.kind = "clean" => r.snap.app # None
    /\ l \in {"checkOrder", "getEntrance", "forward"} =>
         r.kind = "compute" /\ r.snap \in Order
    /\ l \in {"getEntrance", "forward"} => r.snap.status = 2

\* What the request holds of the stores was true of them once.
Grounded(l, r) ==
    /\ l \in {"waitReady", "putEntrance", "setApp"} =>
         r.port \in Ports /\ <<Dep(r, 1), r.port>> \in leased
    /\ l = "forward" => LeasedTo(Account(r), r.port)
    /\ r.snap # None => (r.snap.app # None => r.snap.app[2] = Account(r))

\* No step of any handler, in any interleaving, separates a label from the request
\* data and the leases it relies on.
Grounding == \A p \in Procs : pc[p] # "idle" =>
    Fits(pc[p], req[p]) /\ Grounded(pc[p], req[p])

IInv == TypeOK /\ Grounding /\ EntranceProvenance /\ AppProvenance

-----------------------------------------------------------------------------
(* What a client that waits for each answer gets (MaxInFlight = 1). *)

Quiet(a) == InFlight(a) = 0

\* The Deployments a NodePort service is made for: the first of each yaml.
Fronts == {d \in DepName : \E y \in Yamls : Deps[y] # <<>> /\ d[1] = Deps[y][1]}

\* Between two requests an app is either all there (its first Deployment available, its
\* NodePort service in place) or gone altogether, whichever call of the deploy failed,
\* as long as the daemon was not killed and the two deletes of DelDeploy do not fail.
AllOrNothing ==
    crashes = 0 => \A d \in Fronts : Quiet(d[2]) =>
        \/ deployment[d] = "available" /\ npSvc[d] # None
        \/ deployment[d] = "absent" /\ npSvc[d] = None

\* Between two requests the service of an account that has one app is the entrance
\* some user of the account is forwarded to: no service lives on that nobody reaches,
\* unless a kill came between the service and the database.
Reachable ==
    crashes = 0 => \A d \in Fronts : Quiet(d[2]) /\ npSvc[d] # None =>
        \E u \in Users : Lower[u] = d[2] /\ entrance[u] = npSvc[d]

\* "[ACK] deploy ok" is true: at that moment every Deployment of the yaml is available,
\* the service of the first has the port the deploy got, the user's entrance is that
\* port and, with an order, the order names the app.
AckedDeploy ==
    \A p \in Procs : pc[p] = "ack" /\ req[p].kind \in Deploying =>
        LET r == req[p] IN
        /\ \A n \in DOMAIN Deps[r.yaml] : deployment[Dep(r, n)] = "available"
        /\ npSvc[Dep(r, 1)] = r.port
        /\ entrance[r.user] = r.port
        /\ r.kind = "deployId" => order[r.oid].app = Dep(r, 1)

\* "[ACK] clean ok" is true: neither the Deployment of the order's app nor its
\* service is left, although handlerClean drops the error of DelDeploy.
AckedClean ==
    \A p \in Procs : pc[p] = "ack" /\ req[p].kind = "clean" =>
        ~DeploymentExists(req[p].snap.app) /\ ~ServiceExists(req[p].snap.app)

-----------------------------------------------------------------------------
(* Liveness. *)

\* Every request is answered: the polls of WaitReady end, the cleanup ends.
Termination == \A p \in Procs : pc[p] # "idle" ~> pc[p] = "idle"

\* The calls a request r at label l still makes, at most, its answer included.
CallsLeft(l, r) ==
    LET n == Len(Deps[r.yaml])
        s == Len(Svcs[r.yaml])
    IN  CASE l = "idle" -> 0
          [] l \in {"ack", "fail"} -> 1
          [] l \in {"delSvc", "forward"} -> 2
          [] l \in {"delDep", "getEntrance"} -> 3
          [] l \in {"setApp", "checkOrder"} -> 4
          [] l = "putEntrance" -> 5
          [] l = "waitReady" -> 5 + (n - r.i) * MaxPolls + MaxPolls - r.polls
          [] l = "createNp" -> 6 + n * MaxPolls
          [] l = "createSvc" -> 7 + n * MaxPolls + s - r.i
          [] l = "createDep" -> 7 + n * MaxPolls + s + n - r.i
          [] l = "checkSvc" -> 7 + n * MaxPolls + s + n
          [] l = "getOrder" -> IF r.kind = "deployId" THEN 8 + n * MaxPolls + s + n ELSE 5

\* A call brings its request nearer to its answer, and nothing else that happens, the
\* request itself apart, makes work for anybody.
CallsShrink(p) ==
    LET before == CallsLeft(pc[p], req[p])
        after == CallsLeft(pc'[p], req'[p])
    IN  /\ Serve(p) => after \in 0..(before - 1)
        /\ pc[p] # "idle" => after <= before

\* A request makes no more calls than its yaml and MaxPolls allow, whatever fails, is deleted
\* under it or is never ready: no error is retried, no poll starts the wait again, and the
\* cleanup of a cleanup does not come (WaitReady's attempts, the early returns of Deploy and
\* Clean).  Termination rests on it.
CallsRunOut == [][\A p \in Procs : CallsShrink(p)]_vars

\* An account that keeps asking for a deploy gets one again and again, whatever a kill
\* left behind: the half-made deploy is cleaned by the deploy that trips over it.
Healing == \A a \in Accounts :
    []<>(\E p \in Procs : pc[p] = "ack" /\ Account(req[p]) = a /\ req[p].kind \in Deploying)

\* The clients of Healing ask whenever they may.
RetrySpec ==
    FairSpec /\ \A u \in Users : WF_vars(\E p \in Procs : Receive(p, u))

-----------------------------------------------------------------------------
(* What the source says of itself and the code does not do. *)

\* deploy.go:50 "svc exists:%s, deploy cancelled": a deploy that is cancelled because
\* the app is already there leaves that app alone.
CancelledDeployChangesNothing ==
    [][\A p \in Procs :
         LET d == Dep(req[p], 1) IN
         (/\ pc[p] = "delDep" /\ req[p].kind \in Deploying
          /\ req[p].port = None /\ ServiceExists(d) /\ DeploymentExists(d))
         => deployment'[d] = deployment[d]]_vars

\* deploy.go:218 "delete a deployment and it's svc with name": with no request of the
\* account under way, no service "svc-<name>" is left without its Deployment.
NoOrphanService ==
    \A d \in DepName : Quiet(d[2]) /\ ServiceExists(d) => DeploymentExists(d)

\* deploy.go:242 "clean all deployments from k8s if error happend when deploy": once
\* the error is answered, no Deployment of the failed yaml is left.
FailedDeployIsCleaned ==
    \A p \in Procs : pc[p] = "fail" /\ req[p].kind \in Deploying =>
        \A n \in DOMAIN Deps[req[p].yaml] : ~DeploymentExists(Dep(req[p], n))

\* computing/README.md:101, the cookie determines the identity and the entrance that
\* goes with it: a forwarded request reaches only apps of the cookie's account.
ForwardReachesOwnApp ==
    \A p \in Procs : pc[p] = "forward" /\ (\E d \in DepName : npSvc[d] = req[p].port) =>
        \A d \in Backends : d[2] = Account(req[p])
=============================================================================
