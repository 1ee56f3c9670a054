---------------------------- MODULE SerialProofs ----------------------------
(***************************************************************************)
(* Proofs about module Gateway for clients that wait: an account has one    *)
(* request under way at most, as a browser or a script that reads the       *)
(* answer before it asks again.  Other accounts run beside it, calls fail   *)
(* and the daemon is killed as everywhere in Gateway.  What a request has   *)
(* read and written of its account's things is then still so at its next    *)
(* call, because nobody else touches them (Leaves); per label, Built and    *)
(* Cleared say what that is.                                                *)
(***************************************************************************)
EXTENDS GatewayProofs, FiniteSetTheorems

\* The clients of every account wait for each answer before they ask again.
Waits == MaxInFlight = 1

\* The two deletes of DelDeploy do not fail, and no kill comes between them.
DeletesWork ==
    /\ "delDep" \notin Faulty /\ "delSvc" \notin Faulty
    /\ "delSvc" \notin CrashAt

\* A Deployment that has a service in front is not a further Deployment of any yaml.
FrontsApart ==
    \A y, z \in Yamls : Deps[z] # <<>> =>
        \A n \in DOMAIN Deps[y] : n # 1 => Deps[y][n] # Deps[z][1]

\* An account has one app: all yamls have the same first Deployment.
OneFront ==
    \A y, z \in Yamls : Deps[y] # <<>> /\ Deps[z] # <<>> => Deps[y][1] = Deps[z][1]

\* No account has two requests under way.
Alone ==
    \A p, q \in Procs :
        pc[p] # "idle" /\ pc[q] # "idle" /\ Account(req[p]) = Account(req[q]) => p = q

\* What a deploy at label l has brought about, and nobody has undone.
Built(l, r) == r.kind \in Deploying =>
    /\ l = "createDep" => \A n \in DOMAIN Deps[r.yaml] : n < r.i => deployment[Dep(r, n)] # "absent"
    /\ l \in {"createSvc", "createNp", "waitReady"} =>
         \A n \in DOMAIN Deps[r.yaml] : deployment[Dep(r, n)] # "absent"
    /\ l = "waitReady" => \A n \in DOMAIN Deps[r.yaml] : n < r.i => deployment[Dep(r, n)] = "available"
    /\ l \in {"putEntrance", "setApp", "ack"} =>
         \A n \in DOMAIN Deps[r.yaml] : deployment[Dep(r, n)] = "available"
    /\ l \in {"waitReady", "putEntrance", "setApp", "ack"} => npSvc[Dep(r, 1)] = r.port
    /\ l \in {"setApp", "ack"} => entrance[r.user] = r.port
    /\ l = "ack" => Deps[r.yaml] # <<>> /\ (r.kind = "deployId" => order[r.oid].app = Dep(r, 1))

\* What DelDeploy has cleared away.
Cleared(l, r) ==
    /\ l = "delSvc" => deployment[Target(r)] = "absent"
    /\ l = "ack" /\ r.kind = "clean" =>
         r.snap # None /\ ~DeploymentExists(r.snap.app) /\ ~ServiceExists(r.snap.app)

\* A service without its Deployment is about to be deleted.
NoOrphans ==
    \A d \in DepName : npSvc[d] # None /\ deployment[d] = "absent" =>
        \E p \in Procs : pc[p] = "delSvc" /\ Target(req[p]) = d

\* The labels between the first call of a request that changes an app and the last.
Changing == {"createDep", "createSvc", "createNp", "waitReady", "putEntrance", "setApp",
             "delDep", "delSvc"}

Working(p, d) ==
    /\ pc[p] \in Changing /\ Target(req[p]) = d
    /\ pc[p] = "createDep" => req[p].i # 1

Free(d) == \A p \in Procs : ~Working(p, d)

Settled(d) ==
    \/ deployment[d] = "available" /\ npSvc[d] # None
    \/ deployment[d] = "absent" /\ npSvc[d] = None

AllSettled == crashes = 0 => \A d \in Fronts : Free(d) => Settled(d)

Reached(d) == npSvc[d] # None => \E u \in Users : Lower[u] = d[2] /\ entrance[u] = npSvc[d]

AllReached == crashes = 0 => \A d \in Fronts : Free(d) => Reached(d)

\* The invariant of a process at a label, and the one of all of them.
Done(l, r) == Built(l, r) /\ (DeletesWork => Cleared(l, r))
AllDone == \A p \in Procs : pc[p] # "idle" => Done(pc[p], req[p])

SerialInv == Alone /\ AllDone /\ (DeletesWork => NoOrphans)

\* A step that takes nothing from account a and gives it nothing but a container that is up.
Leaves(a) ==
    /\ \A x \in Apps :
         /\ npSvc'[<<x, a>>] = npSvc[<<x, a>>]
         /\ \/ deployment'[<<x, a>>] = deployment[<<x, a>>]
            \/ deployment[<<x, a>>] = "progressing" /\ deployment'[<<x, a>>] = "available"
    /\ \A u \in Users : Lower[u] = a =>
         /\ entrance'[u] = entrance[u]
         /\ \A o \in OrdersOf[u] : order'[o].app = order[o].app

-----------------------------------------------------------------------------
(* Who is alone. *)

\* An account that has no request in flight has no busy process: the count is not fooled.
LEMMA NobodyInFlight ==
    ASSUME Alone, NEW a, InFlight(a) = 0 \/ InFlight(a) < 1
    PROVE  \A q \in Procs : pc[q] # "idle" => Account(req[q]) # a
  <1> SUFFICES ASSUME NEW q \in Procs, pc[q] # "idle", Account(req[q]) = a
               PROVE  FALSE
    OBVIOUS
  <1> DEFINE S == {p \in Procs : pc[p] # "idle" /\ Account(req[p]) = a}
  <1>1. S = {q}
    BY DEF Alone
  <1>2. Cardinality({q}) = 1
    BY FS_Singleton
  <1>3. InFlight(a) = 1
    BY <1>1, <1>2 DEF InFlight
  <1> QED
    BY <1>3

\* A step of process p moves it on with the same user, and no other process.
LEMMA ServeFrame ==
    ASSUME ProcsOK, NEW p \in Procs, Serve(p)
    PROVE  /\ pc[p] # "idle" /\ crashes' = crashes
           /\ \A q \in Procs \ {p} : pc'[q] = pc[q] /\ req'[q] = req[q]
           /\ pc'[p] # "idle" => req'[p].user = req[p].user
  <1>1. CASE Answer(p)
    BY <1>1 DEF Answer, GotoWith, ProcsOK
  <1>2. CASE \/ CheckSvc(p) \/ PutEntrance(p) \/ SetApp(p) \/ DelDep(p) \/ DelSvc(p)
             \/ CheckOrder(p) \/ Forward(p)
    <2>1. pc[p] # "idle" /\ crashes' = crashes /\ \E l \in Labels : Goto(p, l)
      BY <1>2 DEF CheckSvc, PutEntrance, SetApp, DelDep, DelSvc, CheckOrder, Forward, CleanUp, Goto,
                  Deleted, Labels, Calls
    <2> QED
      BY <2>1 DEF Goto, ProcsOK
  <1>3. CASE CreateDep(p) \/ CreateSvc(p) \/ CreateNp(p) \/ WaitReady(p) \/ GetOrder(p) \/ GetEntrance(p)
    <2>1. pc[p] # "idle" /\ crashes' = crashes
      BY <1>3 DEF CreateDep, CreateSvc, CreateNp, WaitReady, GetOrder, GetEntrance
    <2>2. PICK r \in Request : r = req[p]
      BY <2>1, BusyFacts
    <2>3. (\E l : Goto(p, l)) \/ \E l, s : GotoWith(p, l, s) /\ s.user = r.user
      <3>1. CASE CreateDep(p)
        BY <2>2, <3>1 DEF Request, CreateDep, CleanUp
      <3>2. CASE CreateSvc(p)
        BY <2>2, <3>2 DEF Request, CreateSvc
      <3>3. CASE CreateNp(p)
        <4>1. CASE CleanUp(p)
          BY <4>1 DEF CleanUp
        <4>2. CASE \E port \in Ports : GotoWith(p, "waitReady", [r EXCEPT !.port = port])
          <5>1. PICK port \in Ports : GotoWith(p, "waitReady", [r EXCEPT !.port = port])
            BY <4>2
          <5>2. [r EXCEPT !.port = port].user = r.user
            BY DEF Request
          <5> QED
            BY <5>1, <5>2
        <4> QED
          BY <2>2, <3>3, <4>1, <4>2 DEF CreateNp
      <3>4. CASE WaitReady(p)
        <4>1. CASE CleanUp(p)
          BY <4>1 DEF CleanUp
        <4>2. CASE \/ GotoWith(p, "waitReady", [r EXCEPT !.i = @ + 1, !.polls = 0])
                   \/ GotoWith(p, "putEntrance", [r EXCEPT !.i = 1, !.polls = 0])
                   \/ GotoWith(p, "waitReady", [r EXCEPT !.polls = @ + 1])
          <5>1. /\ [r EXCEPT !.i = @ + 1, !.polls = 0].user = r.user
                /\ [r EXCEPT !.i = 1, !.polls = 0].user = r.user
                /\ [r EXCEPT !.polls = @ + 1].user = r.user
            BY DEF Request
          <5> QED
            BY <4>2, <5>1
        <4> QED
          BY <2>2, <3>4, <4>1, <4>2 DEF WaitReady
      <3>5. CASE GetOrder(p)
        BY <2>2, <3>5 DEF Request, GetOrder
      <3>6. CASE GetEntrance(p)
        BY <2>2, <3>6 DEF Request, GetEntrance
      <3> QED
        BY <1>3, <3>1, <3>2, <3>3, <3>4, <3>5, <3>6
    <2> QED
      BY <2>1, <2>2, <2>3 DEF Goto, GotoWith, ProcsOK
  <1> QED
    BY <1>1, <1>2, <1>3 DEF Serve

\* A request that has just arrived has done nothing yet.
LEMMA ReceiveFrame ==
    ASSUME ProcsOK, NEW p \in Procs, NEW u \in Users, Receive(p, u)
    PROVE  /\ pc[p] = "idle" /\ InFlight(Lower[u]) < MaxInFlight
           /\ \A q \in Procs \ {p} : pc'[q] = pc[q] /\ req'[q] = req[q]
           /\ pc'[p] \in {"getOrder", "fail", "checkSvc"} /\ req'[p].user = u
           /\ UNCHANGED <<clusterVars, entrance, order, crashes>>
  <1>1. PICK k, y, o : Submit(p, k, u, y, o)
    BY DEF Receive
  <1>2. PICK r : /\ r = [kind |-> k, user |-> u, yaml |-> y, oid |-> o, i |-> 1, polls |-> 0,
                         port |-> None, snap |-> None]
                 /\ GotoWith(p, FirstLabel(r), r)
    BY <1>1 DEF Submit
  <1>3. r.user = u /\ FirstLabel(r) \in {"getOrder", "fail", "checkSvc"}
    BY <1>2 DEF FirstLabel
  <1> QED
    BY <1>1, <1>2, <1>3 DEF Submit, GotoWith, ProcsOK

LEMMA AloneStep ==
    ASSUME Waits, ProcsOK, Alone, [Next]_vars
    PROVE  Alone'
  <1>1. ASSUME NEW p \in Procs, Serve(p)
        PROVE  Alone'
    <2>1. \A q \in Procs : pc'[q] # "idle" => pc[q] # "idle" /\ req'[q].user = req[q].user
      BY <1>1, ServeFrame
    <2> QED
      BY <2>1 DEF Alone, Account
  <1>2. ASSUME NEW p \in Procs, NEW u \in Users, Receive(p, u)
        PROVE  Alone'
    <2>1. /\ InFlight(Lower[u]) < 1 /\ req'[p].user = u
          /\ \A q \in Procs \ {p} : pc'[q] = pc[q] /\ req'[q] = req[q]
      BY <1>2, ReceiveFrame DEF Waits
    <2>2. \A q \in Procs : pc[q] # "idle" => Account(req[q]) # Lower[u]
      BY <2>1, NobodyInFlight
    <2> QED
      BY <2>1, <2>2 DEF Alone, Account
  <1>3. CASE Crash
    BY <1>3 DEF Crash, Alone
  <1>4. CASE UNCHANGED <<pc, req>>
    BY <1>4 DEF Alone, Account
  <1>5. ContainersStart \/ (\E o \in Orders : MarketMoves(o)) \/ UNCHANGED vars => UNCHANGED <<pc, req>>
    BY DEF ContainersStart, gatewayVars, MarketMoves, vars
  <1> QED
    BY <1>1, <1>2, <1>3, <1>4, <1>5 DEF Next

-----------------------------------------------------------------------------
(* What steps leave alone. *)

LEMMA UsersOrders ==
    ASSUME NEW u \in Users
    PROVE  OrdersOf[u] \subseteq Orders /\ Lower[u] \in Accounts
  BY GatewayAssumption

LEMMA LeavesAll ==
    ASSUME UNCHANGED <<deployment, npSvc, entrance>>,
           \A o \in Orders : order'[o].app = order[o].app, NEW a
    PROVE  Leaves(a)
  BY UsersOrders DEF Leaves

\* A call to one name leaves the names of other accounts alone.
LEMMA LeavesOthers ==
    ASSUME StoresOK, NEW d \in DepName, NEW a \in Accounts, d[2] # a,
           UNCHANGED <<entrance, order>>,
           \/ CreateDeployment(d) \/ DeleteDeployment(d) \/ DeleteService(d)
           \/ \E port \in Ports : CreateNodePortService(d, port)
    PROVE  Leaves(a)
  <1>1. \A x \in Apps : <<x, a>> \in DepName /\ <<x, a>> # d
    BY DEF DepName
  <1>2. \A e \in DepName \ {d} : deployment'[e] = deployment[e] /\ npSvc'[e] = npSvc[e]
    BY DEF StoresOK, ClusterTypeOK, CreateDeployment, DeleteDeployment, DeleteService, CreateNodePortService
  <1> QED
    BY <1>1, <1>2 DEF Leaves

LEMMA ServeLeaves ==
    ASSUME StoresOK, ProcsOK, NEW p \in Procs, Serve(p), NEW a \in Accounts, Account(req[p]) # a
    PROVE  Leaves(a)
  <1>1. pc[p] # "idle"
    BY ServeFrame
  <1>2. PICK r \in Request : r = req[p] /\ Fits(pc[p], r) /\ Grounded(pc[p], r)
    BY <1>1, BusyFacts
  <1>3. CASE UNCHANGED <<clusterVars, entrance, order>>
    BY <1>3, LeavesAll DEF clusterVars
  <1>4. CASE \/ CheckSvc(p) \/ WaitReady(p) \/ GetOrder(p) \/ CheckOrder(p) \/ GetEntrance(p)
             \/ Forward(p) \/ Answer(p)
    BY <1>3, <1>4 DEF CheckSvc, WaitReady, GetOrder, CheckOrder, GetEntrance, Forward, Answer
  <1>5. CASE CreateDep(p)
    <2>1. r.yaml \in Yamls /\ r.i \in DOMAIN Deps[r.yaml]
      BY <1>2, <1>5 DEF CreateDep, Fits, DeployLabels
    <2>2. Dep(r, r.i) \in DepName /\ Dep(r, r.i)[2] # a
      BY <1>2, <2>1, DepIsName DEF Dep
    <2>3. CreateDeployment(Dep(r, r.i)) \/ UNCHANGED clusterVars
      BY <1>2, <1>5 DEF CreateDep
    <2>4. UNCHANGED <<entrance, order>>
      BY <1>5 DEF CreateDep
    <2> QED
      BY <1>3, <2>2, <2>3, <2>4, LeavesOthers
  <1>6. CASE CreateSvc(p)
    BY <1>6, LeavesAll DEF CreateSvc, CreateYamlService, clusterVars
  <1>7. CASE CreateNp(p)
    <2>1. r.yaml \in Yamls /\ Deps[r.yaml] # <<>>
      BY <1>2, <1>7 DEF CreateNp, Fits, DeployLabels
    <2>2. Dep(r, 1) \in DepName /\ Dep(r, 1)[2] # a
      BY <1>2, <2>1, FirstDep DEF Dep
    <2>3. (\E port \in Ports : CreateNodePortService(Dep(r, 1), port)) \/ UNCHANGED clusterVars
      BY <1>2, <1>7 DEF CreateNp
    <2>4. UNCHANGED <<entrance, order>>
      BY <1>7 DEF CreateNp
    <2> QED
      BY <1>3, <2>2, <2>3, <2>4, LeavesOthers
  <1>8. CASE PutEntrance(p)
    <2>1. \A u \in Users : Lower[u] = a => entrance'[u] = entrance[u]
      BY <1>2, <1>8 DEF PutEntrance, StoresOK, Account
    <2>2. UNCHANGED <<deployment, npSvc, order>>
      BY <1>8 DEF PutEntrance, clusterVars
    <2> QED
      BY <2>1, <2>2 DEF Leaves
  <1>9. CASE SetApp(p)
    <2>1. r.oid \in OrdersOf[r.user] /\ r.user \in Users
      BY <1>2, <1>9 DEF SetApp, Fits, WithOrder, Request
    <2>2. \A u \in Users : \A o \in OrdersOf[u] : Lower[u] = a => o # r.oid
      BY <1>2, <2>1, OwnOrders DEF Account
    <2>3. \A u \in Users : \A o \in OrdersOf[u] : Lower[u] = a => order'[o].app = order[o].app
      BY <1>2, <1>9, <2>2, UsersOrders DEF SetApp, StoresOK
    <2>4. UNCHANGED <<deployment, npSvc, entrance>>
      BY <1>9 DEF SetApp, clusterVars
    <2> QED
      BY <2>3, <2>4 DEF Leaves
  <1>10. CASE DelDep(p)
    <2>1. CASE DeleteDeployment(Target(r))
      <3>1. Target(r) # None
        BY <2>1 DEF DeleteDeployment, DeploymentExists
      <3>2. Fits("delDep", r) /\ Grounded("delDep", r)
        BY <1>2, <1>10 DEF DelDep
      <3>3. Target(r) \in DepName /\ Target(r)[2] # a
        BY <1>2, <3>1, <3>2, TargetIsName, TargetIsOwn
      <3> QED
        BY <1>10, <2>1, <3>3, LeavesOthers DEF DelDep
    <2> QED
      BY <1>2, <1>3, <1>10, <2>1 DEF DelDep
  <1>11. CASE DelSvc(p)
    <2>1. CASE DeleteService(Target(r))
      <3>1. Target(r) # None
        BY <2>1 DEF DeleteService, ServiceExists
      <3>2. Fits("delSvc", r) /\ Grounded("delSvc", r)
        BY <1>2, <1>11 DEF DelSvc
      <3>3. Target(r) \in DepName /\ Target(r)[2] # a
        BY <1>2, <3>1, <3>2, TargetIsName, TargetIsOwn
      <3> QED
        BY <1>11, <2>1, <3>3, LeavesOthers DEF DelSvc
    <2> QED
      BY <1>2, <1>3, <1>11, <2>1 DEF DelSvc
  <1> QED
    BY <1>4, <1>5, <1>6, <1>7, <1>8, <1>9, <1>10, <1>11 DEF Serve

\* What a request has done for its account outlives the steps that leave the account alone.
LEMMA DoneStays ==
    ASSUME StoresOK, NEW l, NEW r \in Request, Fits(l, r), Grounded(l, r), Done(l, r),
           Leaves(Account(r))
    PROVE  Done(l, r)'
  <1> DEFINE a == Account(r)
  <1>1. ASSUME r.kind \in Deploying
        PROVE  /\ r.yaml \in Yamls
               /\ \A n \in DOMAIN Deps[r.yaml] : Deps[r.yaml][n] \in Apps /\ Dep(r, n) = <<Deps[r.yaml][n], a>>
               /\ Deps[r.yaml] # <<>> => 1 \in DOMAIN Deps[r.yaml]
    <2>1. r.yaml \in Yamls
      BY <1>1 DEF Fits
    <2>2. Deps[r.yaml] \in Seq(Apps)
      BY <2>1, GatewayAssumption
    <2> QED
      BY <2>1, <2>2 DEF Dep
  <1>2. Built(l, r)'
    <2> SUFFICES ASSUME r.kind \in Deploying PROVE Built(l, r)'
      BY DEF Built
    <2>1. \A n \in DOMAIN Deps[r.yaml] :
            /\ deployment[Dep(r, n)] # "absent" => deployment'[Dep(r, n)] # "absent"
            /\ deployment[Dep(r, n)] = "available" => deployment'[Dep(r, n)] = "available"
      BY <1>1 DEF Leaves
    <2>2. Deps[r.yaml] # <<>> => npSvc'[Dep(r, 1)] = npSvc[Dep(r, 1)]
      BY <1>1 DEF Leaves
    <2>3. entrance'[r.user] = entrance[r.user]
      BY DEF Leaves, Account, Request
    <2>4. r.kind = "deployId" => order'[r.oid].app = order[r.oid].app
      BY DEF Leaves, Account, Request, Fits, WithOrder
    <2>5. l \in {"waitReady", "putEntrance", "setApp", "ack"} => Deps[r.yaml] # <<>>
      BY DEF Fits, DeployLabels, Done, Built
    <2> QED
      BY <2>1, <2>2, <2>3, <2>4, <2>5 DEF Done, Built, Dep, Account
  <1>3. ASSUME NEW d, d # None => d \in DepName /\ d[2] = a
        PROVE  /\ ~DeploymentExists(d) => ~DeploymentExists(d)'
               /\ ~ServiceExists(d) => ~ServiceExists(d)'
    <2>1. CASE d = None
      BY <2>1 DEF DeploymentExists, ServiceExists
    <2>2. CASE d # None
      <3>1. PICK x \in Apps : d = <<x, a>>
        BY <1>3, <2>2 DEF DepName
      <3> QED
        BY <3>1 DEF Leaves, DeploymentExists, ServiceExists
    <2> QED
      BY <2>1, <2>2
  <1>4. ASSUME Cleared(l, r)
        PROVE  Cleared(l, r)'
    <2>1. CASE l = "delSvc"
      <3>1. Target(r) # None
        <4>1. CASE r.kind = "clean"
          BY <2>1, <4>1 DEF Fits, Target
        <4>2. CASE r.kind \in Deploying /\ Deps[r.yaml] # <<>>
          BY <4>2, <1>1, FirstDep, NoneIsNobody DEF Target, DepName, Deploying
        <4> QED
          BY <2>1, <4>1, <4>2 DEF Fits
      <3>2. Target(r) \in DepName /\ Target(r)[2] = a
        BY <2>1, <3>1, TargetIsName, TargetIsOwn
      <3>3. ~DeploymentExists(Target(r))
        BY <1>4, <2>1 DEF Cleared, DeploymentExists
      <3>4. PICK x \in Apps : Target(r) = <<x, a>>
        BY <3>2 DEF DepName
      <3>5. deployment'[Target(r)] = "absent"
        BY <1>4, <2>1, <3>4 DEF Cleared, Leaves
      <3> QED
        BY <2>1, <3>5 DEF Cleared, Target, Dep, Account
    <2>2. CASE l = "ack" /\ r.kind = "clean"
      <3>1. r.snap \in Order
        BY <1>4, <2>2 DEF Cleared, Request
      <3>2. r.snap.app # None => r.snap.app \in DepName /\ r.snap.app[2] = a
        BY <1>4, <2>2, <3>1 DEF Cleared, Grounded, Order
      <3> QED
        BY <1>3, <1>4, <2>2, <3>2 DEF Cleared
    <2> QED
      BY <2>1, <2>2 DEF Cleared
  <1> QED
    BY <1>2, <1>4 DEF Done

\* A step that moves one process, leaves the other accounts alone and keeps what the process knows.
LEMMA DoneMoves ==
    ASSUME StoresOK, ProcsOK, Alone, AllDone, NEW p \in Procs, pc[p] # "idle",
           NEW l, NEW s, GotoWith(p, l, s), l # "idle" => Done(l, s)',
           \A a \in Accounts : a # Account(req[p]) => Leaves(a)
    PROVE  AllDone'
  <1> SUFFICES ASSUME NEW q \in Procs, pc'[q] # "idle" PROVE Done(pc[q], req[q])'
    BY DEF AllDone
  <1>1. CASE q = p
    <2>1. pc'[q] = l /\ req'[q] = s
      BY <1>1 DEF GotoWith, ProcsOK
    <2> QED
      BY <2>1 DEF Done, Built, Cleared, Dep, Account, Target, DeploymentExists, ServiceExists
  <1>2. CASE q # p
    <2>1. pc'[q] = pc[q] /\ req'[q] = req[q] /\ pc[q] # "idle"
      BY <1>2 DEF GotoWith, ProcsOK
    <2>2. PICK r \in Request : r = req[q] /\ Fits(pc[q], r) /\ Grounded(pc[q], r)
      BY <2>1, BusyFacts
    <2>3. Account(r) \in Accounts /\ Account(r) # Account(req[p])
      BY <1>2, <2>1, <2>2, UsersOrders DEF Alone, Account, Request
    <2>4. PICK m : m = pc[q]
      OBVIOUS
    <2>5. Done(m, r)'
      BY <2>1, <2>2, <2>3, <2>4, DoneStays DEF AllDone
    <2> QED
      BY <2>1, <2>2, <2>4, <2>5
         DEF Done, Built, Cleared, Dep, Account, Target, DeploymentExists, ServiceExists
  <1> QED
    BY <1>1, <1>2

-----------------------------------------------------------------------------
(* What each step of a process does for its own account. *)

\* Process p moves on, and what its new label says it has brought about is so.
Keeps(p) ==
    \E l \in Labels : \E s : GotoWith(p, l, s) /\ (l # "idle" => Done(l, s)')

LEMMA KeepsGoing ==
    ASSUME ProcsOK, NEW p \in Procs, NEW r \in Request, r = req[p], NEW l \in Labels, Goto(p, l),
           Done(l, r)'
    PROVE  Keeps(p)
  <1>1. GotoWith(p, l, r)
    BY DEF Goto, GotoWith, ProcsOK
  <1> QED
    BY <1>1 DEF Keeps

\* A label that promises nothing.
Plain == {"getOrder", "checkSvc", "checkOrder", "getEntrance", "forward", "fail", "delDep"}

LEMMA PlainIsDone ==
    ASSUME NEW l \in Plain, NEW r
    PROVE  Done(l, r)'
  BY DEF Plain, Done, Built, Cleared

LEMMA KeepsPlain ==
    ASSUME ProcsOK, NEW p \in Procs, pc[p] # "idle", NEW l \in Plain, Goto(p, l)
    PROVE  Keeps(p)
  <1>1. PICK r \in Request : r = req[p]
    BY BusyFacts
  <1>2. Done(l, r)' /\ l \in Labels
    BY PlainIsDone DEF Plain, Labels, Calls
  <1> QED
    BY <1>1, <1>2, KeepsGoing

LEMMA CleanUpKeeps ==
    ASSUME ProcsOK, NEW p \in Procs, pc[p] # "idle", CleanUp(p)
    PROVE  Keeps(p)
  BY KeepsPlain DEF CleanUp, Plain

\* The request of a process at a label of a deploy, and the names it deploys.
LEMMA DeployFacts ==
    ASSUME ProcsOK, AllDone, NEW p \in Procs, pc[p] \in DeployLabels
    PROVE  \E r \in Request :
             /\ r = req[p] /\ r.kind \in Deploying /\ r.yaml \in Yamls
             /\ Deps[r.yaml] \in Seq(Apps) /\ Deps[r.yaml] # <<>>
             /\ \A n \in DOMAIN Deps[r.yaml] : Dep(r, n) \in DepName
             /\ Fits(pc[p], r) /\ Grounded(pc[p], r) /\ Built(pc[p], r)
  <1>1. pc[p] # "idle"
    BY DEF DeployLabels
  <1>2. PICK r \in Request : r = req[p] /\ Fits(pc[p], r) /\ Grounded(pc[p], r)
    BY <1>1, BusyFacts
  <1>3. r.kind \in Deploying /\ r.yaml \in Yamls /\ Deps[r.yaml] # <<>>
    BY <1>2 DEF Fits
  <1>4. Deps[r.yaml] \in Seq(Apps)
    BY <1>3, GatewayAssumption
  <1>5. \A n \in DOMAIN Deps[r.yaml] : Dep(r, n) \in DepName
    BY <1>3, DepIsName
  <1>6. Built(pc[p], r)
    BY <1>1, <1>2 DEF AllDone, Done
  <1> QED
    BY <1>2, <1>3, <1>4, <1>5, <1>6

\* Counting through a list.
LEMMA Indices ==
    ASSUME NEW S, NEW q \in Seq(S), NEW i \in DOMAIN q, NEW n \in DOMAIN q
    PROVE  /\ n < i + 1 => n < i \/ n = i
           /\ ~(i < Len(q)) => n < i \/ n = i
  OBVIOUS

LEMMA CheckSvcKeeps ==
    ASSUME ProcsOK, AllDone, NEW p \in Procs, CheckSvc(p)
    PROVE  Keeps(p)
  <1>1. pc[p] = "checkSvc"
    BY DEF CheckSvc
  <1>2. CASE CleanUp(p)
    BY <1>1, <1>2, CleanUpKeeps
  <1>3. CASE Goto(p, "createDep")
    <2>1. PICK r \in Request : /\ r = req[p] /\ r.kind \in Deploying /\ r.i = 1
                               /\ Deps[r.yaml] \in Seq(Apps)
      BY <1>1, DeployFacts DEF DeployLabels, Fits
    <2>2. Done("createDep", r)'
      BY <2>1 DEF Done, Built, Cleared
    <2> QED
      BY <1>3, <2>1, <2>2, KeepsGoing DEF Labels, Calls
  <1> QED
    BY <1>2, <1>3 DEF CheckSvc

LEMMA CreateDepKeeps ==
    ASSUME StoresOK, ProcsOK, AllDone, NEW p \in Procs, CreateDep(p)
    PROVE  Keeps(p)
  <1>1. pc[p] = "createDep"
    BY DEF CreateDep
  <1>2. PICK r \in Request :
          /\ r = req[p] /\ r.kind \in Deploying /\ r.yaml \in Yamls
          /\ Deps[r.yaml] \in Seq(Apps) /\ Deps[r.yaml] # <<>>
          /\ \A n \in DOMAIN Deps[r.yaml] : Dep(r, n) \in DepName
          /\ Fits("createDep", r) /\ Built("createDep", r)
    BY <1>1, DeployFacts DEF DeployLabels
  <1>3. r.i \in DOMAIN Deps[r.yaml]
    BY <1>2 DEF Fits
  <1>4. CASE CleanUp(p)
    BY <1>1, <1>4, CleanUpKeeps
  <1>5. CASE CreateDeployment(Dep(r, r.i))
    <2>1. \A n \in DOMAIN Deps[r.yaml] : n < r.i \/ n = r.i => deployment'[Dep(r, n)] # "absent"
      BY <1>2, <1>3, <1>5 DEF CreateDeployment, Built, StoresOK, ClusterTypeOK
    <2>2. ASSUME r.i < Len(Deps[r.yaml]), NEW s, s = [r EXCEPT !.i = @ + 1]
          PROVE  s \in Request /\ Done("createDep", s)'
      <3>1. s \in Request /\ s.i = r.i + 1 /\ s.yaml = r.yaml /\ s.user = r.user /\ s.kind = r.kind
        BY <2>2 DEF Request
      <3>2. \A n \in DOMAIN Deps[s.yaml] : n < s.i => deployment'[Dep(s, n)] # "absent"
        <4> SUFFICES ASSUME NEW n \in DOMAIN Deps[r.yaml], n < r.i + 1
                     PROVE  deployment'[Dep(r, n)] # "absent"
          BY <3>1 DEF Dep, Account
        <4> QED
          BY <1>2, <1>3, <2>1, Indices
      <3> QED
        BY <3>1, <3>2 DEF Done, Built, Cleared, Dep, Account
    <2>3. ASSUME ~(r.i < Len(Deps[r.yaml])), NEW s, s = [r EXCEPT !.i = 1]
          PROVE  s \in Request /\ Done(AfterDeps(r), s)'
      <3>1. s \in Request /\ s.i = 1 /\ s.yaml = r.yaml /\ s.user = r.user /\ s.kind = r.kind
        BY <2>3 DEF Request
      <3>2. \A n \in DOMAIN Deps[s.yaml] : deployment'[Dep(s, n)] # "absent"
        <4> SUFFICES ASSUME NEW n \in DOMAIN Deps[r.yaml]
                     PROVE  deployment'[Dep(r, n)] # "absent"
          BY <3>1 DEF Dep, Account
        <4> QED
          BY <1>2, <1>3, <2>1, <2>3, Indices
      <3> QED
        BY <3>1, <3>2 DEF Done, Built, Cleared, Dep, Account, AfterDeps
    <2>4. CASE r.i < Len(Deps[r.yaml]) /\ GotoWith(p, "createDep", [r EXCEPT !.i = @ + 1])
      BY <2>2, <2>4 DEF Keeps, Labels, Calls
    <2>5. CASE ~(r.i < Len(Deps[r.yaml])) /\ GotoWith(p, AfterDeps(r), [r EXCEPT !.i = 1])
      <3>1. AfterDeps(r) \in Labels
        BY DEF AfterDeps, Labels, Calls
      <3> QED
        BY <2>3, <2>5, <3>1 DEF Keeps
    <2> QED
      BY <1>2, <1>4, <2>4, <2>5 DEF CreateDep
  <1> QED
    BY <1>2, <1>4, <1>5 DEF CreateDep

LEMMA CreateSvcKeeps ==
    ASSUME StoresOK, ProcsOK, AllDone, NEW p \in Procs, CreateSvc(p)
    PROVE  Keeps(p)
  <1>1. pc[p] = "createSvc"
    BY DEF CreateSvc
  <1>2. PICK r \in Request :
          /\ r = req[p] /\ r.kind \in Deploying
          /\ Deps[r.yaml] \in Seq(Apps)
          /\ Fits("createSvc", r) /\ Built("createSvc", r)
    BY <1>1, DeployFacts DEF DeployLabels
  <1>3. deployment' = deployment
    BY DEF CreateSvc, CreateYamlService, clusterVars
  <1>4. ASSUME NEW s \in {[r EXCEPT !.i = @ + 1], [r EXCEPT !.i = 1]}, NEW l \in {"createSvc", "createNp"}
        PROVE  s \in Request /\ Done(l, s)'
    <2>1. s \in Request /\ s.yaml = r.yaml /\ s.user = r.user /\ s.kind = r.kind
      BY <1>4 DEF Request
    <2>2. \A n \in DOMAIN Deps[s.yaml] : deployment'[Dep(s, n)] # "absent"
      <3>1. \A n \in DOMAIN Deps[r.yaml] : deployment[Dep(r, n)] # "absent"
        BY <1>2 DEF Built
      <3> QED
        BY <1>3, <2>1, <3>1 DEF Dep, Account
    <2> QED
      BY <2>1, <2>2 DEF Done, Built, Cleared, Dep, Account
  <1>5. \/ GotoWith(p, "createSvc", [r EXCEPT !.i = @ + 1])
        \/ GotoWith(p, "createNp", [r EXCEPT !.i = 1])
    BY <1>2 DEF CreateSvc
  <1> QED
    BY <1>4, <1>5 DEF Keeps, Labels, Calls

LEMMA CreateNpKeeps ==
    ASSUME StoresOK, ProcsOK, AllDone, NEW p \in Procs, CreateNp(p)
    PROVE  Keeps(p)
  <1>1. pc[p] = "createNp"
    BY DEF CreateNp
  <1>2. PICK r \in Request :
          /\ r = req[p] /\ r.kind \in Deploying /\ r.yaml \in Yamls
          /\ Deps[r.yaml] \in Seq(Apps) /\ Deps[r.yaml] # <<>>
          /\ \A n \in DOMAIN Deps[r.yaml] : Dep(r, n) \in DepName
          /\ Fits("createNp", r) /\ Built("createNp", r)
    BY <1>1, DeployFacts DEF DeployLabels
  <1>3. CASE CleanUp(p)
    BY <1>1, <1>3, CleanUpKeeps
  <1>4. ASSUME NEW port \in Ports, CreateNodePortService(Dep(r, 1), port),
               NEW s, s = [r EXCEPT !.port = port], GotoWith(p, "waitReady", s)
        PROVE  Keeps(p)
    <2>1. /\ s \in Request /\ s.yaml = r.yaml /\ s.user = r.user /\ s.kind = r.kind
          /\ s.i = 1 /\ s.port = port
      BY <1>2, <1>4 DEF Request, Fits
    <2>2. Dep(s, 1) = Dep(r, 1) /\ Dep(r, 1) \in DepName
      BY <1>2, <2>1, FirstDep DEF Dep, Account
    <2>3. npSvc'[Dep(s, 1)] = port /\ deployment' = deployment
      BY <1>4, <2>2 DEF CreateNodePortService, StoresOK, ClusterTypeOK
    <2>4. \A n \in DOMAIN Deps[s.yaml] : deployment'[Dep(s, n)] # "absent"
      BY <1>2, <2>1, <2>3 DEF Built, Dep, Account
    <2>5. \A n \in DOMAIN Deps[s.yaml] : ~(n < s.i)
      BY <1>2, <2>1
    <2>6. Done("waitReady", s)'
      BY <2>1, <2>3, <2>4, <2>5 DEF Done, Built, Cleared, Dep, Account
    <2> QED
      BY <1>4, <2>1, <2>6 DEF Keeps, Labels, Calls
  <1>5. CASE \E port \in Ports : /\ CreateNodePortService(Dep(r, 1), port)
                                 /\ GotoWith(p, "waitReady", [r EXCEPT !.port = port])
    BY <1>4, <1>5
  <1> QED
    BY <1>2, <1>3, <1>5 DEF CreateNp

LEMMA WaitReadyKeeps ==
    ASSUME StoresOK, ProcsOK, AllDone, NEW p \in Procs, WaitReady(p)
    PROVE  Keeps(p)
  <1>1. pc[p] = "waitReady"
    BY DEF WaitReady
  <1>2. PICK r \in Request :
          /\ r = req[p] /\ r.kind \in Deploying /\ r.yaml \in Yamls
          /\ Deps[r.yaml] \in Seq(Apps) /\ Deps[r.yaml] # <<>>
          /\ Fits("waitReady", r) /\ Built("waitReady", r)
    BY <1>1, DeployFacts DEF DeployLabels
  <1>3. r.i \in DOMAIN Deps[r.yaml]
    BY <1>2 DEF Fits
  <1>4. UNCHANGED <<deployment, npSvc>>
    BY DEF WaitReady, clusterVars
  <1>5. CASE CleanUp(p)
    BY <1>1, <1>5, CleanUpKeeps
  <1>6. CASE /\ deployment[Dep(r, r.i)] = "available" /\ r.i < Len(Deps[r.yaml])
             /\ GotoWith(p, "waitReady", [r EXCEPT !.i = @ + 1, !.polls = 0])
    <2>1. PICK s : s = [r EXCEPT !.i = @ + 1, !.polls = 0]
      OBVIOUS
    <2>2. /\ s \in Request /\ s.yaml = r.yaml /\ s.user = r.user /\ s.kind = r.kind
          /\ s.i = r.i + 1 /\ s.port = r.port
      <3>1. r.i + 1 \in Nat
        BY DEF Request
      <3> QED
        BY <2>1, <3>1 DEF Request
    <2>3. \A n \in DOMAIN Deps[s.yaml] : n < s.i => deployment[Dep(s, n)] = "available"
      <3> SUFFICES ASSUME NEW n \in DOMAIN Deps[r.yaml], n < r.i + 1
                   PROVE  deployment[Dep(r, n)] = "available"
        BY <2>2 DEF Dep, Account
      <3> QED
        BY <1>2, <1>3, <1>6, Indices DEF Built
    <2>4. Done("waitReady", s)'
      BY <1>2, <1>4, <2>2, <2>3 DEF Done, Built, Cleared, Dep, Account
    <2> QED
      BY <1>6, <2>1, <2>2, <2>4 DEF Keeps, Labels, Calls
  <1>7. CASE /\ deployment[Dep(r, r.i)] = "available" /\ ~(r.i < Len(Deps[r.yaml]))
             /\ GotoWith(p, "putEntrance", [r EXCEPT !.i = 1, !.polls = 0])
    <2>1. PICK s : s = [r EXCEPT !.i = 1, !.polls = 0]
      OBVIOUS
    <2>2. /\ s \in Request /\ s.yaml = r.yaml /\ s.user = r.user /\ s.kind = r.kind
          /\ s.port = r.port
      BY <2>1 DEF Request
    <2>3. \A n \in DOMAIN Deps[s.yaml] : deployment[Dep(s, n)] = "available"
      <3> SUFFICES ASSUME NEW n \in DOMAIN Deps[r.yaml]
                   PROVE  deployment[Dep(r, n)] = "available"
        BY <2>2 DEF Dep, Account
      <3> QED
        BY <1>2, <1>3, <1>7, Indices DEF Built
    <2>4. Done("putEntrance", s)'
      BY <1>2, <1>4, <2>2, <2>3 DEF Done, Built, Cleared, Dep, Account
    <2> QED
      BY <1>7, <2>1, <2>2, <2>4 DEF Keeps, Labels, Calls
  <1>8. CASE GotoWith(p, "waitReady", [r EXCEPT !.polls = @ + 1])
    <2>1. PICK s : s = [r EXCEPT !.polls = @ + 1]
      OBVIOUS
    <2>2. /\ s \in Request /\ s.yaml = r.yaml /\ s.user = r.user /\ s.kind = r.kind
          /\ s.i = r.i /\ s.port = r.port
      BY <2>1 DEF Request
    <2>3. Done("waitReady", s)'
      BY <1>2, <1>4, <2>2 DEF Done, Built, Cleared, Dep, Account
    <2> QED
      BY <1>8, <2>1, <2>2, <2>3 DEF Keeps, Labels, Calls
  <1> QED
    BY <1>2, <1>5, <1>6, <1>7, <1>8 DEF WaitReady

LEMMA PutEntranceKeeps ==
    ASSUME StoresOK, ProcsOK, AllDone, NEW p \in Procs, PutEntrance(p)
    PROVE  Keeps(p)
  <1>1. pc[p] = "putEntrance"
    BY DEF PutEntrance
  <1>2. PICK r \in Request :
          /\ r = req[p] /\ r.kind \in Deploying /\ r.yaml \in Yamls
          /\ Deps[r.yaml] \in Seq(Apps) /\ Deps[r.yaml] # <<>>
          /\ Fits("putEntrance", r) /\ Built("putEntrance", r)
    BY <1>1, DeployFacts DEF DeployLabels
  <1>3. CASE CleanUp(p)
    BY <1>1, <1>3, CleanUpKeeps
  <1>4. CASE entrance' = [entrance EXCEPT ![r.user] = r.port]
             /\ Goto(p, IF r.kind = "deployId" THEN "setApp" ELSE "ack")
    <2>1. PICK l \in {"setApp", "ack"} :
            l = IF r.kind = "deployId" THEN "setApp" ELSE "ack"
      OBVIOUS
    <2>2. UNCHANGED <<deployment, npSvc, order>> /\ r.user \in Users
      BY DEF PutEntrance, clusterVars, Request
    <2>3. entrance'[r.user] = r.port
      BY <1>4, <2>2 DEF StoresOK
    <2>4. Built(l, r)'
      BY <1>2, <2>1, <2>2, <2>3 DEF Built, Dep, Account
    <2>5. Done(l, r)'
      BY <1>2, <2>1, <2>4 DEF Done, Cleared, Deploying
    <2> QED
      BY <1>2, <1>4, <2>1, <2>5, KeepsGoing DEF Labels, Calls
  <1> QED
    BY <1>2, <1>3, <1>4 DEF PutEntrance

LEMMA SetAppKeeps ==
    ASSUME StoresOK, ProcsOK, AllDone, NEW p \in Procs, SetApp(p)
    PROVE  Keeps(p)
  <1>1. pc[p] = "setApp"
    BY DEF SetApp
  <1>2. PICK r \in Request :
          /\ r = req[p] /\ r.kind \in Deploying /\ r.yaml \in Yamls
          /\ Deps[r.yaml] \in Seq(Apps) /\ Deps[r.yaml] # <<>>
          /\ Fits("setApp", r) /\ Built("setApp", r)
    BY <1>1, DeployFacts DEF DeployLabels
  <1>3. CASE CleanUp(p)
    BY <1>1, <1>3, CleanUpKeeps
  <1>4. CASE order' = [order EXCEPT ![r.oid].app = Dep(r, 1)] /\ Goto(p, "ack")
    <2>1. UNCHANGED <<deployment, npSvc, entrance>> /\ r.user \in Users /\ r.oid \in Orders
      BY <1>2, UsersOrders DEF SetApp, clusterVars, Request, Fits, Deploying, WithOrder
    <2>2. order'[r.oid].app = Dep(r, 1)
      BY <1>4, <2>1 DEF StoresOK, Order
    <2>3. Built("ack", r)'
      BY <1>2, <2>1, <2>2 DEF Built, Dep, Account
    <2>4. Done("ack", r)'
      BY <1>2, <2>3 DEF Done, Cleared, Deploying
    <2> QED
      BY <1>2, <1>4, <2>4, KeepsGoing DEF Labels, Calls
  <1> QED
    BY <1>2, <1>3, <1>4 DEF SetApp

\* What a delete at label l has to do with: its target is the account's own name, or none.
LEMMA DeleteFacts ==
    ASSUME ProcsOK, AllDone, NEW p \in Procs, pc[p] \in {"delDep", "delSvc"}
    PROVE  \E r \in Request :
             /\ r = req[p] /\ Fits(pc[p], r) /\ Done(pc[p], r)
             /\ Target(r) # None => Target(r) \in DepName /\ Target(r)[2] = Account(r)
             /\ r.kind = "clean" \/ r.kind \in Deploying
             /\ r.kind = "clean" => r.snap # None /\ Target(r) = r.snap.app
  <1>1. PICK r \in Request : r = req[p] /\ Fits(pc[p], r) /\ Grounded(pc[p], r)
    BY BusyFacts
  <1>2. Done(pc[p], r)
    BY <1>1 DEF AllDone
  <1>3. Target(r) # None => Target(r) \in DepName /\ Target(r)[2] = Account(r)
    BY <1>1, TargetIsName, TargetIsOwn
  <1>4. r.kind = "clean" \/ r.kind \in Deploying
    BY <1>1 DEF Fits
  <1>5. r.kind = "clean" => r.snap # None /\ Target(r) = r.snap.app
    BY <1>1, NoneIsNoRecord DEF Fits, Deploying, Target
  <1> QED
    BY <1>1, <1>2, <1>3, <1>4, <1>5

\* A service of the account's own whose Deployment is gone is one the request itself has to delete.
LEMMA OwnOrphan ==
    ASSUME ProcsOK, Alone, AllDone, NoOrphans, NEW p \in Procs, pc[p] # "idle",
           NEW d \in DepName, d[2] = Account(req[p]), npSvc[d] # None, deployment[d] = "absent"
    PROVE  pc[p] = "delSvc" /\ Target(req[p]) = d
  <1>1. PICK q \in Procs : pc[q] = "delSvc" /\ Target(req[q]) = d
    BY DEF NoOrphans
  <1>2. d # None
    BY NoneIsNobody DEF DepName
  <1>3. Account(req[q]) = d[2]
    BY <1>1, <1>2, DeleteFacts
  <1>4. q = p
    BY <1>1, <1>3 DEF Alone
  <1> QED
    BY <1>1, <1>4

LEMMA DelDepKeeps ==
    ASSUME StoresOK, ProcsOK, Alone, AllDone, DeletesWork => NoOrphans, NEW p \in Procs, DelDep(p)
    PROVE  Keeps(p)
  <1>1. pc[p] = "delDep"
    BY DEF DelDep
  <1>2. PICK r \in Request :
          /\ r = req[p]
          /\ Target(r) # None => Target(r) \in DepName /\ Target(r)[2] = Account(r)
          /\ r.kind = "clean" \/ r.kind \in Deploying
          /\ r.kind = "clean" => r.snap # None /\ Target(r) = r.snap.app
    BY <1>1, DeleteFacts
  <1>3. CASE DeleteDeployment(Target(r)) /\ Goto(p, "delSvc")
    <2>1. Target(r) # None
      BY <1>3 DEF DeleteDeployment, DeploymentExists
    <2>2. deployment'[Target(r)] = "absent"
      BY <1>2, <1>3, <2>1 DEF DeleteDeployment, StoresOK, ClusterTypeOK
    <2>3. Done("delSvc", r)'
      BY <2>2 DEF Done, Built, Cleared, Target, Dep, Account
    <2> QED
      BY <1>2, <1>3, <2>3, KeepsGoing DEF Labels, Calls
  <1>4. CASE Goto(p, "fail")
    BY <1>1, <1>4, KeepsPlain DEF Plain
  <1>5. CASE /\ r.kind = "clean" /\ Goto(p, "ack")
             /\ DeletesWork => ~DeploymentExists(Target(r)) /\ UNCHANGED clusterVars
    <2>1. ASSUME DeletesWork
          PROVE  ~ServiceExists(Target(r))
      <3> SUFFICES ASSUME ServiceExists(Target(r)) PROVE FALSE
        OBVIOUS
      <3>1. Target(r) # None /\ npSvc[Target(r)] # None /\ deployment[Target(r)] = "absent"
        BY <1>5, <2>1 DEF ServiceExists, DeploymentExists
      <3> QED
        BY <1>1, <1>2, <2>1, <3>1, OwnOrphan
    <2>2. Done("ack", r)'
      BY <1>2, <1>5, <2>1
         DEF Done, Built, Cleared, Deploying, clusterVars, DeploymentExists, ServiceExists
    <2> QED
      BY <1>2, <1>5, <2>2, KeepsGoing DEF Labels, Calls
  <1>6. \/ DeleteDeployment(Target(r)) /\ Goto(p, "delSvc")
        \/ /\ Goto(p, Deleted(r))
           /\ MayFail("delDep") \/ (~DeploymentExists(Target(r)) /\ UNCHANGED clusterVars)
    BY <1>2 DEF DelDep
  <1>7. DeletesWork => ~MayFail("delDep")
    BY DEF DeletesWork, MayFail
  <1> QED
    BY <1>2, <1>3, <1>4, <1>5, <1>6, <1>7 DEF Deleted

LEMMA DelSvcKeeps ==
    ASSUME StoresOK, ProcsOK, AllDone, NEW p \in Procs, DelSvc(p)
    PROVE  Keeps(p)
  <1>1. pc[p] = "delSvc"
    BY DEF DelSvc
  <1>2. PICK r \in Request :
          /\ r = req[p] /\ Done("delSvc", r)
          /\ Target(r) # None => Target(r) \in DepName
          /\ r.kind = "clean" \/ r.kind \in Deploying
          /\ r.kind = "clean" => r.snap # None /\ Target(r) = r.snap.app
    BY <1>1, DeleteFacts
  <1>3. CASE Goto(p, "fail")
    BY <1>1, <1>3, KeepsPlain DEF Plain
  <1>4. CASE r.kind = "clean" /\ Goto(p, "ack")
    <2>1. ASSUME DeletesWork
          PROVE  /\ ~DeploymentExists(Target(r))'
                 /\ ~ServiceExists(Target(r))'
      <3>1. ~MayFail("delSvc") /\ deployment[Target(r)] = "absent"
        BY <1>2, <2>1 DEF DeletesWork, MayFail, Done, Cleared
      <3>2. CASE DeleteService(Target(r))
        BY <1>2, <3>1, <3>2
           DEF DeleteService, ServiceExists, DeploymentExists, StoresOK, ClusterTypeOK, Target, Dep, Account
      <3>3. CASE ~ServiceExists(Target(r)) /\ UNCHANGED clusterVars
        BY <3>1, <3>3 DEF ServiceExists, DeploymentExists, clusterVars, Target, Dep, Account
      <3> QED
        BY <1>2, <3>1, <3>2, <3>3 DEF DelSvc
    <2>2. Done("ack", r)'
      BY <1>2, <1>4, <2>1
         DEF Done, Built, Cleared, Deploying, DeploymentExists, ServiceExists, Target
    <2> QED
      BY <1>2, <1>4, <2>2, KeepsGoing DEF Labels, Calls
  <1>5. Goto(p, Deleted(r))
    BY <1>2 DEF DelSvc
  <1> QED
    BY <1>2, <1>3, <1>4, <1>5 DEF Deleted

\* The handlers that only read, and the answer.
LEMMA ReadKeeps ==
    ASSUME ProcsOK, NEW p \in Procs,
           GetOrder(p) \/ CheckOrder(p) \/ GetEntrance(p) \/ Forward(p) \/ Answer(p)
    PROVE  Keeps(p)
  <1>1. pc[p] # "idle"
    BY DEF GetOrder, CheckOrder, GetEntrance, Forward, Answer
  <1>2. PICK r \in Request : r = req[p] /\ Fits(pc[p], r) /\ Grounded(pc[p], r)
    BY <1>1, BusyFacts
  <1>3. CASE Answer(p)
    BY <1>3 DEF Answer, Keeps, Labels
  <1>4. CASE Forward(p)
    <2>1. r.kind = "compute" /\ Goto(p, "ack")
      BY <1>2, <1>4 DEF Forward, Fits
    <2>2. Done("ack", r)'
      BY <2>1 DEF Done, Built, Cleared, Deploying
    <2> QED
      BY <1>2, <2>1, <2>2, KeepsGoing DEF Labels, Calls
  <1>5. CASE CheckOrder(p)
    BY <1>1, <1>5, KeepsPlain DEF CheckOrder, Plain
  <1>6. CASE GetEntrance(p)
    <2>1. CASE Goto(p, "fail")
      BY <1>1, <2>1, KeepsPlain DEF Plain
    <2>2. CASE entrance[r.user] # None /\ GotoWith(p, "forward", [r EXCEPT !.port = entrance[r.user]])
      <3>1. PICK s : s = [r EXCEPT !.port = entrance[r.user]]
        OBVIOUS
      <3> QED
        BY <2>2, <3>1, PlainIsDone DEF Keeps, Plain, Labels, Calls
    <2> QED
      BY <1>2, <1>6, <2>1, <2>2 DEF GetEntrance
  <1>7. CASE GetOrder(p)
    <2>1. CASE Goto(p, "fail") \/ Goto(p, "checkSvc")
      BY <1>1, <2>1, KeepsPlain DEF Plain
    <2>2. ASSUME NEW l \in {"delDep", "checkOrder"}, GotoWith(p, l, [r EXCEPT !.snap = order[r.oid]])
          PROVE  Keeps(p)
      <3>1. PICK s : s = [r EXCEPT !.snap = order[r.oid]]
        OBVIOUS
      <3> QED
        BY <2>2, <3>1, PlainIsDone DEF Keeps, Plain, Labels, Calls
    <2> QED
      BY <1>2, <1>7, <2>1, <2>2 DEF GetOrder
  <1> QED
    BY <1>3, <1>4, <1>5, <1>6, <1>7

\* Every step of a process keeps what all of them have brought about.
LEMMA ServeDone ==
    ASSUME StoresOK, ProcsOK, SerialInv, NEW p \in Procs, Serve(p)
    PROVE  AllDone'
  <1>1. Keeps(p)
    BY CheckSvcKeeps, CreateDepKeeps, CreateSvcKeeps, CreateNpKeeps, WaitReadyKeeps, PutEntranceKeeps,
       SetAppKeeps, DelDepKeeps, DelSvcKeeps, ReadKeeps DEF Serve, SerialInv
  <1>2. pc[p] # "idle"
    BY ServeFrame
  <1>3. \A a \in Accounts : a # Account(req[p]) => Leaves(a)
    BY ServeLeaves
  <1>4. PICK l \in Labels : \E s : GotoWith(p, l, s) /\ (l # "idle" => Done(l, s)')
    BY <1>1 DEF Keeps
  <1> QED
    BY <1>2, <1>3, <1>4, DoneMoves DEF SerialInv

\* The steps of the environment give nothing and take nothing but let containers start.
LEMMA OutsideLeaves ==
    ASSUME StoresOK, ContainersStart \/ (\E o \in Orders : MarketMoves(o)) \/ UNCHANGED vars
    PROVE  /\ \A a \in Accounts : Leaves(a)
           /\ UNCHANGED <<pc, req, crashes>>
  <1>1. CASE ContainersStart
    <2>1. PICK d \in DepName : BecomeAvailable(d)
      BY <1>1 DEF ContainersStart
    <2>2. \A e \in DepName : \/ deployment'[e] = deployment[e]
                             \/ deployment[e] = "progressing" /\ deployment'[e] = "available"
      BY <2>1 DEF BecomeAvailable, StoresOK, ClusterTypeOK
    <2>3. UNCHANGED <<npSvc, entrance, order, pc, req, crashes>>
      BY <1>1, <2>1 DEF ContainersStart, gatewayVars, BecomeAvailable
    <2>4. \A a \in Accounts : \A x \in Apps : <<x, a>> \in DepName
      BY DEF DepName
    <2> QED
      BY <2>2, <2>3, <2>4 DEF Leaves
  <1>2. CASE \E o \in Orders : MarketMoves(o)
    <2>1. PICK o \in Orders : \E s : order' = [order EXCEPT ![o].status = s]
      BY <1>2 DEF MarketMoves
    <2>2. \A q \in Orders : order'[q].app = order[q].app
      BY <2>1 DEF StoresOK, Order
    <2>3. UNCHANGED <<deployment, npSvc, entrance, pc, req, crashes>>
      BY <1>2 DEF MarketMoves, clusterVars
    <2> QED
      BY <2>2, <2>3, LeavesAll
  <1>3. CASE UNCHANGED vars
    BY <1>3, LeavesAll DEF vars
  <1> QED
    BY <1>1, <1>2, <1>3

\* What a process has brought about outlives a step that neither moves it nor touches its account.
LEMMA DoneRests ==
    ASSUME StoresOK, ProcsOK, AllDone, NEW q \in Procs, pc[q] # "idle",
           pc'[q] = pc[q], req'[q] = req[q], \A a \in Accounts : Leaves(a)
    PROVE  Done(pc[q], req[q])'
  <1>1. PICK r \in Request : r = req[q] /\ Fits(pc[q], r) /\ Grounded(pc[q], r)
    BY BusyFacts
  <1>2. Account(r) \in Accounts
    BY UsersOrders DEF Account, Request
  <1>3. PICK l : l = pc[q]
    OBVIOUS
  <1>4. Done(l, r)'
    BY <1>1, <1>2, <1>3, DoneStays DEF AllDone
  <1> QED
    BY <1>1, <1>3, <1>4 DEF Done, Built, Cleared, Dep, Account, Target, DeploymentExists, ServiceExists

LEMMA AllDoneStep ==
    ASSUME StoresOK, ProcsOK, SerialInv, [Next]_vars
    PROVE  AllDone'
  <1>1. CASE \E p \in Procs : Serve(p)
    BY <1>1, ServeDone
  <1>2. ASSUME NEW p \in Procs, NEW u \in Users, Receive(p, u)
        PROVE  AllDone'
    <2>1. /\ pc[p] = "idle" /\ \A q \in Procs \ {p} : pc'[q] = pc[q] /\ req'[q] = req[q]
          /\ pc'[p] \in Plain
          /\ UNCHANGED <<clusterVars, entrance, order>>
      BY <1>2, ReceiveFrame DEF Plain
    <2>2. \A a \in Accounts : Leaves(a)
      BY <2>1, LeavesAll DEF clusterVars
    <2>3. Done(pc[p], req[p])'
      BY <2>1 DEF Plain, Done, Built, Cleared
    <2> QED
      BY <2>1, <2>2, <2>3, DoneRests DEF AllDone, SerialInv
  <1>3. CASE Crash
    BY <1>3 DEF Crash, AllDone
  <1>4. CASE ContainersStart \/ (\E o \in Orders : MarketMoves(o)) \/ UNCHANGED vars
    BY <1>4, OutsideLeaves, DoneRests DEF AllDone, SerialInv
  <1> QED
    BY <1>1, <1>2, <1>3, <1>4 DEF Next

-----------------------------------------------------------------------------
(* No service without its Deployment, save the one that is being deleted. *)

\* A step that makes an orphan of a service of the account is the first delete, and the second is next.
LEMMA OwnOrphanStep ==
    ASSUME StoresOK, ProcsOK, SerialInv, DeletesWork, NEW p \in Procs, Serve(p),
           NEW d \in DepName, d[2] = Account(req[p]), npSvc'[d] # None, deployment'[d] = "absent"
    PROVE  pc'[p] = "delSvc" /\ req'[p] = req[p] /\ Target(req[p]) = d
  <1>1. pc[p] # "idle" /\ d # None
    BY ServeFrame, NoneIsNobody DEF DepName
  <1>2. npSvc[d] # None /\ deployment[d] = "absent" => pc[p] = "delSvc" /\ Target(req[p]) = d
    BY <1>1, OwnOrphan DEF SerialInv
  <1>3. ~MayFail("delDep") /\ ~MayFail("delSvc")
    BY DEF DeletesWork, MayFail
  <1>4. CASE UNCHANGED <<deployment, npSvc>> /\ pc[p] # "delSvc"
    BY <1>2, <1>4
  <1>5. CASE \/ CheckSvc(p) \/ CreateSvc(p) \/ WaitReady(p) \/ PutEntrance(p) \/ SetApp(p)
             \/ GetOrder(p) \/ CheckOrder(p) \/ GetEntrance(p) \/ Forward(p) \/ Answer(p)
    BY <1>4, <1>5 DEF CheckSvc, CreateSvc, CreateYamlService, WaitReady, PutEntrance, SetApp, GetOrder,
                      CheckOrder, GetEntrance, Forward, Answer, clusterVars
  <1>6. CASE CreateDep(p)
    <2>1. pc[p] = "createDep"
      BY <1>6 DEF CreateDep
    <2>2. CASE UNCHANGED clusterVars
      BY <1>4, <2>1, <2>2 DEF clusterVars
    <2>3. CASE CreateDeployment(Dep(req[p], req[p].i))
      BY <1>2, <2>1, <2>3 DEF CreateDeployment, StoresOK, ClusterTypeOK
    <2> QED
      BY <1>6, <2>2, <2>3 DEF CreateDep
  <1>7. CASE CreateNp(p)
    <2>1. pc[p] = "createNp"
      BY <1>7 DEF CreateNp
    <2>2. PICK r \in Request :
            /\ r = req[p] /\ r.yaml \in Yamls /\ Deps[r.yaml] # <<>>
            /\ r.kind \in Deploying /\ Built("createNp", r)
      BY <2>1, DeployFacts DEF DeployLabels, SerialInv
    <2>3. CASE UNCHANGED clusterVars
      BY <1>4, <2>1, <2>3 DEF clusterVars
    <2>4. 1 \in DOMAIN Deps[r.yaml] /\ Dep(r, 1) \in DepName
      BY <2>2, FirstDep
    <2>5. deployment[Dep(r, 1)] # "absent"
      BY <2>2, <2>4 DEF Built
    <2>6. ASSUME NEW port \in Ports, CreateNodePortService(Dep(r, 1), port)
          PROVE  FALSE
      BY <1>2, <2>1, <2>4, <2>5, <2>6 DEF CreateNodePortService, StoresOK, ClusterTypeOK
    <2> QED
      BY <1>7, <2>2, <2>3, <2>6 DEF CreateNp
  <1>8. CASE DelDep(p)
    <2>1. pc[p] = "delDep"
      BY <1>8 DEF DelDep
    <2>2. CASE UNCHANGED clusterVars
      BY <1>4, <2>1, <2>2 DEF clusterVars
    <2>3. CASE DeleteDeployment(Target(req[p])) /\ Goto(p, "delSvc")
      BY <1>2, <2>1, <2>3 DEF DeleteDeployment, StoresOK, ClusterTypeOK, Goto, ProcsOK
    <2> QED
      BY <1>3, <1>8, <2>2, <2>3 DEF DelDep
  <1>9. CASE DelSvc(p)
    <2>1. pc[p] = "delSvc"
      BY <1>9 DEF DelSvc
    <2>2. PICK r \in Request :
            /\ r = req[p] /\ Done("delSvc", r)
            /\ Target(r) # None => Target(r) \in DepName
      BY <2>1, DeleteFacts DEF SerialInv
    <2>3. deployment' = deployment
      BY <1>9 DEF DelSvc, DeleteService, clusterVars
    <2>4. npSvc[d] # None
      BY <1>9 DEF DelSvc, DeleteService, clusterVars, StoresOK, ClusterTypeOK
    <2>5. Target(r) = d
      BY <1>2, <2>2, <2>3, <2>4
    <2>6. DeleteService(d)
      BY <1>1, <1>3, <1>9, <2>2, <2>4, <2>5 DEF DelSvc, ServiceExists
    <2> QED
      BY <2>6 DEF DeleteService, StoresOK, ClusterTypeOK
  <1> QED
    BY <1>5, <1>6, <1>7, <1>8, <1>9 DEF Serve

LEMMA OrphansStep ==
    ASSUME StoresOK, ProcsOK, SerialInv, DeletesWork, [Next]_vars
    PROVE  NoOrphans'
  <1> SUFFICES ASSUME NEW d \in DepName, npSvc'[d] # None, deployment'[d] = "absent"
               PROVE  \E p \in Procs : pc'[p] = "delSvc" /\ Target(req'[p]) = d
    BY DEF NoOrphans, Target, Dep, Account
  <1>0. NoOrphans /\ AllDone /\ d[2] \in Accounts /\ d # None
    BY NoneIsNobody DEF SerialInv, DepName
  <1>1. Leaves(d[2]) => npSvc[d] # None /\ deployment[d] = "absent"
    BY DEF Leaves, DepName
  <1>2. ASSUME NEW p \in Procs, Serve(p)
        PROVE  \E q \in Procs : pc'[q] = "delSvc" /\ Target(req'[q]) = d
    <2>1. CASE d[2] = Account(req[p])
      BY <1>2, <2>1, OwnOrphanStep
    <2>2. CASE d[2] # Account(req[p])
      <3>1. PICK q \in Procs : pc[q] = "delSvc" /\ Target(req[q]) = d
        BY <1>0, <1>1, <1>2, <2>2, ServeLeaves DEF NoOrphans
      <3>2. q # p
        BY <1>0, <2>2, <3>1, DeleteFacts
      <3> QED
        BY <1>2, <3>1, <3>2, ServeFrame
    <2> QED
      BY <2>1, <2>2
  <1>3. ASSUME NEW p \in Procs, NEW u \in Users, Receive(p, u)
        PROVE  \E q \in Procs : pc'[q] = "delSvc" /\ Target(req'[q]) = d
    <2>1. PICK q \in Procs : pc[q] = "delSvc" /\ Target(req[q]) = d
      BY <1>0, <1>3, ReceiveFrame DEF NoOrphans, clusterVars
    <2> QED
      BY <1>3, <2>1, ReceiveFrame
  <1>4. CASE Crash
    <2>1. PICK q \in Procs : pc[q] = "delSvc"
      BY <1>0, <1>4 DEF NoOrphans, Crash, clusterVars
    <2> QED
      BY <1>4, <2>1 DEF Crash, DeletesWork
  <1>5. CASE ContainersStart \/ (\E o \in Orders : MarketMoves(o)) \/ UNCHANGED vars
    BY <1>0, <1>1, <1>5, OutsideLeaves DEF NoOrphans
  <1> QED
    BY <1>2, <1>3, <1>4, <1>5 DEF Next

-----------------------------------------------------------------------------
(* The invariant, and the acknowledgements that are true. *)

LEMMA SerialInit ==
    ASSUME Init
    PROVE  SerialInv
  BY DEF Init, ClusterInit, SerialInv, Alone, AllDone, NoOrphans

LEMMA SerialStep ==
    ASSUME Waits, IInv, SerialInv, [Next]_vars
    PROVE  SerialInv'
  <1>1. StoresOK /\ ProcsOK
    BY Halves
  <1>2. Alone'
    BY <1>1, AloneStep DEF SerialInv
  <1>3. AllDone'
    BY <1>1, AllDoneStep
  <1>4. DeletesWork => NoOrphans'
    BY <1>1, OrphansStep
  <1> QED
    BY <1>2, <1>3, <1>4 DEF SerialInv, DeletesWork

LEMMA SerialInvariance ==
    ASSUME Waits
    PROVE  Spec => [](IInv /\ SerialInv)
  <1>1. Init => SerialInv
    BY SerialInit
  <1>2. IInv /\ SerialInv /\ [Next]_vars => SerialInv'
    BY SerialStep
  <1> QED
    BY <1>1, <1>2, Invariance, PTL DEF Spec

\* "[ACK] deploy ok" is true, for clients that wait: every Deployment of the yaml is
\* available, the service and the user's entrance have the port the deploy got, and the
\* order names the app, whatever other accounts, faults and kills did meanwhile
\* (handler.go handlerDeployUrl and handlerDeployID, local.go Deploy).
THEOREM AckedDeployHolds ==
    ASSUME Waits
    PROVE  Spec => []AckedDeploy
  <1>1. SerialInv => AckedDeploy
    BY DEF SerialInv, AllDone, Done, Built, AckedDeploy
  <1> QED
    BY <1>1, SerialInvariance, PTL

\* "[ACK] clean ok" is true, for clients that wait and deletes that do not fail: neither
\* the Deployment of the order's app nor its service is left, although handlerClean drops
\* the error of DelDeploy.
THEOREM AckedCleanHolds ==
    ASSUME Waits, DeletesWork
    PROVE  Spec => []AckedClean
  <1>1. SerialInv => AckedClean
    BY DEF SerialInv, AllDone, Done, Cleared, AckedClean
  <1> QED
    BY <1>1, SerialInvariance, PTL

-----------------------------------------------------------------------------
(* An app between two requests. *)

\* What a step of process p, which is done with app d after it, may have been for the app:
\* another app's, the end of a clean or of a failed deploy, the end of a deploy.
Spared(p, d) ==
    /\ ~Working(p, d)
    /\ npSvc'[d] = npSvc[d]
    /\ FrontsApart => deployment'[d] = deployment[d]
    /\ OneFront => \A u \in Users : Lower[u] = d[2] => entrance'[u] = entrance[u]

Gone(d) == deployment'[d] = "absent" /\ npSvc'[d] = None

Up(d) ==
    /\ deployment'[d] = "available" /\ npSvc'[d] \in Ports
    /\ \E u \in Users : Lower[u] = d[2] /\ entrance'[u] = npSvc'[d]

LEMMA FrontFacts ==
    ASSUME NEW d \in Fronts
    PROVE  /\ d \in DepName /\ d # None /\ d = <<d[1], d[2]>> /\ d[2] \in Accounts
           /\ \E z \in Yamls : Deps[z] # <<>> /\ d[1] = Deps[z][1]
  BY NoneIsNobody DEF Fronts, DepName

\* A deploy on its way works on the same app after the step.
LEMMA StillWorking ==
    ASSUME ProcsOK, AllDone, NEW p \in Procs,
           CreateDep(p) \/ CreateSvc(p) \/ CreateNp(p) \/ WaitReady(p)
    PROVE  \E r \in Request : r = req[p] /\ Working(p, Dep(r, 1))'
  <1>1. pc[p] \in {"createDep", "createSvc", "createNp", "waitReady"}
    BY DEF CreateDep, CreateSvc, CreateNp, WaitReady
  <1>2. PICK r \in Request :
          /\ r = req[p] /\ r.kind \in Deploying
          /\ Deps[r.yaml] \in Seq(Apps) /\ Deps[r.yaml] # <<>> /\ Fits(pc[p], r)
    BY <1>1, DeployFacts DEF DeployLabels
  <1>3. ASSUME NEW l \in Changing, NEW s, GotoWith(p, l, s), l = "createDep" => s.i # 1,
               s.yaml = r.yaml, s.user = r.user, s.kind = r.kind
        PROVE  Working(p, Dep(r, 1))'
    <2>1. pc'[p] = l /\ req'[p] = s
      BY <1>3 DEF GotoWith, ProcsOK
    <2>2. Target(s) = Dep(r, 1)
      BY <1>2, <1>3 DEF Target, Dep, Account, Deploying
    <2> QED
      BY <1>3, <2>1, <2>2 DEF Working, Target, Dep, Account
  <1>4. CASE CleanUp(p)
    <2>1. GotoWith(p, "delDep", r)
      BY <1>2, <1>4 DEF CleanUp, Goto, GotoWith, ProcsOK
    <2> QED
      BY <1>2, <1>3, <2>1 DEF Changing
  <1>5. r.i \in Nat
    BY DEF Request
  <1>6. CASE CreateDep(p)
    <2>1. r.i \in DOMAIN Deps[r.yaml] /\ r.i + 1 # 1
      BY <1>2, <1>6 DEF CreateDep, Fits
    <2>2. CASE GotoWith(p, "createDep", [r EXCEPT !.i = @ + 1])
      <3>1. PICK s : s = [r EXCEPT !.i = @ + 1]
        OBVIOUS
      <3>2. s.i = r.i + 1 /\ s.yaml = r.yaml /\ s.user = r.user /\ s.kind = r.kind
        BY <3>1 DEF Request
      <3> QED
        BY <1>2, <1>3, <2>1, <2>2, <3>1, <3>2 DEF Changing
    <2>3. CASE GotoWith(p, AfterDeps(r), [r EXCEPT !.i = 1])
      <3>1. PICK s : s = [r EXCEPT !.i = 1]
        OBVIOUS
      <3>2. s.yaml = r.yaml /\ s.user = r.user /\ s.kind = r.kind
        BY <3>1 DEF Request
      <3>3. AfterDeps(r) \in Changing /\ AfterDeps(r) # "createDep"
        BY DEF AfterDeps, Changing
      <3> QED
        BY <1>2, <1>3, <2>3, <3>1, <3>2, <3>3
    <2> QED
      BY <1>2, <1>4, <1>6, <2>2, <2>3 DEF CreateDep
  <1>7. CASE CreateSvc(p)
    <2>1. PICK l \in {"createSvc", "createNp"} : \E s \in {[r EXCEPT !.i = @ + 1], [r EXCEPT !.i = 1]} :
            GotoWith(p, l, s)
      BY <1>2, <1>7 DEF CreateSvc
    <2>2. PICK s \in {[r EXCEPT !.i = @ + 1], [r EXCEPT !.i = 1]} : GotoWith(p, l, s)
      BY <2>1
    <2>3. s.yaml = r.yaml /\ s.user = r.user /\ s.kind = r.kind
      BY <2>2 DEF Request
    <2> QED
      BY <1>2, <1>3, <2>1, <2>2, <2>3 DEF Changing
  <1>8. CASE CreateNp(p)
    <2>1. ASSUME NEW port \in Ports, GotoWith(p, "waitReady", [r EXCEPT !.port = port])
          PROVE  Working(p, Dep(r, 1))'
      <3>1. PICK s : s = [r EXCEPT !.port = port]
        OBVIOUS
      <3>2. s.yaml = r.yaml /\ s.user = r.user /\ s.kind = r.kind
        BY <3>1 DEF Request
      <3> QED
        BY <1>3, <2>1, <3>1, <3>2 DEF Changing
    <2> QED
      BY <1>2, <1>4, <1>8, <2>1 DEF CreateNp
  <1>9. CASE WaitReady(p)
    <2>1. ASSUME NEW l \in {"waitReady", "putEntrance"},
                 NEW s \in {[r EXCEPT !.i = @ + 1, !.polls = 0], [r EXCEPT !.i = 1, !.polls = 0],
                            [r EXCEPT !.polls = @ + 1]},
                 GotoWith(p, l, s)
          PROVE  Working(p, Dep(r, 1))'
      <3>1. s.yaml = r.yaml /\ s.user = r.user /\ s.kind = r.kind
        BY <2>1 DEF Request
      <3> QED
        BY <1>3, <2>1, <3>1 DEF Changing
    <2> QED
      BY <1>2, <1>4, <1>9, <2>1 DEF WaitReady
  <1> QED
    BY <1>2, <1>6, <1>7, <1>8, <1>9

\* The further Deployments of a yaml are not in front of any.
LEMMA FurtherIsNoFront ==
    ASSUME FrontsApart, NEW d \in Fronts, NEW r \in Request, r.yaml \in Yamls,
           NEW n \in DOMAIN Deps[r.yaml], Dep(r, n) = d
    PROVE  d = Dep(r, 1)
  <1>1. Deps[r.yaml][n] = d[1]
    BY DEF Dep
  <1>2. n = 1
    BY <1>1, FrontFacts DEF FrontsApart
  <1> QED
    BY <1>2

\* With one app per account, whoever deploys deploys that app.
LEMMA OneFrontIsTarget ==
    ASSUME OneFront, NEW d \in Fronts, NEW r \in Request, r.yaml \in Yamls, Deps[r.yaml] # <<>>,
           d[2] = Account(r)
    PROVE  d = Dep(r, 1)
  BY FrontFacts DEF OneFront, Dep

LEMMA DeployFinishes ==
    ASSUME StoresOK, ProcsOK, SerialInv, NEW p \in Procs, NEW d \in Fronts,
           \/ CreateDep(p) \/ CreateSvc(p) \/ CreateNp(p) \/ WaitReady(p),
           ~Working(p, d)'
    PROVE  Spared(p, d)
  <1>1. AllDone /\ pc[p] \in {"createDep", "createSvc", "createNp", "waitReady"}
    BY DEF CreateDep, CreateSvc, CreateNp, WaitReady, SerialInv
  <1>2. PICK r \in Request :
          /\ r = req[p] /\ r.kind \in Deploying /\ r.yaml \in Yamls
          /\ Deps[r.yaml] # <<>> /\ Fits(pc[p], r)
          /\ \A n \in DOMAIN Deps[r.yaml] : Dep(r, n) \in DepName
    BY <1>1, DeployFacts DEF DeployLabels
  <1>3. Target(r) = Dep(r, 1) /\ Dep(r, 1) # d
    BY <1>1, <1>2, StillWorking DEF Target, Deploying
  <1>4. ~Working(p, d)
    BY <1>2, <1>3 DEF Working
  <1>5. 1 \in DOMAIN Deps[r.yaml] /\ Dep(r, 1) \in DepName /\ d \in DepName
    BY <1>2, FirstDep, FrontFacts
  <1>6. CASE CreateDep(p)
    <2>1. r.i \in DOMAIN Deps[r.yaml]
      BY <1>2, <1>6 DEF CreateDep, Fits
    <2>2. FrontsApart => Dep(r, r.i) # d
      BY <1>2, <1>3, <2>1, FurtherIsNoFront
    <2>3. UNCHANGED clusterVars \/ CreateDeployment(Dep(r, r.i))
      BY <1>2, <1>6 DEF CreateDep
    <2>4. npSvc' = npSvc /\ (FrontsApart => deployment'[d] = deployment[d])
      BY <1>2, <1>5, <2>1, <2>2, <2>3 DEF clusterVars, CreateDeployment, StoresOK, ClusterTypeOK
    <2> QED
      BY <1>4, <1>6, <2>4 DEF Spared, CreateDep
  <1>7. CASE CreateSvc(p)
    BY <1>4, <1>7 DEF CreateSvc, CreateYamlService, clusterVars, Spared
  <1>8. CASE CreateNp(p)
    <2>1. UNCHANGED clusterVars \/ \E port \in Ports : CreateNodePortService(Dep(r, 1), port)
      BY <1>2, <1>8 DEF CreateNp
    <2>2. UNCHANGED deployment /\ npSvc'[d] = npSvc[d]
      BY <1>3, <1>5, <2>1 DEF clusterVars, CreateNodePortService, StoresOK, ClusterTypeOK
    <2> QED
      BY <1>4, <1>8, <2>2 DEF Spared, CreateNp
  <1>9. CASE WaitReady(p)
    BY <1>4, <1>9 DEF WaitReady, clusterVars, Spared
  <1> QED
    BY <1>6, <1>7, <1>8, <1>9

LEMMA PutEntranceFinishes ==
    ASSUME StoresOK, ProcsOK, SerialInv, NEW p \in Procs, NEW d \in Fronts, d[2] = Account(req[p]),
           PutEntrance(p), ~Working(p, d)'
    PROVE  Spared(p, d) \/ Up(d)
  <1>1. pc[p] = "putEntrance" /\ AllDone
    BY DEF PutEntrance, SerialInv
  <1>2. PICK r \in Request :
          /\ r = req[p] /\ r.kind \in Deploying /\ r.yaml \in Yamls /\ Deps[r.yaml] # <<>>
          /\ Built("putEntrance", r) /\ Grounded("putEntrance", r)
    BY <1>1, DeployFacts DEF DeployLabels
  <1>3. Target(r) = Dep(r, 1) /\ 1 \in DOMAIN Deps[r.yaml]
    BY <1>2, FirstDep DEF Target, Deploying
  <1>4. UNCHANGED <<deployment, npSvc>>
    BY DEF PutEntrance, clusterVars
  <1>5. CASE d # Dep(r, 1)
    <2>1. ~OneFront /\ ~Working(p, d)
      BY <1>2, <1>3, <1>5, OneFrontIsTarget DEF Working
    <2> QED
      BY <1>4, <2>1 DEF Spared
  <1>6. CASE d = Dep(r, 1)
    <2>1. ASSUME NEW l \in {"delDep", "setApp"}, Goto(p, l)
          PROVE  FALSE
      <3>1. pc'[p] = l /\ req'[p] = r
        BY <1>2, <2>1 DEF Goto, ProcsOK
      <3> QED
        BY <1>3, <1>6, <3>1 DEF Working, Changing, Target, Dep, Account
    <2>2. entrance' = [entrance EXCEPT ![r.user] = r.port]
      BY <1>2, <2>1 DEF PutEntrance, CleanUp
    <2>3. r.user \in Users /\ entrance'[r.user] = r.port /\ Lower[r.user] = d[2]
      BY <1>2, <2>2 DEF StoresOK, Request, Account
    <2>4. deployment[d] = "available" /\ npSvc[d] = r.port /\ r.port \in Ports
      BY <1>2, <1>3, <1>6 DEF Built, Grounded
    <2> QED
      BY <1>4, <2>3, <2>4 DEF Up
  <1> QED
    BY <1>5, <1>6

LEMMA SetAppFinishes ==
    ASSUME StoresOK, ProcsOK, SerialInv, NEW p \in Procs, NEW d \in Fronts, d[2] = Account(req[p]),
           SetApp(p), ~Working(p, d)'
    PROVE  Spared(p, d) \/ Up(d)
  <1>1. pc[p] = "setApp" /\ AllDone
    BY DEF SetApp, SerialInv
  <1>2. PICK r \in Request :
          /\ r = req[p] /\ r.kind \in Deploying /\ r.yaml \in Yamls /\ Deps[r.yaml] # <<>>
          /\ Built("setApp", r) /\ Grounded("setApp", r)
    BY <1>1, DeployFacts DEF DeployLabels
  <1>3. Target(r) = Dep(r, 1) /\ 1 \in DOMAIN Deps[r.yaml]
    BY <1>2, FirstDep DEF Target, Deploying
  <1>4. UNCHANGED <<deployment, npSvc, entrance>>
    BY DEF SetApp, clusterVars
  <1>5. CASE d # Dep(r, 1)
    BY <1>2, <1>3, <1>4, <1>5 DEF Working, Spared
  <1>6. CASE d = Dep(r, 1)
    <2>1. r.user \in Users /\ entrance[r.user] = r.port /\ Lower[r.user] = d[2]
      BY <1>2 DEF Request, Account, Built
    <2>2. deployment[d] = "available" /\ npSvc[d] = r.port /\ r.port \in Ports
      BY <1>2, <1>3, <1>6 DEF Built, Grounded
    <2> QED
      BY <1>4, <2>1, <2>2 DEF Up
  <1> QED
    BY <1>5, <1>6

LEMMA DelDepFinishes ==
    ASSUME StoresOK, ProcsOK, SerialInv, DeletesWork, NEW p \in Procs, NEW d \in Fronts,
           d[2] = Account(req[p]), DelDep(p), ~Working(p, d)'
    PROVE  Spared(p, d) \/ Gone(d)
  <1>1. pc[p] = "delDep" /\ AllDone /\ ~MayFail("delDep")
    BY DEF DelDep, SerialInv, DeletesWork, MayFail
  <1>2. PICK r \in Request : r = req[p] /\ (Target(r) # None => Target(r) \in DepName)
    BY <1>1, DeleteFacts
  <1>3. UNCHANGED <<npSvc, entrance>>
    BY DEF DelDep, DeleteDeployment, clusterVars
  <1>4. d \in DepName /\ d # None
    BY FrontFacts
  <1>5. CASE d # Target(r)
    <2>1. deployment'[d] = deployment[d]
      BY <1>2, <1>4, <1>5 DEF DelDep, DeleteDeployment, clusterVars, StoresOK, ClusterTypeOK
    <2> QED
      BY <1>2, <1>3, <1>5, <2>1 DEF Working, Spared
  <1>6. CASE d = Target(r)
    <2>1. ~Goto(p, "delSvc")
      <3> SUFFICES ASSUME Goto(p, "delSvc") PROVE FALSE
        OBVIOUS
      <3>1. pc'[p] = "delSvc" /\ req'[p] = r
        BY <1>2 DEF Goto, ProcsOK
      <3> QED
        BY <1>6, <3>1 DEF Working, Changing, Target, Dep, Account
    <2>2. deployment[d] = "absent" /\ deployment' = deployment
      BY <1>1, <1>2, <1>4, <1>6, <2>1 DEF DelDep, DeploymentExists, clusterVars
    <2>3. npSvc[d] = None
      BY <1>1, <1>4, <2>2, OwnOrphan DEF SerialInv
    <2> QED
      BY <1>3, <2>2, <2>3 DEF Gone
  <1> QED
    BY <1>5, <1>6

LEMMA DelSvcFinishes ==
    ASSUME StoresOK, ProcsOK, SerialInv, DeletesWork, NEW p \in Procs, NEW d \in Fronts,
           DelSvc(p)
    PROVE  Spared(p, d) \/ Gone(d)
  <1>1. pc[p] = "delSvc" /\ AllDone /\ ~MayFail("delSvc")
    BY DEF DelSvc, SerialInv, DeletesWork, MayFail
  <1>2. PICK r \in Request :
          /\ r = req[p] /\ (Target(r) # None => Target(r) \in DepName)
          /\ deployment[Target(r)] = "absent"
    BY <1>1, DeleteFacts DEF Done, Cleared
  <1>3. UNCHANGED <<deployment, entrance>>
    BY DEF DelSvc, DeleteService, clusterVars
  <1>4. d \in DepName /\ d # None
    BY FrontFacts
  <1>5. DeleteService(Target(r)) \/ (~ServiceExists(Target(r)) /\ UNCHANGED clusterVars)
    BY <1>1, <1>2 DEF DelSvc
  <1>6. CASE d # Target(r)
    <2>1. npSvc'[d] = npSvc[d]
      BY <1>2, <1>4, <1>5, <1>6 DEF DeleteService, clusterVars, StoresOK, ClusterTypeOK
    <2> QED
      BY <1>2, <1>3, <1>6, <2>1 DEF Working, Spared
  <1>7. CASE d = Target(r)
    <2>1. npSvc'[d] = None
      BY <1>4, <1>5, <1>7 DEF DeleteService, ServiceExists, clusterVars, StoresOK, ClusterTypeOK
    <2> QED
      BY <1>2, <1>3, <1>7, <2>1 DEF Gone
  <1> QED
    BY <1>6, <1>7

LEMMA Finishes ==
    ASSUME StoresOK, ProcsOK, SerialInv, DeletesWork, NEW p \in Procs, Serve(p), NEW d \in Fronts,
           d[2] = Account(req[p]), ~Working(p, d)'
    PROVE  Spared(p, d) \/ Gone(d) \/ Up(d)
  <1>1. CASE \/ CheckSvc(p) \/ GetOrder(p) \/ CheckOrder(p) \/ GetEntrance(p) \/ Forward(p) \/ Answer(p)
    <2>1. pc[p] \notin Changing /\ UNCHANGED <<deployment, npSvc, entrance>>
      BY <1>1 DEF CheckSvc, GetOrder, CheckOrder, GetEntrance, Forward, Answer, Changing, clusterVars
    <2> QED
      BY <2>1 DEF Working, Spared
  <1>2. CASE CreateDep(p) \/ CreateSvc(p) \/ CreateNp(p) \/ WaitReady(p)
    BY <1>2, DeployFinishes
  <1>3. CASE PutEntrance(p)
    BY <1>3, PutEntranceFinishes
  <1>4. CASE SetApp(p)
    BY <1>4, SetAppFinishes
  <1>5. CASE DelDep(p)
    BY <1>5, DelDepFinishes
  <1>6. CASE DelSvc(p)
    BY <1>6, DelSvcFinishes
  <1> QED
    BY <1>1, <1>2, <1>3, <1>4, <1>5, <1>6 DEF Serve

\* Who works on an app serves a request of the app's account.
LEMMA WorksOnOwn ==
    ASSUME ProcsOK, SerialInv, NEW q \in Procs, NEW d \in DepName, Working(q, d)
    PROVE  pc[q] # "idle" /\ Account(req[q]) = d[2]
  <1>1. pc[q] # "idle" /\ AllDone
    BY DEF Working, Changing, SerialInv
  <1>2. CASE pc[q] \in {"delDep", "delSvc"}
    <2>1. d # None
      BY NoneIsNobody DEF DepName
    <2> QED
      BY <1>1, <1>2, <2>1, DeleteFacts DEF Working
  <1>3. CASE pc[q] \in DeployLabels
    <2>1. PICK r \in Request : r = req[q] /\ r.kind \in Deploying
      BY <1>1, <1>3, DeployFacts
    <2> QED
      BY <1>1, <2>1 DEF Working, Target, Dep, Deploying
  <1> QED
    BY <1>2, <1>3 DEF Working, Changing, DeployLabels

\* After a step an app nobody works on was free before and is as it was, or has just been
\* left in a state of rest.
LEMMA FreeAfter ==
    ASSUME StoresOK, ProcsOK, SerialInv, DeletesWork, [Next]_vars, crashes' = 0,
           NEW d \in Fronts, Free(d)'
    PROVE  /\ crashes = 0
           /\ \/ Free(d) /\ Leaves(d[2])
              \/ \E p \in Procs : Free(d) /\ Spared(p, d)
              \/ Gone(d) \/ Up(d)
  <1>0. d \in DepName /\ d[2] \in Accounts
    BY FrontFacts
  <1>1. ASSUME NEW p \in Procs, Serve(p)
        PROVE  /\ crashes = 0
               /\ \/ Free(d) /\ Leaves(d[2])
                  \/ \E q \in Procs : Free(d) /\ Spared(q, d)
                  \/ Gone(d) \/ Up(d)
    <2>1. /\ pc[p] # "idle" /\ crashes = 0
          /\ \A q \in Procs \ {p} : pc'[q] = pc[q] /\ req'[q] = req[q]
      BY <1>1, ServeFrame
    <2>2. \A q \in Procs \ {p} : ~Working(q, d)
      BY <2>1 DEF Free, Working, Target, Dep, Account
    <2>3. CASE d[2] # Account(req[p])
      <3>1. ~Working(p, d)
        BY <1>0, <2>3, WorksOnOwn
      <3> QED
        BY <1>0, <1>1, <2>1, <2>2, <2>3, <3>1, ServeLeaves DEF Free
    <2>4. CASE d[2] = Account(req[p])
      <3>1. Spared(p, d) \/ Gone(d) \/ Up(d)
        BY <1>1, <2>4, Finishes DEF Free
      <3>2. Spared(p, d) => Free(d)
        BY <2>2 DEF Spared, Free
      <3> QED
        BY <2>1, <3>1, <3>2
    <2> QED
      BY <2>3, <2>4
  <1>2. ASSUME NEW p \in Procs, NEW u \in Users, Receive(p, u)
        PROVE  crashes = 0 /\ Free(d) /\ Leaves(d[2])
    <2>1. /\ pc[p] = "idle" /\ UNCHANGED <<clusterVars, entrance, order, crashes>>
          /\ \A q \in Procs \ {p} : pc'[q] = pc[q] /\ req'[q] = req[q]
      BY <1>2, ReceiveFrame
    <2>2. \A q \in Procs \ {p} : ~Working(q, d)
      BY <2>1 DEF Free, Working, Target, Dep, Account
    <2>3. ~Working(p, d)
      BY <2>1 DEF Working, Changing
    <2> QED
      BY <2>1, <2>2, <2>3, LeavesAll DEF Free, clusterVars
  <1>3. CASE Crash
    BY <1>3 DEF Crash, StoresOK
  <1>4. CASE ContainersStart \/ (\E o \in Orders : MarketMoves(o)) \/ UNCHANGED vars
    <2>1. UNCHANGED <<pc, req, crashes>> /\ Leaves(d[2])
      BY <1>0, <1>4, OutsideLeaves
    <2> QED
      BY <2>1 DEF Free, Working, Target, Dep, Account
  <1> QED
    BY <1>1, <1>2, <1>3, <1>4 DEF Next

LEMMA SettledStep ==
    ASSUME IInv, SerialInv, DeletesWork, FrontsApart, AllSettled, [Next]_vars
    PROVE  AllSettled'
  <1> SUFFICES ASSUME crashes' = 0, NEW d \in Fronts, Free(d)' PROVE Settled(d)'
    BY DEF AllSettled
  <1>1. StoresOK /\ ProcsOK
    BY Halves
  <1>2. Free(d) => Settled(d)
    BY <1>1, FreeAfter DEF AllSettled
  <1>3. Leaves(d[2]) /\ Settled(d) => Settled(d)'
    BY FrontFacts DEF Leaves, Settled, DepName
  <1>4. \A p \in Procs : Spared(p, d) /\ Settled(d) => Settled(d)'
    BY DEF Spared, Settled
  <1>5. Gone(d) \/ Up(d) => Settled(d)'
    BY NoneIsNobody DEF Gone, Up, Settled
  <1> QED
    BY <1>1, <1>2, <1>3, <1>4, <1>5, FreeAfter

LEMMA ReachedStep ==
    ASSUME IInv, SerialInv, DeletesWork, OneFront, AllReached, [Next]_vars
    PROVE  AllReached'
  <1> SUFFICES ASSUME crashes' = 0, NEW d \in Fronts, Free(d)' PROVE Reached(d)'
    BY DEF AllReached
  <1>1. StoresOK /\ ProcsOK
    BY Halves
  <1>2. Free(d) => Reached(d)
    BY <1>1, FreeAfter DEF AllReached
  <1>3. Leaves(d[2]) /\ Reached(d) => Reached(d)'
    BY FrontFacts DEF Leaves, Reached, DepName
  <1>4. \A p \in Procs : Spared(p, d) /\ Reached(d) => Reached(d)'
    BY DEF Spared, Reached
  <1>5. Gone(d) \/ Up(d) => Reached(d)'
    BY DEF Gone, Up, Reached
  <1> QED
    BY <1>1, <1>2, <1>3, <1>4, <1>5, FreeAfter

\* While no request of the account is in flight, nobody works on its apps.
LEMMA QuietIsFree ==
    ASSUME IInv, SerialInv, NEW d \in DepName, Quiet(d[2])
    PROVE  Free(d)
  <1>1. ProcsOK /\ Alone
    BY Halves DEF SerialInv
  <1>2. \A q \in Procs : pc[q] # "idle" => Account(req[q]) # d[2]
    BY <1>1, NobodyInFlight DEF Quiet
  <1> QED
    BY <1>1, <1>2, WorksOnOwn DEF Free

\* Between two requests an app is all there or gone altogether, for clients that wait,
\* deletes that do not fail, and yamls whose further Deployments are in front of none:
\* whichever call of a deploy failed, for every account, until the daemon is killed
\* (deploy.go Deploy and Clean, local.go Deploy).
THEOREM AllOrNothingHolds ==
    ASSUME Waits, DeletesWork, FrontsApart
    PROVE  Spec => []AllOrNothing
  <1>1. Init => AllSettled
    BY FrontFacts DEF Init, ClusterInit, AllSettled, Settled
  <1>2. IInv /\ SerialInv /\ AllSettled /\ [Next]_vars => AllSettled'
    BY SettledStep
  <1>3. IInv /\ SerialInv /\ AllSettled => AllOrNothing
    BY FrontFacts, QuietIsFree DEF AllSettled, Settled, AllOrNothing
  <1> QED
    BY <1>1, <1>2, <1>3, SerialInvariance, PTL DEF Spec

\* Between two requests the service of an account's one app is the entrance of a user of
\* the account, for clients that wait and deletes that do not fail, until the daemon is
\* killed (local.go Deploy stores the port of the service it has just made).
THEOREM ReachableHolds ==
    ASSUME Waits, DeletesWork, OneFront
    PROVE  Spec => []Reachable
  <1>1. Init => AllReached
    BY FrontFacts DEF Init, ClusterInit, AllReached, Reached
  <1>2. IInv /\ SerialInv /\ AllReached /\ [Next]_vars => AllReached'
    BY ReachedStep
  <1>3. IInv /\ SerialInv /\ AllReached => Reachable
    BY FrontFacts, QuietIsFree DEF AllReached, Reached, Reachable
  <1> QED
    BY <1>1, <1>2, <1>3, SerialInvariance, PTL DEF Spec
=============================================================================
