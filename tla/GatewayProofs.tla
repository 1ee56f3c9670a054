--------------------------- MODULE GatewayProofs ---------------------------
(***************************************************************************)
(* Proofs about module Gateway, for any number of processes, users, yamls,  *)
(* orders and ports.  IInv is inductive: a step gives one process a new     *)
(* label and request and leaves the others alone, so that a step is checked *)
(* once for what it does to the stores and once for the process it moves;   *)
(* the leases only grow, which carries the other processes over.  Gateway   *)
(* implements Tenants: every step maps to a step of the account whose       *)
(* request makes it.                                                        *)
(***************************************************************************)
EXTENDS GatewayTenants, TLAPS

Busy == Labels \ {"idle"}

\* What IInv says of the stores, and of the processes.
StoresOK ==
    /\ ClusterTypeOK
    /\ entrance \in [Users -> Ports \cup {None}]
    /\ order \in [Orders -> Order]
    /\ crashes \in Nat
    /\ EntranceProvenance
    /\ AppProvenance

ProcsOK ==
    /\ pc \in [Procs -> Labels]
    /\ req \in [Procs -> Request \cup {None}]
    /\ \A p \in Procs : req[p] = None <=> pc[p] = "idle"
    /\ Grounding

\* IInv falls into the two halves.
LEMMA Halves == IInv <=> StoresOK /\ ProcsOK
  BY Zenon DEF IInv, StoresOK, ProcsOK, TypeOK

\* What holds of a process that is serving a request.
LEMMA BusyFacts ==
    ASSUME ProcsOK, NEW p \in Procs, pc[p] # "idle"
    PROVE  /\ req[p] \in Request
           /\ pc[p] \in Busy
           /\ Fits(pc[p], req[p])
           /\ Grounded(pc[p], req[p])
  BY DEF ProcsOK, Grounding, Busy

-----------------------------------------------------------------------------
(* Leases only grow, and what rests on them stays. *)

LEMMA GroundedStays ==
    ASSUME NEW l, NEW r, Grounded(l, r), leased \subseteq leased'
    PROVE  Grounded(l, r)'
  BY DEF Grounded, LeasedTo, Dep, Account

LEMMA ProvenanceStays ==
    ASSUME StoresOK, leased \subseteq leased', ClusterTypeOK',
           UNCHANGED <<entrance, order, crashes>>
    PROVE  StoresOK'
  <1>1. EntranceProvenance'
    BY DEF StoresOK, EntranceProvenance, LeasedTo
  <1>2. AppProvenance'
    BY DEF StoresOK, AppProvenance
  <1> QED
    BY <1>1, <1>2 DEF StoresOK

\* A step that gives process p the label l and the request r.
LEMMA Moves ==
    ASSUME ProcsOK, NEW p \in Procs, NEW l \in Busy, NEW r \in Request,
           GotoWith(p, l, r), Fits(l, r), Grounded(l, r)',
           leased \subseteq leased'
    PROVE  ProcsOK'
  <1>1. /\ pc' \in [Procs -> Labels]
        /\ req' \in [Procs -> Request \cup {None}]
    BY DEF ProcsOK, GotoWith, Busy
  <1>2. ASSUME NEW q \in Procs
        PROVE  /\ req'[q] = None <=> pc'[q] = "idle"
               /\ pc'[q] # "idle" => Fits(pc'[q], req'[q]) /\ Grounded(pc[q], req[q])'
    <2>1. CASE q = p
      <3>1. pc'[q] = l /\ req'[q] = r
        BY <2>1 DEF ProcsOK, GotoWith
      <3>2. l # "idle" /\ r # None
        BY NoneIsNoRecord DEF Busy
      <3> QED
        BY <3>1, <3>2
    <2>2. CASE q # p
      <3>1. pc'[q] = pc[q] /\ req'[q] = req[q]
        BY <2>2 DEF ProcsOK, GotoWith
      <3>2. pc[q] # "idle" => Fits(pc[q], req[q]) /\ Grounded(pc[q], req[q])
        BY DEF ProcsOK, Grounding
      <3>3. req[q] = None <=> pc[q] = "idle"
        BY DEF ProcsOK
      <3>4. Grounded(pc[q], req[q]) => Grounded(pc[q], req[q])'
        BY <3>1, GroundedStays DEF Grounded, LeasedTo, Dep, Account
      <3> QED
        BY <3>1, <3>2, <3>3, <3>4
    <2> QED
      BY <2>1, <2>2
  <1> QED
    BY <1>1, <1>2 DEF ProcsOK, Grounding

\* A step that only moves the label.
LEMMA Advances ==
    ASSUME ProcsOK, NEW p \in Procs, pc[p] # "idle", NEW l \in Busy, Goto(p, l),
           Fits(l, req[p]), Grounded(l, req[p])', leased \subseteq leased'
    PROVE  ProcsOK'
  <1>1. PICK r \in Request : r = req[p]
    BY BusyFacts
  <1>2. req' = req /\ req' = [req EXCEPT ![p] = r]
    BY <1>1 DEF Goto, ProcsOK
  <1>3. GotoWith(p, l, r)
    BY <1>2 DEF Goto, GotoWith
  <1>4. Grounded(l, r)'
    BY <1>1, <1>2 DEF Grounded, LeasedTo, Dep, Account
  <1>5. Fits(l, r)
    BY <1>1
  <1> QED
    BY <1>3, <1>4, <1>5, Moves

-----------------------------------------------------------------------------
(* Names and the calls to the cluster. *)

LEMMA DepIsName ==
    ASSUME NEW r \in Request, r.yaml \in Yamls, NEW n \in DOMAIN Deps[r.yaml]
    PROVE  Dep(r, n) \in DepName
  <1>1. Deps[r.yaml] \in Seq(Apps)
    BY GatewayAssumption
  <1>2. Deps[r.yaml][n] \in Apps
    BY <1>1
  <1>3. Lower[r.user] \in Accounts
    BY GatewayAssumption DEF Request
  <1> QED
    BY <1>2, <1>3 DEF Dep, Account, DepName

LEMMA FirstDep ==
    ASSUME NEW r \in Request, r.yaml \in Yamls, Deps[r.yaml] # <<>>
    PROVE  1 \in DOMAIN Deps[r.yaml] /\ Dep(r, 1) \in DepName
  <1>1. Deps[r.yaml] \in Seq(Apps)
    BY GatewayAssumption
  <1>2. 1 \in DOMAIN Deps[r.yaml]
    BY <1>1
  <1> QED
    BY <1>2, DepIsName

\* No call to the cluster breaks its type or takes a lease out of the history.
LEMMA ClusterCalls ==
    ASSUME ClusterTypeOK, NEW d \in DepName,
           \/ CreateDeployment(d)
           \/ DeleteDeployment(d)
           \/ \E port \in Ports : CreateNodePortService(d, port)
           \/ DeleteService(d)
           \/ \E s \in SvcNames, a \in Accounts : CreateYamlService(s, a)
           \/ BecomeAvailable(d)
           \/ UNCHANGED clusterVars
    PROVE  ClusterTypeOK' /\ leased \subseteq leased'
  <1>1. CASE CreateDeployment(d)
    BY <1>1 DEF ClusterTypeOK, CreateDeployment
  <1>2. CASE DeleteDeployment(d)
    BY <1>2 DEF ClusterTypeOK, DeleteDeployment
  <1>3. CASE \E port \in Ports : CreateNodePortService(d, port)
    BY <1>3 DEF ClusterTypeOK, CreateNodePortService
  <1>4. CASE DeleteService(d)
    BY <1>4 DEF ClusterTypeOK, DeleteService
  <1>5. CASE \E s \in SvcNames, a \in Accounts : CreateYamlService(s, a)
    BY <1>5 DEF ClusterTypeOK, CreateYamlService
  <1>6. CASE BecomeAvailable(d)
    BY <1>6 DEF ClusterTypeOK, BecomeAvailable
  <1>7. CASE UNCHANGED clusterVars
    BY <1>7 DEF ClusterTypeOK, clusterVars
  <1> QED
    BY <1>1, <1>2, <1>3, <1>4, <1>5, <1>6, <1>7

\* A step that leaves the cluster alone.
LEMMA ClusterIdle ==
    ASSUME ClusterTypeOK, UNCHANGED clusterVars
    PROVE  ClusterTypeOK' /\ leased \subseteq leased'
  BY DEF ClusterTypeOK, clusterVars

\* An error inside Deploy or SetApp leads to Clean with the request as it is.
LEMMA CleansUp ==
    ASSUME ProcsOK, NEW p \in Procs, pc[p] \in DeployLabels, CleanUp(p),
           leased \subseteq leased'
    PROVE  ProcsOK'
  <1>1. pc[p] # "idle"
    BY DEF DeployLabels
  <1>2. Fits(pc[p], req[p]) /\ Grounded(pc[p], req[p])
    BY <1>1, BusyFacts
  <1>3. Fits("delDep", req[p])
    BY <1>2 DEF Fits, DeployLabels
  <1>4. Grounded("delDep", req[p])
    BY <1>2 DEF Grounded
  <1>5. req' = req
    BY DEF CleanUp, Goto
  <1>6. Grounded("delDep", req[p])'
    BY <1>4, <1>5 DEF Grounded, Account
  <1>7. "delDep" \in Busy
    BY DEF Busy, Labels, Calls
  <1> QED
    BY <1>1, <1>3, <1>6, <1>7, Advances DEF CleanUp

-----------------------------------------------------------------------------
(* One lemma per action. *)

LEMMA ReceiveStep ==
    ASSUME StoresOK, ProcsOK, NEW p \in Procs, NEW u \in Users, Receive(p, u)
    PROVE  StoresOK' /\ ProcsOK'
  <1>1. PICK k \in Kinds,
             y \in Yamls \cup {None}, o \in Orders \cup {None} :
               /\ k \in Deploying => y \in Yamls
               /\ k \in WithOrder => o \in OrdersOf[u]
               /\ Submit(p, k, u, y, o)
    <2>1. OrdersOf[u] \subseteq Orders
      BY GatewayAssumption
    <2> QED
      BY <2>1 DEF Receive
  <1> DEFINE r == [kind |-> k, user |-> u, yaml |-> y, oid |-> o, i |-> 1,
                   polls |-> 0, port |-> None, snap |-> None]
             l == FirstLabel(r)
  <1>2. UNCHANGED <<clusterVars, entrance, order, crashes>> /\ GotoWith(p, l, r)
    BY <1>1 DEF Submit
  <1>3. StoresOK' /\ leased \subseteq leased'
    BY <1>2, ProvenanceStays, ClusterIdle DEF StoresOK
  <1>4. k \in AllKinds
    BY GatewayAssumption
  <1>5. r \in Request
    BY <1>4 DEF Request
  <1>6. l \in {"getOrder", "fail", "checkSvc"}
    BY DEF FirstLabel
  <1>7. l \in Busy
    BY <1>6 DEF Busy, Labels, Calls
  <1>8. Fits(l, r)
    BY <1>1, <1>4, <1>6 DEF Fits, FirstLabel, AllKinds, Deploying, WithOrder, DeployLabels
  <1>9. Grounded(l, r)'
    BY <1>6 DEF Grounded
  <1> HIDE DEF l, r
  <1> QED
    BY <1>2, <1>3, <1>5, <1>7, <1>8, <1>9, Moves

LEMMA AnswerStep ==
    ASSUME StoresOK, ProcsOK, NEW p \in Procs, Answer(p)
    PROVE  StoresOK' /\ ProcsOK'
  <1>1. StoresOK' /\ leased \subseteq leased'
    BY ProvenanceStays, ClusterIdle DEF StoresOK, Answer
  <1>2. GotoWith(p, "idle", None)
    BY DEF Answer
  <1>3. /\ pc' \in [Procs -> Labels]
        /\ req' \in [Procs -> Request \cup {None}]
    BY <1>2 DEF ProcsOK, GotoWith, Labels
  <1>4. ASSUME NEW q \in Procs
        PROVE  /\ req'[q] = None <=> pc'[q] = "idle"
               /\ pc'[q] # "idle" => Fits(pc'[q], req'[q]) /\ Grounded(pc[q], req[q])'
    <2>1. CASE q = p
      BY <1>2, <2>1 DEF ProcsOK, GotoWith
    <2>2. CASE q # p
      <3>1. pc'[q] = pc[q] /\ req'[q] = req[q]
        BY <1>2, <2>2 DEF ProcsOK, GotoWith
      <3>2. pc[q] # "idle" => Fits(pc[q], req[q]) /\ Grounded(pc[q], req[q])
        BY DEF ProcsOK, Grounding
      <3>3. req[q] = None <=> pc[q] = "idle"
        BY DEF ProcsOK
      <3>4. Grounded(pc[q], req[q]) => Grounded(pc[q], req[q])'
        BY <1>1, <3>1 DEF Grounded, LeasedTo, Dep, Account
      <3> QED
        BY <3>1, <3>2, <3>3, <3>4
    <2> QED
      BY <2>1, <2>2
  <1> QED
    BY <1>1, <1>3, <1>4 DEF ProcsOK, Grounding

LEMMA CrashStep ==
    ASSUME StoresOK, ProcsOK, Crash
    PROVE  StoresOK' /\ ProcsOK'
  <1>1. ClusterTypeOK' /\ leased \subseteq leased'
    BY ClusterIdle DEF StoresOK, Crash
  <1>2. EntranceProvenance'
    BY <1>1 DEF StoresOK, EntranceProvenance, LeasedTo, Crash
  <1>3. AppProvenance'
    BY <1>1 DEF StoresOK, AppProvenance, Crash
  <1>4. StoresOK'
    BY <1>1, <1>2, <1>3 DEF StoresOK, Crash
  <1>5. ProcsOK'
    BY DEF ProcsOK, Crash, Grounding, Labels
  <1> QED
    BY <1>4, <1>5

LEMMA CheckSvcStep ==
    ASSUME StoresOK, ProcsOK, NEW p \in Procs, CheckSvc(p)
    PROVE  StoresOK' /\ ProcsOK'
  <1>1. StoresOK' /\ leased \subseteq leased'
    BY ProvenanceStays, ClusterIdle DEF StoresOK, CheckSvc
  <1>2. pc[p] \in DeployLabels /\ pc[p] # "idle"
    BY DEF CheckSvc, DeployLabels
  <1>3. CASE CleanUp(p)
    BY <1>1, <1>2, <1>3, CleansUp
  <1>4. CASE Goto(p, "createDep")
    <2>1. Fits(pc[p], req[p]) /\ Grounded(pc[p], req[p]) /\ req[p] \in Request
      BY <1>2, BusyFacts
    <2>2. Fits("createDep", req[p])
      <3>1. PICK r \in Request : r = req[p]
        BY <2>1
      <3>2. Fits("checkSvc", r)
        BY <2>1, <3>1 DEF CheckSvc
      <3>3. r.yaml \in Yamls /\ Deps[r.yaml] # <<>> /\ r.i = 1
        BY <3>2 DEF Fits, DeployLabels
      <3>4. 1 \in DOMAIN Deps[r.yaml]
        BY <3>3, FirstDep
      <3> QED
        BY <3>1, <3>2, <3>3, <3>4 DEF Fits, DeployLabels
    <2>3. Grounded("createDep", req[p])'
      BY <1>4, <2>1 DEF Grounded, Goto, Account
    <2>4. "createDep" \in Busy
      BY DEF Busy, Labels, Calls
    <2> QED
      BY <1>1, <1>2, <1>4, <2>2, <2>3, <2>4, Advances
  <1> QED
    BY <1>1, <1>3, <1>4 DEF CheckSvc

LEMMA CreateDepStep ==
    ASSUME StoresOK, ProcsOK, NEW p \in Procs, CreateDep(p)
    PROVE  StoresOK' /\ ProcsOK'
  <1>1. pc[p] \in DeployLabels /\ pc[p] # "idle" /\ pc[p] = "createDep"
    BY DEF CreateDep, DeployLabels
  <1>2. PICK r \in Request : r = req[p]
    BY <1>1, BusyFacts
  <1>3. Fits("createDep", r) /\ Grounded("createDep", r)
    BY <1>1, <1>2, BusyFacts
  <1>4. r.yaml \in Yamls /\ r.i \in DOMAIN Deps[r.yaml] /\ Dep(r, r.i) \in DepName
    BY <1>3, DepIsName DEF Fits, DeployLabels
  <1>5. CreateDeployment(Dep(r, r.i)) \/ UNCHANGED clusterVars
    BY <1>2 DEF CreateDep
  <1>6. ClusterTypeOK' /\ leased \subseteq leased'
    BY <1>4, <1>5, ClusterCalls DEF StoresOK
  <1>7. StoresOK'
    BY <1>6, ProvenanceStays DEF CreateDep
  <1>8. CASE CleanUp(p)
    BY <1>1, <1>6, <1>7, <1>8, CleansUp
  <1>9. CASE r.i < Len(Deps[r.yaml]) /\ GotoWith(p, "createDep", [r EXCEPT !.i = @ + 1])
    <2> DEFINE s == [r EXCEPT !.i = @ + 1]
    <2>1. Deps[r.yaml] \in Seq(Apps) /\ r.i \in Nat
      BY <1>4, GatewayAssumption DEF Request
    <2>2. r.i + 1 \in DOMAIN Deps[r.yaml]
      BY <1>4, <1>9, <2>1
    <2>3. s \in Request /\ s.i = r.i + 1
      BY <2>1 DEF Request
    <2>4. Fits("createDep", s)
      BY <1>3, <2>2 DEF Fits, Request
    <2>5. Grounded("createDep", s)'
      BY <1>3 DEF Grounded, Account, Request
    <2>6. "createDep" \in Busy
      BY DEF Busy, Labels, Calls
    <2> HIDE DEF s
    <2> QED
      BY <1>6, <1>7, <1>9, <2>3, <2>4, <2>5, <2>6, Moves DEF s
  <1>10. CASE GotoWith(p, AfterDeps(r), [r EXCEPT !.i = 1])
    <2> DEFINE s == [r EXCEPT !.i = 1]
               l == AfterDeps(r)
    <2>1. l \in {"createNp", "createSvc"}
      BY DEF AfterDeps
    <2>2. s \in Request
      BY DEF Request
    <2>3. Svcs[r.yaml] \in Seq(SvcNames)
      BY <1>4, GatewayAssumption
    <2>4. l = "createSvc" => 1 \in DOMAIN Svcs[r.yaml]
      BY <2>3 DEF AfterDeps
    <2>5. Fits(l, s)
      BY <1>3, <2>1, <2>4 DEF Fits, Request, DeployLabels
    <2>6. Grounded(l, s)'
      BY <1>3, <2>1 DEF Grounded, Account, Request
    <2>7. l \in Busy
      BY <2>1 DEF Busy, Labels, Calls
    <2> HIDE DEF s, l
    <2> QED
      BY <1>6, <1>7, <1>10, <2>2, <2>5, <2>6, <2>7, Moves DEF s, l
  <1> QED
    BY <1>2, <1>7, <1>8, <1>9, <1>10 DEF CreateDep

LEMMA CreateSvcStep ==
    ASSUME StoresOK, ProcsOK, NEW p \in Procs, CreateSvc(p)
    PROVE  StoresOK' /\ ProcsOK'
  <1>1. pc[p] # "idle" /\ pc[p] = "createSvc"
    BY DEF CreateSvc
  <1>2. PICK r \in Request : r = req[p]
    BY <1>1, BusyFacts
  <1>3. Fits("createSvc", r) /\ Grounded("createSvc", r)
    BY <1>1, <1>2, BusyFacts
  <1>4. r.yaml \in Yamls /\ r.i \in DOMAIN Svcs[r.yaml] /\ Deps[r.yaml] # <<>>
    BY <1>3 DEF Fits, DeployLabels
  <1>5. Svcs[r.yaml] \in Seq(SvcNames) /\ r.i \in Nat
    BY <1>4, GatewayAssumption DEF Request
  <1>6. Svcs[r.yaml][r.i] \in SvcNames /\ Account(r) \in Accounts
    BY <1>4, <1>5, GatewayAssumption DEF Account, Request
  <1>7. Dep(r, 1) \in DepName
    BY <1>4, FirstDep
  <1>8. \/ \E s \in SvcNames, a \in Accounts : CreateYamlService(s, a)
        \/ UNCHANGED clusterVars
    BY <1>2, <1>6 DEF CreateSvc
  <1>9. ClusterTypeOK' /\ leased \subseteq leased'
    BY <1>7, <1>8, ClusterCalls DEF StoresOK
  <1>10. StoresOK'
    BY <1>9, ProvenanceStays DEF CreateSvc
  <1>11. CASE r.i < Len(Svcs[r.yaml]) /\ GotoWith(p, "createSvc", [r EXCEPT !.i = @ + 1])
    <2> DEFINE s == [r EXCEPT !.i = @ + 1]
    <2>1. r.i + 1 \in DOMAIN Svcs[r.yaml]
      BY <1>4, <1>5, <1>11
    <2>2. s \in Request /\ s.i = r.i + 1
      BY <1>5 DEF Request
    <2>3. Fits("createSvc", s)
      BY <1>3, <2>1 DEF Fits, Request
    <2>4. Grounded("createSvc", s)'
      BY <1>3 DEF Grounded, Account, Request
    <2>5. "createSvc" \in Busy
      BY DEF Busy, Labels, Calls
    <2> HIDE DEF s
    <2> QED
      BY <1>9, <1>10, <1>11, <2>2, <2>3, <2>4, <2>5, Moves DEF s
  <1>12. CASE GotoWith(p, "createNp", [r EXCEPT !.i = 1])
    <2> DEFINE s == [r EXCEPT !.i = 1]
    <2>1. s \in Request
      BY DEF Request
    <2>2. Fits("createNp", s)
      BY <1>3 DEF Fits, Request, DeployLabels
    <2>3. Grounded("createNp", s)'
      BY <1>3 DEF Grounded, Account, Request
    <2>4. "createNp" \in Busy
      BY DEF Busy, Labels, Calls
    <2> HIDE DEF s
    <2> QED
      BY <1>9, <1>10, <1>12, <2>1, <2>2, <2>3, <2>4, Moves DEF s
  <1> QED
    BY <1>2, <1>10, <1>11, <1>12 DEF CreateSvc

LEMMA CreateNpStep ==
    ASSUME StoresOK, ProcsOK, NEW p \in Procs, CreateNp(p)
    PROVE  StoresOK' /\ ProcsOK'
  <1>1. pc[p] \in DeployLabels /\ pc[p] # "idle" /\ pc[p] = "createNp"
    BY DEF CreateNp, DeployLabels
  <1>2. PICK r \in Request : r = req[p]
    BY <1>1, BusyFacts
  <1>3. Fits("createNp", r) /\ Grounded("createNp", r)
    BY <1>1, <1>2, BusyFacts
  <1>4. r.yaml \in Yamls /\ Deps[r.yaml] # <<>> /\ r.kind \in Deploying
    BY <1>3 DEF Fits, DeployLabels
  <1>5. 1 \in DOMAIN Deps[r.yaml] /\ Dep(r, 1) \in DepName
    BY <1>4, FirstDep
  <1>6. \/ \E port \in Ports : CreateNodePortService(Dep(r, 1), port)
        \/ UNCHANGED clusterVars
    BY <1>2 DEF CreateNp
  <1>7. ClusterTypeOK' /\ leased \subseteq leased'
    BY <1>5, <1>6, ClusterCalls DEF StoresOK
  <1>8. StoresOK'
    BY <1>7, ProvenanceStays DEF CreateNp
  <1>9. CASE CleanUp(p)
    BY <1>1, <1>7, <1>8, <1>9, CleansUp
  <1>10. CASE \E port \in Ports :
                /\ CreateNodePortService(Dep(r, 1), port)
                /\ GotoWith(p, "waitReady", [r EXCEPT !.port = port])
    <2>1. PICK port \in Ports :
                /\ CreateNodePortService(Dep(r, 1), port)
                /\ GotoWith(p, "waitReady", [r EXCEPT !.port = port])
      BY <1>10
    <2> DEFINE s == [r EXCEPT !.port = port]
    <2>2. s \in Request /\ s.port = port
      BY DEF Request
    <2>3. <<Dep(r, 1), port>> \in leased'
      BY <2>1 DEF CreateNodePortService
    <2>4. Dep(s, 1) = Dep(r, 1)
      BY DEF Dep, Account, Request
    <2>5. r.i = 1
      BY <1>3 DEF Fits
    <2>6. Fits("waitReady", s)
      BY <1>3, <1>5, <2>5 DEF Fits, Request, DeployLabels
    <2>7. Grounded("waitReady", s)'
      BY <1>3, <2>2, <2>3, <2>4 DEF Grounded, Account, Dep, Request
    <2>8. "waitReady" \in Busy
      BY DEF Busy, Labels, Calls
    <2> HIDE DEF s
    <2> QED
      BY <1>7, <1>8, <2>1, <2>2, <2>6, <2>7, <2>8, Moves DEF s
  <1> QED
    BY <1>2, <1>8, <1>9, <1>10 DEF CreateNp

LEMMA WaitReadyStep ==
    ASSUME StoresOK, ProcsOK, NEW p \in Procs, WaitReady(p)
    PROVE  StoresOK' /\ ProcsOK'
  <1>1. pc[p] \in DeployLabels /\ pc[p] # "idle" /\ pc[p] = "waitReady"
    BY DEF WaitReady, DeployLabels
  <1>2. PICK r \in Request : r = req[p]
    BY <1>1, BusyFacts
  <1>3. Fits("waitReady", r) /\ Grounded("waitReady", r)
    BY <1>1, <1>2, BusyFacts
  <1>4. StoresOK' /\ leased \subseteq leased'
    BY ProvenanceStays, ClusterIdle DEF StoresOK, WaitReady
  <1>5. CASE CleanUp(p)
    BY <1>1, <1>4, <1>5, CleansUp
  <1>6. ASSUME NEW l \in {"waitReady", "putEntrance"}, NEW i \in Nat, NEW polls \in Nat,
               l = "waitReady" => i \in DOMAIN Deps[r.yaml],
               GotoWith(p, l, [r EXCEPT !.i = i, !.polls = polls])
        PROVE  ProcsOK'
    <2> DEFINE s == [r EXCEPT !.i = i, !.polls = polls]
    <2>1. s \in Request /\ s.i = i
      BY DEF Request
    <2>2. Fits(l, s)
      BY <1>3, <1>6 DEF Fits, Request, DeployLabels
    <2>3. Dep(s, 1) = Dep(r, 1)
      BY DEF Dep, Account, Request
    <2>4. Grounded(l, s)'
      BY <1>3, <1>4, <1>6, <2>3 DEF Grounded, Account, Dep, Request
    <2>5. l \in Busy
      BY <1>6 DEF Busy, Labels, Calls
    <2> HIDE DEF s
    <2> QED
      BY <1>4, <1>6, <2>1, <2>2, <2>4, <2>5, Moves DEF s
  <1>7. r.yaml \in Yamls /\ r.i \in DOMAIN Deps[r.yaml]
    BY <1>3 DEF Fits, DeployLabels
  <1>8. Deps[r.yaml] \in Seq(Apps) /\ r.i \in Nat /\ r.polls \in Nat
    BY <1>7, GatewayAssumption DEF Request
  <1>9. CASE r.i < Len(Deps[r.yaml])
             /\ GotoWith(p, "waitReady", [r EXCEPT !.i = @ + 1, !.polls = 0])
    <2>1. r.i + 1 \in DOMAIN Deps[r.yaml]
      BY <1>7, <1>8, <1>9
    <2>2. PICK i \in Nat : i = r.i + 1
      BY <1>8
    <2>3. GotoWith(p, "waitReady", [r EXCEPT !.i = i, !.polls = 0])
      BY <1>9, <2>2
    <2>4. ProcsOK'
      BY <1>6, <2>1, <2>2, <2>3
    <2> QED
      BY <1>4, <2>4
  <1>10. CASE GotoWith(p, "putEntrance", [r EXCEPT !.i = 1, !.polls = 0])
    BY <1>4, <1>6, <1>10
  <1>11. CASE GotoWith(p, "waitReady", [r EXCEPT !.polls = @ + 1])
    <2>1. PICK i \in Nat : i = r.i
      BY <1>8
    <2>2. PICK polls \in Nat : polls = r.polls + 1
      BY <1>8
    <2>3. [r EXCEPT !.polls = @ + 1] = [r EXCEPT !.i = i, !.polls = polls]
      BY <2>1, <2>2 DEF Request
    <2>4. GotoWith(p, "waitReady", [r EXCEPT !.i = i, !.polls = polls])
      BY <1>11, <2>3
    <2>5. ProcsOK'
      BY <1>6, <1>7, <2>1, <2>4
    <2> QED
      BY <1>4, <2>5
  <1> QED
    BY <1>2, <1>4, <1>5, <1>9, <1>10, <1>11 DEF WaitReady

LEMMA PutEntranceStep ==
    ASSUME StoresOK, ProcsOK, NEW p \in Procs, PutEntrance(p)
    PROVE  StoresOK' /\ ProcsOK'
  <1>1. pc[p] \in DeployLabels /\ pc[p] # "idle" /\ pc[p] = "putEntrance"
    BY DEF PutEntrance, DeployLabels
  <1>2. PICK r \in Request : r = req[p]
    BY <1>1, BusyFacts
  <1>3. Fits("putEntrance", r) /\ Grounded("putEntrance", r)
    BY <1>1, <1>2, BusyFacts
  <1>4. ClusterTypeOK' /\ leased' = leased
    BY ClusterIdle DEF StoresOK, PutEntrance, clusterVars
  <1>5. r.port \in Ports /\ <<Dep(r, 1), r.port>> \in leased
    BY <1>3 DEF Grounded
  <1>6. Deps[r.yaml][1] \in Apps
    <2>1. r.yaml \in Yamls /\ Deps[r.yaml] # <<>>
      BY <1>3 DEF Fits, DeployLabels
    <2>2. Deps[r.yaml] \in Seq(Apps) /\ 1 \in DOMAIN Deps[r.yaml]
      BY <2>1, GatewayAssumption, FirstDep
    <2> QED
      BY <2>2
  <1>7. LeasedTo(Lower[r.user], r.port)
    BY <1>5, <1>6 DEF LeasedTo, Dep, Account
  <1>8. AppProvenance'
    BY <1>4 DEF StoresOK, AppProvenance, PutEntrance
  <1>9. CASE /\ entrance' = [entrance EXCEPT ![r.user] = r.port]
             /\ Goto(p, IF r.kind = "deployId" THEN "setApp" ELSE "ack")
    <2>1. r.user \in Users
      BY DEF Request
    <2>2. entrance' \in [Users -> Ports \cup {None}]
      BY <1>5, <1>9 DEF StoresOK
    <2>3. EntranceProvenance'
      BY <1>4, <1>7, <1>9, <2>1 DEF StoresOK, EntranceProvenance, LeasedTo
    <2>4. StoresOK'
      BY <1>4, <1>8, <2>2, <2>3 DEF StoresOK, PutEntrance
    <2> DEFINE l == IF r.kind = "deployId" THEN "setApp" ELSE "ack"
    <2>5. l \in Busy /\ l \in {"setApp", "ack"}
      BY DEF Busy, Labels, Calls
    <2>6. Fits(l, r)
      BY <1>3, <2>5 DEF Fits, DeployLabels
    <2>7. req' = req
      BY <1>9 DEF Goto
    <2>8. Grounded(l, req[p])'
      BY <1>2, <1>3, <1>4, <2>5, <2>7 DEF Grounded, Account, Dep
    <2> HIDE DEF l
    <2> QED
      BY <1>1, <1>2, <1>4, <1>9, <2>4, <2>5, <2>6, <2>8, Advances DEF l
  <1>10. CASE CleanUp(p) /\ UNCHANGED entrance
    <2>1. StoresOK'
      BY <1>4, <1>10, ProvenanceStays DEF PutEntrance
    <2> QED
      BY <1>1, <1>4, <1>10, <2>1, CleansUp
  <1> QED
    BY <1>2, <1>9, <1>10 DEF PutEntrance

LEMMA SetAppStep ==
    ASSUME StoresOK, ProcsOK, NEW p \in Procs, SetApp(p)
    PROVE  StoresOK' /\ ProcsOK'
  <1>1. pc[p] \in DeployLabels /\ pc[p] # "idle" /\ pc[p] = "setApp"
    BY DEF SetApp, DeployLabels
  <1>2. PICK r \in Request : r = req[p]
    BY <1>1, BusyFacts
  <1>3. Fits("setApp", r) /\ Grounded("setApp", r)
    BY <1>1, <1>2, BusyFacts
  <1>4. ClusterTypeOK' /\ leased' = leased /\ UNCHANGED <<entrance, crashes>>
    BY ClusterIdle DEF StoresOK, SetApp, clusterVars
  <1>5. r.port \in Ports /\ <<Dep(r, 1), r.port>> \in leased
    BY <1>3 DEF Grounded
  <1>6. Dep(r, 1) \in DepName
    BY <1>3, FirstDep DEF Fits, DeployLabels
  <1>7. r.oid \in OrdersOf[r.user] /\ r.user \in Users /\ r.oid \in Orders
    BY <1>3, GatewayAssumption DEF Fits, Request, WithOrder
  <1>8. EntranceProvenance'
    BY <1>4 DEF StoresOK, EntranceProvenance, LeasedTo
  <1>9. order' = [order EXCEPT ![r.oid].app = Dep(r, 1)] \/ order' = order
    BY <1>2 DEF SetApp
  <1>10. order' \in [Orders -> Order]
    BY <1>6, <1>7, <1>9 DEF StoresOK, Order
  <1>11. ASSUME NEW o \in Orders, order'[o].app # None
         PROVE  /\ \E port \in Ports : <<order'[o].app, port>> \in leased'
                /\ \E u \in Users : o \in OrdersOf[u] /\ Lower[u] = order'[o].app[2]
    <2>1. CASE order'[o].app = order[o].app
      BY <1>4, <1>11, <2>1 DEF StoresOK, AppProvenance
    <2>2. CASE o = r.oid /\ order'[o].app = Dep(r, 1)
      BY <1>4, <1>5, <1>7, <2>2 DEF Dep, Account
    <2> QED
      BY <1>7, <1>9, <2>1, <2>2 DEF StoresOK, Order
  <1>12. StoresOK'
    BY <1>4, <1>8, <1>10, <1>11 DEF StoresOK, AppProvenance
  <1>13. CASE CleanUp(p)
    BY <1>1, <1>4, <1>12, <1>13, CleansUp
  <1>14. CASE Goto(p, "ack")
    <2>1. Fits("ack", r)
      BY <1>3 DEF Fits, DeployLabels
    <2>2. Grounded("ack", req[p])'
      BY <1>2, <1>3, <1>14 DEF Grounded, Goto, Account
    <2>3. "ack" \in Busy
      BY DEF Busy, Labels, Calls
    <2> QED
      BY <1>1, <1>2, <1>4, <1>12, <1>14, <2>1, <2>2, <2>3, Advances
  <1> QED
    BY <1>13, <1>14 DEF SetApp

\* What DelDeploy is called with, if anything, names a Deployment.
LEMMA TargetIsName ==
    ASSUME NEW r \in Request, NEW l \in {"delDep", "delSvc"}, Fits(l, r),
           Target(r) # None
    PROVE  Target(r) \in DepName
  <1>1. CASE r.kind \in Deploying /\ Deps[r.yaml] # <<>>
    BY <1>1, FirstDep DEF Fits, Target, Deploying
  <1>2. CASE r.kind = "clean" /\ r.snap \in Order
    BY <1>2 DEF Target, Order
  <1> QED
    BY <1>1, <1>2 DEF Fits

LEMMA DelDepStep ==
    ASSUME StoresOK, ProcsOK, NEW p \in Procs, DelDep(p)
    PROVE  StoresOK' /\ ProcsOK'
  <1>1. pc[p] # "idle" /\ pc[p] = "delDep"
    BY DEF DelDep
  <1>2. PICK r \in Request : r = req[p]
    BY <1>1, BusyFacts
  <1>3. Fits("delDep", r) /\ Grounded("delDep", r)
    BY <1>1, <1>2, BusyFacts
  <1>4. \/ DeleteDeployment(Target(r)) /\ Target(r) # None
        \/ UNCHANGED clusterVars
    BY <1>2 DEF DelDep, DeleteDeployment, DeploymentExists
  <1>5. ClusterTypeOK' /\ leased \subseteq leased'
    BY <1>3, <1>4, TargetIsName, ClusterCalls, ClusterIdle DEF StoresOK
  <1>6. StoresOK'
    BY <1>5, ProvenanceStays DEF DelDep
  <1>7. \/ Goto(p, "delSvc") /\ Target(r) # None
        \/ Goto(p, Deleted(r))
    BY <1>2 DEF DelDep, DeleteDeployment, DeploymentExists
  <1>8. ASSUME NEW l \in {"delSvc", "ack", "fail"}, Goto(p, l),
               l = "delSvc" => Target(r) # None
        PROVE  ProcsOK'
    <2>1. Fits(l, r)
      BY <1>3, <1>8 DEF Fits, Target, DeployLabels
    <2>2. Grounded(l, req[p])'
      BY <1>2, <1>3, <1>8 DEF Grounded, Goto, Account
    <2>3. l \in Busy
      BY <1>8 DEF Busy, Labels, Calls
    <2> QED
      BY <1>1, <1>2, <1>5, <1>8, <2>1, <2>2, <2>3, Advances
  <1>9. Deleted(r) \in {"ack", "fail"}
    BY DEF Deleted
  <1> QED
    BY <1>6, <1>7, <1>8, <1>9

LEMMA DelSvcStep ==
    ASSUME StoresOK, ProcsOK, NEW p \in Procs, DelSvc(p)
    PROVE  StoresOK' /\ ProcsOK'
  <1>1. pc[p] # "idle" /\ pc[p] = "delSvc"
    BY DEF DelSvc
  <1>2. PICK r \in Request : r = req[p]
    BY <1>1, BusyFacts
  <1>3. Fits("delSvc", r) /\ Grounded("delSvc", r)
    BY <1>1, <1>2, BusyFacts
  <1>4. \/ DeleteService(Target(r)) /\ Target(r) # None
        \/ UNCHANGED clusterVars
    BY <1>2 DEF DelSvc, DeleteService, ServiceExists
  <1>5. ClusterTypeOK' /\ leased \subseteq leased'
    BY <1>3, <1>4, TargetIsName, ClusterCalls, ClusterIdle DEF StoresOK
  <1>6. StoresOK'
    BY <1>5, ProvenanceStays DEF DelSvc
  <1> DEFINE l == Deleted(r)
  <1>7. Goto(p, l)
    BY <1>2 DEF DelSvc
  <1>8. l \in {"ack", "fail"}
    BY DEF Deleted
  <1>9. Fits(l, r)
    BY <1>3, <1>8 DEF Fits, DeployLabels
  <1>10. Grounded(l, req[p])'
    BY <1>2, <1>3, <1>7, <1>8 DEF Grounded, Goto, Account
  <1>11. l \in Busy
    BY <1>8 DEF Busy, Labels, Calls
  <1> HIDE DEF l
  <1> QED
    BY <1>1, <1>2, <1>5, <1>6, <1>7, <1>9, <1>10, <1>11, Advances

LEMMA GetOrderStep ==
    ASSUME StoresOK, ProcsOK, NEW p \in Procs, GetOrder(p)
    PROVE  StoresOK' /\ ProcsOK'
  <1>1. pc[p] # "idle" /\ pc[p] = "getOrder"
    BY DEF GetOrder
  <1>2. PICK r \in Request : r = req[p]
    BY <1>1, BusyFacts
  <1>3. Fits("getOrder", r) /\ Grounded("getOrder", r)
    BY <1>1, <1>2, BusyFacts
  <1>4. StoresOK' /\ leased \subseteq leased'
    BY ProvenanceStays, ClusterIdle DEF StoresOK, GetOrder
  <1>5. r.oid \in OrdersOf[r.user] /\ r.user \in Users /\ r.oid \in Orders
    BY <1>3, GatewayAssumption DEF Fits, Request
  <1>6. order[r.oid] \in Order
    BY <1>5 DEF StoresOK
  <1>7. order[r.oid].app # None => order[r.oid].app[2] = Account(r)
    BY <1>5, OwnOrders DEF StoresOK, AppProvenance, Account
  <1>8. ASSUME NEW l \in {"fail", "checkSvc"}, Goto(p, l),
               l = "checkSvc" => r.kind = "deployId" /\ Deps[r.yaml] # <<>>
        PROVE  ProcsOK'
    <2>1. Fits(l, r)
      BY <1>3, <1>8 DEF Fits, DeployLabels, Deploying
    <2>2. Grounded(l, req[p])'
      BY <1>2, <1>3, <1>8 DEF Grounded, Goto, Account
    <2>3. l \in Busy
      BY <1>8 DEF Busy, Labels, Calls
    <2> QED
      BY <1>1, <1>2, <1>4, <1>8, <2>1, <2>2, <2>3, Advances
  <1>9. ASSUME NEW l \in {"delDep", "checkOrder"},
               l = "delDep" => r.kind = "clean",
               l = "checkOrder" => r.kind = "compute",
               GotoWith(p, l, [r EXCEPT !.snap = order[r.oid]])
        PROVE  ProcsOK'
    <2>1. PICK s \in Request : s = [r EXCEPT !.snap = order[r.oid]]
      BY <1>6 DEF Request
    <2>2. s.snap = order[r.oid] /\ s.snap \in Order /\ s.user = r.user
      BY <1>6, <2>1 DEF Request
    <2>3. Fits(l, s)
      BY <1>3, <1>9, <2>1, <2>2 DEF Fits, Request, DeployLabels, Deploying
    <2>4. Grounded(l, s)'
      BY <1>7, <1>9, <2>2 DEF Grounded, Account
    <2>5. l \in Busy
      BY <1>9 DEF Busy, Labels, Calls
    <2> QED
      BY <1>4, <1>9, <2>1, <2>3, <2>4, <2>5, Moves
  <1> QED
    BY <1>2, <1>4, <1>8, <1>9 DEF GetOrder, Panics

LEMMA CheckOrderStep ==
    ASSUME StoresOK, ProcsOK, NEW p \in Procs, CheckOrder(p)
    PROVE  StoresOK' /\ ProcsOK'
  <1>1. pc[p] # "idle" /\ pc[p] = "checkOrder"
    BY DEF CheckOrder
  <1>2. PICK r \in Request : r = req[p]
    BY <1>1, BusyFacts
  <1>3. Fits("checkOrder", r) /\ Grounded("checkOrder", r)
    BY <1>1, <1>2, BusyFacts
  <1>4. StoresOK' /\ leased \subseteq leased'
    BY ProvenanceStays, ClusterIdle DEF StoresOK, CheckOrder
  <1>5. PICK l \in {"getEntrance", "fail"} :
            Goto(p, l) /\ (l = "getEntrance" => r.snap.status = 2)
    BY <1>2 DEF CheckOrder
  <1>6. Fits(l, r)
    BY <1>3, <1>5 DEF Fits, DeployLabels
  <1>7. Grounded(l, req[p])'
    BY <1>2, <1>3, <1>5 DEF Grounded, Goto, Account
  <1>8. l \in Busy
    BY DEF Busy, Labels, Calls
  <1> QED
    BY <1>1, <1>2, <1>4, <1>5, <1>6, <1>7, <1>8, Advances

LEMMA GetEntranceStep ==
    ASSUME StoresOK, ProcsOK, NEW p \in Procs, GetEntrance(p)
    PROVE  StoresOK' /\ ProcsOK'
  <1>1. pc[p] # "idle" /\ pc[p] = "getEntrance"
    BY DEF GetEntrance
  <1>2. PICK r \in Request : r = req[p]
    BY <1>1, BusyFacts
  <1>3. Fits("getEntrance", r) /\ Grounded("getEntrance", r)
    BY <1>1, <1>2, BusyFacts
  <1>4. StoresOK' /\ leased \subseteq leased'
    BY ProvenanceStays, ClusterIdle DEF StoresOK, GetEntrance
  <1>5. r.user \in Users
    BY DEF Request
  <1>6. CASE /\ entrance[r.user] # None
             /\ GotoWith(p, "forward", [r EXCEPT !.port = entrance[r.user]])
    <2>1. entrance[r.user] \in Ports /\ LeasedTo(Account(r), entrance[r.user])
      BY <1>5, <1>6 DEF StoresOK, EntranceProvenance, Account
    <2>2. PICK s \in Request : s = [r EXCEPT !.port = entrance[r.user]]
      BY <2>1 DEF Request
    <2>3. s.port = entrance[r.user] /\ s.user = r.user /\ s.snap = r.snap
      BY <2>2 DEF Request
    <2>4. Fits("forward", s)
      BY <1>3, <2>2 DEF Fits, Request, DeployLabels
    <2>5. Grounded("forward", s)'
      BY <1>3, <1>4, <2>1, <2>3 DEF Grounded, LeasedTo, Account
    <2>6. "forward" \in Busy
      BY DEF Busy, Labels, Calls
    <2> QED
      BY <1>4, <1>6, <2>2, <2>4, <2>5, <2>6, Moves
  <1>7. CASE Goto(p, "fail")
    <2>1. Fits("fail", r)
      BY <1>3 DEF Fits, DeployLabels
    <2>2. Grounded("fail", req[p])'
      BY <1>2, <1>3, <1>7 DEF Grounded, Goto, Account
    <2>3. "fail" \in Busy
      BY DEF Busy, Labels, Calls
    <2> QED
      BY <1>1, <1>2, <1>4, <1>7, <2>1, <2>2, <2>3, Advances
  <1> QED
    BY <1>2, <1>6, <1>7 DEF GetEntrance

LEMMA ForwardStep ==
    ASSUME StoresOK, ProcsOK, NEW p \in Procs, Forward(p)
    PROVE  StoresOK' /\ ProcsOK'
  <1>1. pc[p] # "idle" /\ pc[p] = "forward" /\ Goto(p, "ack")
    BY DEF Forward
  <1>2. PICK r \in Request : r = req[p]
    BY <1>1, BusyFacts
  <1>3. Fits("forward", r) /\ Grounded("forward", r)
    BY <1>1, <1>2, BusyFacts
  <1>4. StoresOK' /\ leased \subseteq leased'
    BY ProvenanceStays, ClusterIdle DEF StoresOK, Forward
  <1>5. Fits("ack", r)
    BY <1>3 DEF Fits, DeployLabels
  <1>6. Grounded("ack", req[p])'
    BY <1>1, <1>2, <1>3 DEF Grounded, Goto, Account
  <1>7. "ack" \in Busy
    BY DEF Busy, Labels, Calls
  <1> QED
    BY <1>1, <1>2, <1>4, <1>5, <1>6, <1>7, Advances

LEMMA ContainersStartStep ==
    ASSUME StoresOK, ProcsOK, ContainersStart
    PROVE  StoresOK' /\ ProcsOK'
  <1>1. PICK d \in DepName : BecomeAvailable(d)
    BY DEF ContainersStart
  <1>2. UNCHANGED <<entrance, order, pc, req, crashes>>
    BY DEF ContainersStart, gatewayVars
  <1>3. ClusterTypeOK' /\ leased' = leased
    BY <1>1, ClusterCalls DEF StoresOK, BecomeAvailable
  <1>4. StoresOK'
    BY <1>2, <1>3, ProvenanceStays
  <1>5. ProcsOK'
    BY <1>2, <1>3 DEF ProcsOK, Grounding, Grounded, LeasedTo, Dep, Account
  <1> QED
    BY <1>4, <1>5

LEMMA MarketMovesStep ==
    ASSUME StoresOK, ProcsOK, NEW o \in Orders, MarketMoves(o)
    PROVE  StoresOK' /\ ProcsOK'
  <1>1. PICK s \in Statuses : order' = [order EXCEPT ![o].status = s]
    BY DEF MarketMoves
  <1>2. s \in 0..4
    BY GatewayAssumption
  <1>3. UNCHANGED clusterVars /\ UNCHANGED <<entrance, pc, req, crashes>>
    BY DEF MarketMoves
  <1>4. ClusterTypeOK' /\ leased' = leased
    BY <1>3, ClusterIdle DEF StoresOK, clusterVars
  <1>5. order' \in [Orders -> Order]
    BY <1>1, <1>2 DEF StoresOK, Order
  <1>6. \A x \in Orders : order'[x].app = order[x].app
    BY <1>1 DEF StoresOK, Order
  <1>7. EntranceProvenance'
    BY <1>3, <1>4 DEF StoresOK, EntranceProvenance, LeasedTo
  <1>8. AppProvenance'
    BY <1>4, <1>6 DEF StoresOK, AppProvenance
  <1>9. StoresOK'
    BY <1>3, <1>4, <1>5, <1>7, <1>8 DEF StoresOK
  <1>10. ProcsOK'
    BY <1>3, <1>4 DEF ProcsOK, Grounding, Grounded, LeasedTo, Dep, Account
  <1> QED
    BY <1>9, <1>10

LEMMA StutterStep ==
    ASSUME StoresOK, ProcsOK, UNCHANGED vars
    PROVE  StoresOK' /\ ProcsOK'
  <1>1. /\ UNCHANGED clusterVars
        /\ UNCHANGED <<entrance, order, pc, req, crashes>>
    BY DEF vars, clusterVars
  <1>2. ClusterTypeOK' /\ leased' = leased
    BY <1>1, ClusterIdle DEF StoresOK, clusterVars
  <1>3. StoresOK'
    BY <1>1, <1>2, ProvenanceStays
  <1>4. ProcsOK'
    BY <1>1, <1>2 DEF ProcsOK, Grounding, Grounded, LeasedTo, Dep, Account
  <1> QED
    BY <1>3, <1>4

-----------------------------------------------------------------------------
(* The invariant is inductive. *)

LEMMA InitOK == Init => IInv
  <1> SUFFICES ASSUME Init PROVE StoresOK /\ ProcsOK
    BY Halves
  <1>1. ClusterTypeOK
    BY DEF Init, ClusterInit, ClusterTypeOK
  <1>2. order \in [Orders -> Order] /\ \A o \in Orders : order[o].app = None
    BY GatewayAssumption DEF Init, Order
  <1>3. StoresOK
    BY <1>1, <1>2 DEF Init, StoresOK, EntranceProvenance, AppProvenance
  <1>4. ProcsOK
    BY DEF Init, ProcsOK, Grounding, Labels
  <1> QED
    BY <1>3, <1>4

LEMMA NextOK ==
    ASSUME StoresOK, ProcsOK, [Next]_vars
    PROVE  StoresOK' /\ ProcsOK'
  <1>1. CASE UNCHANGED vars
    BY <1>1, StutterStep
  <1>2. CASE Crash
    BY <1>2, CrashStep
  <1>3. CASE ContainersStart
    BY <1>3, ContainersStartStep
  <1>4. ASSUME NEW o \in Orders, MarketMoves(o)
        PROVE  StoresOK' /\ ProcsOK'
    BY <1>4, MarketMovesStep
  <1>5. ASSUME NEW p \in Procs, NEW u \in Users, Receive(p, u)
        PROVE  StoresOK' /\ ProcsOK'
    BY <1>5, ReceiveStep
  <1>6. ASSUME NEW p \in Procs, Serve(p)
        PROVE  StoresOK' /\ ProcsOK'
    BY <1>6, CheckSvcStep, CreateDepStep, CreateSvcStep, CreateNpStep, WaitReadyStep,
       PutEntranceStep, SetAppStep, DelDepStep, DelSvcStep, GetOrderStep,
       CheckOrderStep, GetEntranceStep, ForwardStep, AnswerStep DEF Serve
  <1> QED
    BY <1>1, <1>2, <1>3, <1>4, <1>5, <1>6 DEF Next

\* In every reachable state IInv holds.
LEMMA Invariance == Spec => []IInv
  <1>1. IInv /\ [Next]_vars => IInv'
    <2> SUFFICES ASSUME IInv, [Next]_vars PROVE IInv'
      OBVIOUS
    <2>1. StoresOK /\ ProcsOK
      BY Halves
    <2>2. StoresOK' /\ ProcsOK'
      BY <2>1, NextOK
    <2> QED
      BY <2>2 DEF IInv, StoresOK, ProcsOK, TypeOK
  <1> QED
    BY <1>1, InitOK, PTL DEF Spec

-----------------------------------------------------------------------------
(* The theorems. *)

\* Every variable keeps its type, whatever the number of concurrent requests, the
\* yamls deployed, the calls that fail and the kills of the daemon.
THEOREM TypeCorrect == Spec => []TypeOK
  BY Invariance, PTL DEF IInv

\* No interleaving separates the call a handler is about to make from the request
\* data and the leases that call relies on.
THEOREM GroundingHolds == Spec => []Grounding
  BY Invariance, PTL DEF IInv

\* The database never holds a port that the cluster did not give to the account.
THEOREM EntranceProvenanceHolds == Spec => []EntranceProvenance
  BY Invariance, PTL DEF IInv

\* An order only ever names an app that its account brought up behind a node port.
THEOREM AppProvenanceHolds == Spec => []AppProvenance
  BY Invariance, PTL DEF IInv

\* handlerCompute forwards only with an active order and only to a port that was
\* leased to the account in the cookie.
THEOREM ForwardProvenanceHolds == Spec => []ForwardProvenance
  <1>1. IInv => ForwardProvenance
    <2> SUFFICES ASSUME IInv, NEW p \in Procs, pc[p] = "forward"
                 PROVE  /\ LeasedTo(Account(req[p]), req[p].port)
                        /\ req[p].snap.status = 2
      BY DEF ForwardProvenance
    <2>1. Fits("forward", req[p]) /\ Grounded("forward", req[p])
      BY DEF IInv, Grounding
    <2> QED
      BY <2>1 DEF Fits, Grounded
  <1> QED
    BY <1>1, Invariance, PTL

-----------------------------------------------------------------------------
(* Isolation of the accounts: an action property. *)

\* The name a delete is called with carries the account of the request.
LEMMA TargetIsOwn ==
    ASSUME NEW r \in Request, NEW l \in {"delDep", "delSvc"}, Fits(l, r), Grounded(l, r),
           Target(r) # None
    PROVE  Target(r)[2] = Account(r)
  <1>1. CASE r.kind = "clean"
    <2>1. Target(r) = r.snap.app
      BY <1>1 DEF Target
    <2>2. r.snap \in Order
      BY <1>1 DEF Fits, Deploying
    <2>3. r.snap # None
      BY <2>2, NoneIsNoRecord
    <2> QED
      BY <2>1, <2>3 DEF Grounded
  <1>2. CASE r.kind # "clean"
    BY <1>2 DEF Target, Dep
  <1> QED
    BY <1>1, <1>2

\* A step that leaves the Deployments and the services alone, or only adds
\* Deployments and starts them, touches no app.
LEMMA Untouched ==
    ASSUME StoresOK, npSvc' = npSvc,
           \/ deployment' = deployment
           \/ \E d \in DepName, s \in {"progressing", "available"} :
                deployment' = [deployment EXCEPT ![d] = s]
    PROVE  Isolated
  BY DEF Isolated, Touched, StoresOK, ClusterTypeOK

\* Only DelDep, DelSvc and CreateNp touch an app, and the name is their own.
LEMMA TouchesOwn ==
    ASSUME StoresOK, ProcsOK, NEW p \in Procs, NEW d \in DepName,
           pc[p] \in {"createNp", "delDep", "delSvc"}, pc'[p] # pc[p],
           d[2] = Account(req[p]),
           \A e \in DepName \ {d} : deployment'[e] = deployment[e] /\ npSvc'[e] = npSvc[e]
    PROVE  Isolated
  BY DEF Isolated, Touched

LEMMA CreateNpIsolates ==
    ASSUME StoresOK, ProcsOK, NEW p \in Procs, CreateNp(p)
    PROVE  Isolated
  <1>1. pc[p] # "idle" /\ pc[p] = "createNp"
    BY DEF CreateNp
  <1>2. PICK r \in Request : r = req[p]
    BY <1>1, BusyFacts
  <1>3. Fits("createNp", r)
    BY <1>1, <1>2, BusyFacts
  <1>4. r.yaml \in Yamls /\ Deps[r.yaml] # <<>>
    BY <1>3 DEF Fits, DeployLabels
  <1>5. Dep(r, 1) \in DepName
    BY <1>4, FirstDep
  <1>6. CASE UNCHANGED clusterVars
    BY <1>6, Untouched DEF clusterVars
  <1>7. CASE \E port \in Ports : CreateNodePortService(Dep(r, 1), port)
    <2>1. pc'[p] # pc[p]
      BY <1>1 DEF CreateNp, CleanUp, Goto, GotoWith, ProcsOK
    <2>2. Dep(r, 1)[2] = Account(req[p])
      BY <1>2 DEF Dep
    <2>3. \A e \in DepName \ {Dep(r, 1)} :
            deployment'[e] = deployment[e] /\ npSvc'[e] = npSvc[e]
      BY <1>7 DEF CreateNodePortService, StoresOK, ClusterTypeOK
    <2> QED
      BY <1>1, <1>5, <2>1, <2>2, <2>3, TouchesOwn
  <1> QED
    BY <1>2, <1>6, <1>7 DEF CreateNp

LEMMA DelDepIsolates ==
    ASSUME StoresOK, ProcsOK, NEW p \in Procs, DelDep(p)
    PROVE  Isolated
  <1>1. pc[p] # "idle" /\ pc[p] = "delDep"
    BY DEF DelDep
  <1>2. PICK r \in Request : r = req[p]
    BY <1>1, BusyFacts
  <1>3. Fits("delDep", r) /\ Grounded("delDep", r)
    BY <1>1, <1>2, BusyFacts
  <1>4. CASE UNCHANGED clusterVars
    BY <1>4, Untouched DEF clusterVars
  <1>5. CASE DeleteDeployment(Target(r))
    <2>1. pc'[p] # pc[p]
      BY <1>1 DEF DelDep, Deleted, Goto, ProcsOK
    <2>2. Target(r) # None
      BY <1>5 DEF DeleteDeployment, DeploymentExists
    <2>3. Target(r) \in DepName
      BY <1>3, <2>2, TargetIsName
    <2>4. Target(r)[2] = Account(req[p])
      BY <1>2, <1>3, <2>2, TargetIsOwn
    <2>5. \A e \in DepName \ {Target(r)} :
            deployment'[e] = deployment[e] /\ npSvc'[e] = npSvc[e]
      BY <1>5 DEF DeleteDeployment, StoresOK, ClusterTypeOK
    <2> QED
      BY <1>1, <2>1, <2>3, <2>4, <2>5, TouchesOwn
  <1> QED
    BY <1>2, <1>4, <1>5 DEF DelDep

LEMMA DelSvcIsolates ==
    ASSUME StoresOK, ProcsOK, NEW p \in Procs, DelSvc(p)
    PROVE  Isolated
  <1>1. pc[p] # "idle" /\ pc[p] = "delSvc"
    BY DEF DelSvc
  <1>2. PICK r \in Request : r = req[p]
    BY <1>1, BusyFacts
  <1>3. Fits("delSvc", r) /\ Grounded("delSvc", r)
    BY <1>1, <1>2, BusyFacts
  <1>4. CASE UNCHANGED clusterVars
    BY <1>4, Untouched DEF clusterVars
  <1>5. CASE DeleteService(Target(r))
    <2>1. pc'[p] # pc[p]
      BY <1>1 DEF DelSvc, Deleted, Goto, ProcsOK
    <2>2. Target(r) # None
      BY <1>5 DEF DeleteService, ServiceExists
    <2>3. Target(r) \in DepName
      BY <1>3, <2>2, TargetIsName
    <2>4. Target(r)[2] = Account(req[p])
      BY <1>2, <1>3, <2>2, TargetIsOwn
    <2>5. \A e \in DepName \ {Target(r)} :
            deployment'[e] = deployment[e] /\ npSvc'[e] = npSvc[e]
      BY <1>5 DEF DeleteService, StoresOK, ClusterTypeOK
    <2> QED
      BY <1>1, <2>1, <2>3, <2>4, <2>5, TouchesOwn
  <1> QED
    BY <1>2, <1>4, <1>5 DEF DelSvc

LEMMA CreateDepIsolates ==
    ASSUME StoresOK, ProcsOK, NEW p \in Procs, CreateDep(p)
    PROVE  Isolated
  <1>1. pc[p] # "idle" /\ pc[p] = "createDep"
    BY DEF CreateDep
  <1>2. PICK r \in Request : r = req[p]
    BY <1>1, BusyFacts
  <1>3. r.yaml \in Yamls /\ r.i \in DOMAIN Deps[r.yaml]
    BY <1>1, <1>2, BusyFacts DEF Fits, DeployLabels
  <1>4. Dep(r, r.i) \in DepName
    BY <1>3, DepIsName
  <1>5. CASE CreateDeployment(Dep(r, r.i))
    BY <1>4, <1>5, Untouched DEF CreateDeployment
  <1>6. CASE UNCHANGED clusterVars
    BY <1>6, Untouched DEF clusterVars
  <1> QED
    BY <1>2, <1>5, <1>6 DEF CreateDep

\* Every step isolates the accounts.
LEMMA StepsIsolate ==
    ASSUME StoresOK, ProcsOK, Next
    PROVE  Isolated
  <1>1. CASE UNCHANGED <<deployment, npSvc>>
    BY <1>1, Untouched
  <1>2. CASE ContainersStart
    <2>1. PICK d \in DepName : BecomeAvailable(d)
      BY <1>2 DEF ContainersStart
    <2> QED
      BY <2>1, Untouched DEF BecomeAvailable
  <1>3. ASSUME NEW p \in Procs, CreateDep(p) \/ CreateNp(p) \/ DelDep(p) \/ DelSvc(p)
        PROVE  Isolated
    BY <1>3, CreateDepIsolates, CreateNpIsolates, DelDepIsolates, DelSvcIsolates
  <1>4. ASSUME NEW p \in Procs, CreateSvc(p)
        PROVE  UNCHANGED <<deployment, npSvc>>
    BY <1>4 DEF CreateSvc, CreateYamlService, clusterVars
  <1>5. ASSUME NEW p \in Procs,
               \/ CheckSvc(p) \/ WaitReady(p) \/ PutEntrance(p) \/ SetApp(p)
               \/ GetOrder(p) \/ CheckOrder(p) \/ GetEntrance(p) \/ Forward(p)
               \/ Answer(p)
        PROVE  UNCHANGED <<deployment, npSvc>>
    BY <1>5 DEF CheckSvc, WaitReady, PutEntrance, SetApp, GetOrder, CheckOrder,
       GetEntrance, Forward, Answer, clusterVars
  <1>6. ASSUME NEW p \in Procs, NEW u \in Users, Receive(p, u)
        PROVE  UNCHANGED <<deployment, npSvc>>
    BY <1>6 DEF Receive, Submit, clusterVars
  <1>7. ASSUME Crash \/ \E o \in Orders : MarketMoves(o)
        PROVE  UNCHANGED <<deployment, npSvc>>
    BY <1>7 DEF Crash, MarketMoves, clusterVars
  <1> QED
    BY <1>1, <1>2, <1>3, <1>4, <1>5, <1>6, <1>7 DEF Next, Serve

\* No request, whatever fails in it and whatever runs beside it, deletes the app of
\* another account or gives or takes its service.
THEOREM AccountIsolationHolds == Spec => AccountIsolation
  <1>1. IInv /\ [Next]_vars => [Isolated]_vars
    BY Halves, StepsIsolate
  <1> QED
    BY <1>1, Invariance, PTL DEF Spec, AccountIsolation

-----------------------------------------------------------------------------
(* Calls run out. *)

\* The polls of the Deployment that is waited for have not run out.
PollsCounted == \A p \in Procs : pc[p] # "idle" => req[p].polls < MaxPolls

\* A step takes process p to a label and a request that have fewer calls left.
Spends(p) ==
    \E l \in Labels, r \in Request \cup {None} :
        /\ GotoWith(p, l, r)
        /\ l # "idle" => r \in Request /\ r.polls < MaxPolls
        /\ CallsLeft(l, r) \in 0..(CallsLeft(pc[p], req[p]) - 1)

\* How long a yaml keeps a request busy is a number.
LEMMA Sizes ==
    ASSUME NEW y \in Yamls
    PROVE  /\ Len(Deps[y]) \in Nat /\ DOMAIN Deps[y] = 1..Len(Deps[y])
           /\ Len(Svcs[y]) \in Nat /\ DOMAIN Svcs[y] = 1..Len(Svcs[y])
           /\ Len(Deps[y]) * MaxPolls \in Nat
           /\ MaxPolls \in Nat /\ 0 < MaxPolls
  <1>1. Deps[y] \in Seq(Apps) /\ Svcs[y] \in Seq(SvcNames)
    BY GatewayAssumption
  <1>2. MaxPolls \in Nat /\ 0 < MaxPolls
    BY GatewayAssumption
  <1>3. \A n \in Nat : n * MaxPolls \in Nat
    BY <1>2
  <1> QED
    BY <1>1, <1>2, <1>3

\* The polls of what is left of n Deployments after the first i.
LEMMA Polls ==
    ASSUME NEW n \in Nat, NEW i \in 1..n, NEW m \in Nat
    PROVE  /\ (n - i) * m \in Nat
           /\ i < n => (n - i) * m = (n - (i + 1)) * m + m
           /\ i = 1 => (n - i) * m + m = n * m
  <1>1. \A k, j \in Nat : k * j \in Nat
    OBVIOUS
  <1>2. n - i \in Nat
    OBVIOUS
  <1>3. \A k \in Nat : (k + 1) * m = k * m + m
    OBVIOUS
  <1>4. (n - i) * m \in Nat
    BY <1>1, <1>2
  <1>5. i < n => (n - i) * m = (n - (i + 1)) * m + m
    <2>1. i < n => n - (i + 1) \in Nat /\ n - i = (n - (i + 1)) + 1
      OBVIOUS
    <2> QED
      BY <1>3, <2>1
  <1>6. i = 1 => (n - i) * m + m = n * m
    <2>1. n - 1 \in Nat /\ n = (n - 1) + 1
      OBVIOUS
    <2> QED
      BY <1>3, <2>1
  <1> QED
    BY <1>4, <1>5, <1>6

\* What is left at each label.
LEMMA LeftAt ==
    ASSUME NEW r
    PROVE  /\ CallsLeft("idle", r) = 0
           /\ \A l \in {"ack", "fail"} : CallsLeft(l, r) = 1
           /\ \A l \in {"delSvc", "forward"} : CallsLeft(l, r) = 2
           /\ \A l \in {"delDep", "getEntrance"} : CallsLeft(l, r) = 3
           /\ \A l \in {"setApp", "checkOrder"} : CallsLeft(l, r) = 4
           /\ CallsLeft("putEntrance", r) = 5
           /\ r.kind # "deployId" => CallsLeft("getOrder", r) = 5
  BY DEF CallsLeft

\* The same for a deploy of n Deployments and t Services, with k polls at most.
DeployLeft(r, n, t, k) ==
    /\ CallsLeft("waitReady", r) = 5 + (n - r.i) * MaxPolls + MaxPolls - r.polls
    /\ CallsLeft("createNp", r) = 6 + k
    /\ CallsLeft("createSvc", r) = 7 + k + t - r.i
    /\ CallsLeft("createDep", r) = 7 + k + t + n - r.i
    /\ CallsLeft("checkSvc", r) = 7 + k + t + n
    /\ r.kind = "deployId" => CallsLeft("getOrder", r) = 8 + k + t + n

Sized(r, n, t, k) ==
    /\ r.yaml \in Yamls /\ n = Len(Deps[r.yaml]) /\ t = Len(Svcs[r.yaml]) /\ k = n * MaxPolls
    /\ DOMAIN Deps[r.yaml] = 1..n /\ DOMAIN Svcs[r.yaml] = 1..t

LEMMA LeftOfDeploy ==
    ASSUME NEW r, NEW n, NEW t, NEW k, Sized(r, n, t, k)
    PROVE  DeployLeft(r, n, t, k)
  BY DEF CallsLeft, DeployLeft, Sized

LEMMA HasSize ==
    ASSUME NEW r, r.yaml \in Yamls
    PROVE  \E n \in Nat, t \in Nat, k \in Nat : Sized(r, n, t, k)
  BY Sizes DEF Sized

LEMMA MaxPollsIsNat == MaxPolls \in Nat /\ 0 < MaxPolls
  BY GatewayAssumption

\* What a call needs to spend: where a step ends, whether or not it changes the request.
LEMMA Spending ==
    ASSUME ProcsOK, NEW p \in Procs, NEW l \in Labels, NEW r \in Request,
           GotoWith(p, l, r), r.polls < MaxPolls,
           CallsLeft(l, r) \in 0..(CallsLeft(pc[p], req[p]) - 1)
    PROVE  Spends(p)
  BY DEF Spends

LEMMA SpendingAsIs ==
    ASSUME ProcsOK, PollsCounted, NEW p \in Procs, pc[p] # "idle", NEW l \in Labels, Goto(p, l),
           CallsLeft(l, req[p]) \in 0..(CallsLeft(pc[p], req[p]) - 1)
    PROVE  Spends(p)
  <1>1. PICK r \in Request : r = req[p]
    BY BusyFacts
  <1>2. req' = [req EXCEPT ![p] = r]
    BY <1>1 DEF Goto, ProcsOK
  <1>3. GotoWith(p, l, r) /\ r.polls < MaxPolls
    BY <1>1, <1>2 DEF Goto, GotoWith, PollsCounted
  <1> QED
    BY <1>1, <1>3, Spending

\* What a deploy knows of its sizes.
LEMMA DeploySizes ==
    ASSUME ProcsOK, PollsCounted, NEW p \in Procs, pc[p] \in DeployLabels
    PROVE  /\ pc[p] # "idle"
           /\ \E r \in Request, n \in Nat, t \in Nat, k \in Nat :
                /\ r = req[p] /\ r.i \in Nat /\ r.polls \in 0..(MaxPolls - 1) /\ 0 < n
                /\ Sized(r, n, t, k) /\ Fits(pc[p], r)
  <1>1. pc[p] # "idle"
    BY DEF DeployLabels
  <1>2. PICK r \in Request : r = req[p]
    BY <1>1, BusyFacts
  <1>3. Fits(pc[p], r) /\ r.polls < MaxPolls
    BY <1>1, <1>2, BusyFacts DEF PollsCounted
  <1>4. r.yaml \in Yamls /\ Deps[r.yaml] # <<>>
    BY <1>3 DEF Fits
  <1>5. PICK n \in Nat, t \in Nat, k \in Nat : Sized(r, n, t, k)
    BY <1>4, HasSize
  <1>6. 0 < n
    BY <1>4, <1>5, FirstDep DEF Sized
  <1>7. r.i \in Nat /\ r.polls \in 0..(MaxPolls - 1)
    BY <1>3, MaxPollsIsNat DEF Request
  <1> QED
    BY <1>1, <1>2, <1>3, <1>5, <1>6, <1>7

\* A deploy has more left than its cleanup takes.
LEMMA DeployHasLeft ==
    ASSUME ProcsOK, PollsCounted, NEW p \in Procs, pc[p] \in DeployLabels
    PROVE  CallsLeft(pc[p], req[p]) \in Nat /\ 3 < CallsLeft(pc[p], req[p])
  <1>1. PICK r \in Request, n \in Nat, t \in Nat, k \in Nat :
             /\ r = req[p] /\ r.i \in Nat /\ r.polls \in 0..(MaxPolls - 1) /\ 0 < n
             /\ Sized(r, n, t, k) /\ Fits(pc[p], r)
    BY DeploySizes
  <1>2. DeployLeft(r, n, t, k)
    BY <1>1, LeftOfDeploy
  <1> SUFFICES CallsLeft(pc[p], r) \in Nat /\ 3 < CallsLeft(pc[p], r)
    BY <1>1
  <1>3. CASE pc[p] \in {"setApp", "putEntrance"}
    BY <1>3, LeftAt
  <1>4. CASE pc[p] \in {"checkSvc", "createNp"}
    BY <1>2, <1>4 DEF DeployLeft
  <1>5. CASE pc[p] = "createDep"
    <2>1. r.i \in 1..n
      BY <1>1, <1>5 DEF Fits, Sized
    <2> QED
      BY <1>2, <1>5, <2>1 DEF DeployLeft
  <1>6. CASE pc[p] = "createSvc"
    <2>1. r.i \in 1..t
      BY <1>1, <1>6 DEF Fits, Sized
    <2> QED
      BY <1>2, <1>6, <2>1 DEF DeployLeft
  <1>7. CASE pc[p] = "waitReady"
    <2>1. r.i \in 1..n
      BY <1>1, <1>7 DEF Fits, Sized
    <2>2. PICK w \in Nat : w = (n - r.i) * MaxPolls
      BY <2>1, Polls, MaxPollsIsNat
    <2> QED
      BY <1>1, <1>2, <1>7, <2>2, MaxPollsIsNat DEF DeployLeft
  <1> QED
    BY <1>3, <1>4, <1>5, <1>6, <1>7 DEF DeployLabels

\* Its cleanup is the two deletes and the answer.
LEMMA CleaningSpends ==
    ASSUME ProcsOK, PollsCounted, NEW p \in Procs, pc[p] \in DeployLabels, CleanUp(p)
    PROVE  Spends(p)
  <1>1. CallsLeft("delDep", req[p]) = 3 /\ "delDep" \in Labels /\ pc[p] # "idle"
    BY LeftAt DEF Labels, Calls, DeployLabels
  <1> QED
    BY <1>1, DeployHasLeft, SpendingAsIs DEF CleanUp

\* The calls that take a request past its deploy, one by one.
LEMMA ShortCallsSpend ==
    ASSUME ProcsOK, PollsCounted, NEW p \in Procs,
           \/ PutEntrance(p) \/ SetApp(p) \/ DelDep(p) \/ DelSvc(p)
           \/ CheckOrder(p) \/ Forward(p)
    PROVE  Spends(p)
  <1>1. CASE CleanUp(p) /\ (PutEntrance(p) \/ SetApp(p))
    <2>1. pc[p] \in DeployLabels
      BY <1>1 DEF PutEntrance, SetApp, DeployLabels
    <2> QED
      BY <1>1, <2>1, CleaningSpends
  <1>2. CASE \E l \in {"setApp", "ack", "delSvc", "fail", "getEntrance"} :
               /\ Goto(p, l) /\ pc[p] # "idle"
               /\ CallsLeft(l, req[p]) \in 0..(CallsLeft(pc[p], req[p]) - 1)
    <2>1. {"setApp", "ack", "delSvc", "fail", "getEntrance"} \subseteq Labels
      BY DEF Labels, Calls
    <2> QED
      BY <1>2, <2>1, SpendingAsIs
  <1>3. CASE PutEntrance(p) /\ ~CleanUp(p)
    BY <1>2, <1>3, LeftAt DEF PutEntrance
  <1>4. CASE SetApp(p) /\ ~CleanUp(p)
    BY <1>2, <1>4, LeftAt DEF SetApp
  <1>5. CASE DelDep(p)
    <2>1. pc[p] = "delDep" /\ \E l \in {"delSvc", "ack", "fail"} : Goto(p, l)
      BY <1>5 DEF DelDep, Deleted
    <2> QED
      BY <1>2, <2>1, LeftAt
  <1>6. CASE DelSvc(p)
    <2>1. pc[p] = "delSvc" /\ \E l \in {"ack", "fail"} : Goto(p, l)
      BY <1>6 DEF DelSvc, Deleted
    <2> QED
      BY <1>2, <2>1, LeftAt
  <1>7. CASE CheckOrder(p)
    <2>1. pc[p] = "checkOrder" /\ \E l \in {"getEntrance", "fail"} : Goto(p, l)
      BY <1>7 DEF CheckOrder
    <2> QED
      BY <1>2, <2>1, LeftAt
  <1>8. CASE Forward(p)
    <2>1. pc[p] = "forward" /\ Goto(p, "ack")
      BY <1>8 DEF Forward
    <2> QED
      BY <1>2, <2>1, LeftAt
  <1> QED
    BY <1>1, <1>3, <1>4, <1>5, <1>6, <1>7, <1>8

LEMMA AnswerSpends ==
    ASSUME ProcsOK, NEW p \in Procs, Answer(p)
    PROVE  Spends(p)
  <1>1. CallsLeft("idle", None) = 0 /\ CallsLeft(pc[p], req[p]) = 1 /\ "idle" \in Labels
    BY LeftAt DEF Answer, Labels
  <1> QED
    BY <1>1 DEF Answer, Spends

LEMMA CheckSvcSpends ==
    ASSUME ProcsOK, PollsCounted, NEW p \in Procs, CheckSvc(p)
    PROVE  Spends(p)
  <1>1. pc[p] = "checkSvc" /\ pc[p] \in DeployLabels
    BY DEF CheckSvc, DeployLabels
  <1>2. PICK r \in Request, n \in Nat, t \in Nat, k \in Nat :
             /\ r = req[p] /\ r.i \in Nat /\ r.polls \in 0..(MaxPolls - 1) /\ 0 < n
             /\ Sized(r, n, t, k) /\ Fits(pc[p], r)
    BY <1>1, DeploySizes
  <1>3. CASE Goto(p, "createDep")
    <2>1. DeployLeft(r, n, t, k) /\ r.i = 1
      BY <1>1, <1>2, LeftOfDeploy DEF Fits
    <2>2. CallsLeft("createDep", r) \in 0..(CallsLeft("checkSvc", r) - 1)
      BY <1>2, <2>1 DEF DeployLeft
    <2>3. "createDep" \in Labels /\ pc[p] # "idle"
      BY <1>1 DEF Labels, Calls
    <2> QED
      BY <1>1, <1>2, <1>3, <2>2, <2>3, SpendingAsIs
  <1> QED
    BY <1>1, <1>3, CleaningSpends DEF CheckSvc

LEMMA GetOrderSpends ==
    ASSUME ProcsOK, PollsCounted, NEW p \in Procs, GetOrder(p), StoresOK
    PROVE  Spends(p)
  <1>1. pc[p] = "getOrder" /\ pc[p] # "idle"
    BY DEF GetOrder
  <1>2. PICK r \in Request : r = req[p]
    BY <1>1, BusyFacts
  <1>3. Fits("getOrder", r) /\ r.polls < MaxPolls
    BY <1>1, <1>2, BusyFacts DEF PollsCounted
  <1>4. {"fail", "checkSvc", "delDep", "checkOrder"} \subseteq Labels
    BY DEF Labels, Calls
  <1>5. CASE r.kind = "deployId"
    <2>1. r.yaml \in Yamls
      BY <1>3, <1>5 DEF Fits, Deploying
    <2>2. PICK n \in Nat, t \in Nat, k \in Nat : Sized(r, n, t, k)
      BY <2>1, HasSize
    <2>3. DeployLeft(r, n, t, k)
      BY <2>2, LeftOfDeploy
    <2>4. \A l \in {"checkSvc", "fail"} : CallsLeft(l, r) \in 0..(CallsLeft("getOrder", r) - 1)
      BY <1>5, <2>3, LeftAt DEF DeployLeft
    <2>5. Goto(p, "checkSvc") \/ Goto(p, "fail")
      BY <1>2, <1>5 DEF GetOrder
    <2> QED
      BY <1>1, <1>2, <1>4, <2>4, <2>5, SpendingAsIs
  <1>6. CASE r.kind # "deployId"
    <2> DEFINE s == [r EXCEPT !.snap = order[r.oid]]
    <2>1. \A x : CallsLeft("fail", x) = 1 /\ CallsLeft("delDep", x) = 3 /\ CallsLeft("checkOrder", x) = 4
      BY LeftAt
    <2>2. CallsLeft("getOrder", r) = 5
      BY <1>6, LeftAt
    <2>3. CASE Goto(p, "fail")
      BY <1>1, <1>2, <1>4, <2>1, <2>2, <2>3, SpendingAsIs
    <2>4. CASE GotoWith(p, "delDep", s) \/ GotoWith(p, "checkOrder", s)
      <3>1. r.kind \in WithOrder /\ r.user \in Users
        BY <1>3 DEF Fits, Request
      <3>2. r.oid \in Orders
        BY <1>3, <3>1, GatewayAssumption DEF Fits
      <3>3. order[r.oid] \in Order
        BY <3>2 DEF StoresOK
      <3>4. s \in Request /\ s.polls = r.polls
        BY <3>3 DEF Request
      <3>5. CallsLeft("delDep", s) = 3 /\ CallsLeft("checkOrder", s) = 4
        BY <2>1
      <3> HIDE DEF s
      <3> QED
        BY <1>1, <1>2, <1>3, <1>4, <2>2, <2>4, <3>4, <3>5, Spending
    <2> QED
      BY <1>2, <1>6, <2>3, <2>4 DEF GetOrder
  <1> QED
    BY <1>5, <1>6

LEMMA GetEntranceSpends ==
    ASSUME ProcsOK, PollsCounted, StoresOK, NEW p \in Procs, GetEntrance(p)
    PROVE  Spends(p)
  <1>1. pc[p] = "getEntrance" /\ pc[p] # "idle"
    BY DEF GetEntrance
  <1>2. PICK r \in Request : r = req[p]
    BY <1>1, BusyFacts
  <1>3. r.polls < MaxPolls /\ r.user \in Users
    BY <1>1, <1>2 DEF PollsCounted, Request
  <1>4. \A x : CallsLeft("fail", x) = 1 /\ CallsLeft("forward", x) = 2
    BY LeftAt
  <1>5. CallsLeft("getEntrance", r) = 3 /\ "fail" \in Labels /\ "forward" \in Labels
    BY LeftAt DEF Labels, Calls
  <1>6. CASE Goto(p, "fail")
    BY <1>1, <1>2, <1>4, <1>5, <1>6, SpendingAsIs
  <1>7. CASE entrance[r.user] # None /\ GotoWith(p, "forward", [r EXCEPT !.port = entrance[r.user]])
    <2>1. PICK e \in Ports : e = entrance[r.user]
      BY <1>3, <1>7 DEF StoresOK
    <2> DEFINE s == [r EXCEPT !.port = e]
    <2>2. s \in Request /\ s.polls = r.polls
      BY DEF Request
    <2>3. CallsLeft("forward", s) = 2 /\ GotoWith(p, "forward", s)
      BY <1>4, <1>7, <2>1
    <2> HIDE DEF s
    <2> QED
      BY <1>1, <1>2, <1>3, <1>5, <2>2, <2>3, Spending
  <1> QED
    BY <1>2, <1>6, <1>7 DEF GetEntrance

\* A request for the same yaml has the same size.
LEMMA SizeStays ==
    ASSUME NEW r, NEW s, NEW n, NEW t, NEW k, Sized(r, n, t, k), s.yaml = r.yaml
    PROVE  DeployLeft(s, n, t, k)
  BY LeftOfDeploy DEF Sized

LEMMA CreateDepSpends ==
    ASSUME ProcsOK, PollsCounted, NEW p \in Procs, CreateDep(p)
    PROVE  Spends(p)
  <1>1. pc[p] = "createDep" /\ pc[p] \in DeployLabels
    BY DEF CreateDep, DeployLabels
  <1>2. PICK r \in Request, n \in Nat, t \in Nat, k \in Nat :
             /\ r = req[p] /\ r.i \in Nat /\ r.polls \in 0..(MaxPolls - 1) /\ 0 < n
             /\ Sized(r, n, t, k) /\ Fits(pc[p], r)
    BY <1>1, DeploySizes
  <1>3. r.i \in 1..n /\ DeployLeft(r, n, t, k)
    BY <1>1, <1>2, LeftOfDeploy DEF Fits, Sized
  <1>4. r.polls < MaxPolls
    BY <1>2, MaxPollsIsNat
  <1>5. PICK before \in Nat : before = 7 + k + t + n - r.i /\ before = CallsLeft(pc[p], r)
    BY <1>1, <1>3 DEF DeployLeft
  <1>6. CASE r.i < n /\ GotoWith(p, "createDep", [r EXCEPT !.i = @ + 1])
    <2>1. PICK i \in Nat : i = r.i + 1
      BY <1>2
    <2>2. PICK s \in Request :
            s = [r EXCEPT !.i = @ + 1] /\ s.i = i /\ s.polls = r.polls /\ s.yaml = r.yaml
      <3> DEFINE x == [r EXCEPT !.i = @ + 1]
      <3>1. x \in Request /\ x.i = i /\ x.polls = r.polls /\ x.yaml = r.yaml
        BY <2>1 DEF Request
      <3> HIDE DEF x
      <3> QED
        BY <3>1 DEF x
    <2>3. DeployLeft(s, n, t, k)
      BY <1>2, <2>2, SizeStays
    <2>4. CallsLeft("createDep", s) = 7 + k + t + n - i
      BY <2>2, <2>3 DEF DeployLeft
    <2>5. CallsLeft("createDep", s) \in 0..(before - 1)
      BY <1>3, <1>5, <1>6, <2>1, <2>4
    <2>6. "createDep" \in Labels
      BY DEF Labels, Calls
    <2> QED
      BY <1>2, <1>5, <1>6, <2>2, <2>5, <2>6, <1>4, MaxPollsIsNat, Spending
  <1>7. CASE GotoWith(p, AfterDeps(r), [r EXCEPT !.i = 1])
    <2> DEFINE l == AfterDeps(r)
    <2>1. PICK s \in Request :
            s = [r EXCEPT !.i = 1] /\ s.i = 1 /\ s.polls = r.polls /\ s.yaml = r.yaml
      <3> DEFINE x == [r EXCEPT !.i = 1]
      <3>1. x \in Request /\ x.i = 1 /\ x.polls = r.polls /\ x.yaml = r.yaml
        BY DEF Request
      <3> HIDE DEF x
      <3> QED
        BY <3>1 DEF x
    <2>2. DeployLeft(s, n, t, k)
      BY <1>2, <2>1, SizeStays
    <2>3. \/ l = "createNp"
          \/ l = "createSvc" /\ 0 < t
      <3>1. Svcs[r.yaml] \in Seq(SvcNames) /\ t = Len(Svcs[r.yaml])
        BY <1>2, GatewayAssumption DEF Sized
      <3> QED
        BY <3>1 DEF AfterDeps
    <2>4. CallsLeft(l, s) \in 0..(before - 1)
      BY <1>3, <1>5, <2>1, <2>2, <2>3 DEF DeployLeft
    <2>5. l \in Labels
      BY <2>3 DEF Labels, Calls
    <2> HIDE DEF l
    <2>6. GotoWith(p, l, s)
      BY <1>7, <2>1 DEF l
    <2> QED
      BY <1>2, <1>5, <2>1, <2>4, <2>5, <2>6, <1>4, MaxPollsIsNat, Spending
  <1>8. n = Len(Deps[r.yaml])
    BY <1>2 DEF Sized
  <1> QED
    BY <1>1, <1>2, <1>6, <1>7, <1>8, CleaningSpends DEF CreateDep

LEMMA CreateSvcSpends ==
    ASSUME ProcsOK, PollsCounted, NEW p \in Procs, CreateSvc(p)
    PROVE  Spends(p)
  <1>1. pc[p] = "createSvc" /\ pc[p] \in DeployLabels
    BY DEF CreateSvc, DeployLabels
  <1>2. PICK r \in Request, n \in Nat, t \in Nat, k \in Nat :
             /\ r = req[p] /\ r.i \in Nat /\ r.polls \in 0..(MaxPolls - 1) /\ 0 < n
             /\ Sized(r, n, t, k) /\ Fits(pc[p], r)
    BY <1>1, DeploySizes
  <1>3. r.i \in 1..t /\ DeployLeft(r, n, t, k)
    BY <1>1, <1>2, LeftOfDeploy DEF Fits, Sized
  <1>4. r.polls < MaxPolls
    BY <1>2, MaxPollsIsNat
  <1>5. PICK before \in Nat : before = 7 + k + t - r.i /\ before = CallsLeft(pc[p], r)
    BY <1>1, <1>3 DEF DeployLeft
  <1>6. ASSUME NEW l \in {"createSvc", "createNp"}, NEW i \in Nat,
               l = "createSvc" => i = r.i + 1 /\ r.i < t,
               GotoWith(p, l, [r EXCEPT !.i = i])
        PROVE  Spends(p)
    <2>1. PICK s \in Request :
            s = [r EXCEPT !.i = i] /\ s.i = i /\ s.polls = r.polls /\ s.yaml = r.yaml
      <3> DEFINE x == [r EXCEPT !.i = i]
      <3>1. x \in Request /\ x.i = i /\ x.polls = r.polls /\ x.yaml = r.yaml
        BY DEF Request
      <3> HIDE DEF x
      <3> QED
        BY <3>1 DEF x
    <2>2. DeployLeft(s, n, t, k)
      BY <1>2, <2>1, SizeStays
    <2>3. CallsLeft(l, s) \in 0..(before - 1)
      BY <1>3, <1>5, <1>6, <2>1, <2>2 DEF DeployLeft
    <2>4. l \in Labels
      BY <1>6 DEF Labels, Calls
    <2>5. GotoWith(p, l, s)
      BY <1>6, <2>1
    <2> QED
      BY <1>2, <1>5, <2>1, <2>3, <2>4, <2>5, <1>4, MaxPollsIsNat, Spending
  <1>7. t = Len(Svcs[r.yaml])
    BY <1>2 DEF Sized
  <1>8. CASE r.i < t /\ GotoWith(p, "createSvc", [r EXCEPT !.i = @ + 1])
    <2>1. PICK i \in Nat : i = r.i + 1
      BY <1>2
    <2>2. GotoWith(p, "createSvc", [r EXCEPT !.i = i])
      BY <1>8, <2>1
    <2> QED
      BY <1>6, <1>8, <2>1, <2>2
  <1>9. CASE GotoWith(p, "createNp", [r EXCEPT !.i = 1])
    BY <1>6, <1>9
  <1> QED
    BY <1>1, <1>2, <1>7, <1>8, <1>9 DEF CreateSvc

LEMMA CreateNpSpends ==
    ASSUME ProcsOK, PollsCounted, NEW p \in Procs, CreateNp(p)
    PROVE  Spends(p)
  <1>1. pc[p] = "createNp" /\ pc[p] \in DeployLabels
    BY DEF CreateNp, DeployLabels
  <1>2. PICK r \in Request, n \in Nat, t \in Nat, k \in Nat :
             /\ r = req[p] /\ r.i \in Nat /\ r.polls \in 0..(MaxPolls - 1) /\ 0 < n
             /\ Sized(r, n, t, k) /\ Fits(pc[p], r)
    BY <1>1, DeploySizes
  <1>3. r.i = 1 /\ k = n * MaxPolls
    BY <1>1, <1>2 DEF Fits, Sized
  <1>4. r.polls < MaxPolls
    BY <1>2, MaxPollsIsNat
  <1>5. DeployLeft(r, n, t, k)
    BY <1>2, LeftOfDeploy
  <1>6. PICK before \in Nat : before = 6 + k /\ before = CallsLeft(pc[p], r)
    BY <1>1, <1>5 DEF DeployLeft
  <1>7. ASSUME NEW port \in Ports, GotoWith(p, "waitReady", [r EXCEPT !.port = port])
        PROVE  Spends(p)
    <2>1. PICK s \in Request :
            s = [r EXCEPT !.port = port] /\ s.i = r.i /\ s.polls = r.polls /\ s.yaml = r.yaml
      <3> DEFINE x == [r EXCEPT !.port = port]
      <3>1. x \in Request /\ x.i = r.i /\ x.polls = r.polls /\ x.yaml = r.yaml
        BY DEF Request
      <3> HIDE DEF x
      <3> QED
        BY <3>1 DEF x
    <2>2. DeployLeft(s, n, t, k)
      BY <1>2, <2>1, SizeStays
    <2>3. PICK w \in Nat : w = (n - 1) * MaxPolls /\ w + MaxPolls = k
      BY <1>2, <1>3, Polls, MaxPollsIsNat
    <2>4. CallsLeft("waitReady", s) = 5 + w + MaxPolls - r.polls
      BY <1>3, <2>1, <2>2, <2>3 DEF DeployLeft
    <2>5. CallsLeft("waitReady", s) \in 0..(before - 1)
      BY <1>2, <1>6, <2>3, <2>4, MaxPollsIsNat
    <2>6. "waitReady" \in Labels
      BY DEF Labels, Calls
    <2> QED
      BY <1>2, <1>6, <1>7, <2>1, <2>5, <2>6, <1>4, MaxPollsIsNat, Spending
  <1> QED
    BY <1>1, <1>2, <1>7, CleaningSpends DEF CreateNp

LEMMA WaitReadySpends ==
    ASSUME ProcsOK, PollsCounted, NEW p \in Procs, WaitReady(p)
    PROVE  Spends(p)
  <1>1. pc[p] = "waitReady" /\ pc[p] \in DeployLabels
    BY DEF WaitReady, DeployLabels
  <1>2. PICK r \in Request, n \in Nat, t \in Nat, k \in Nat :
             /\ r = req[p] /\ r.i \in Nat /\ r.polls \in 0..(MaxPolls - 1) /\ 0 < n
             /\ Sized(r, n, t, k) /\ Fits(pc[p], r)
    BY <1>1, DeploySizes
  <1>3. r.i \in 1..n /\ DeployLeft(r, n, t, k)
    BY <1>1, <1>2, LeftOfDeploy DEF Fits, Sized
  <1>4. r.polls < MaxPolls
    BY <1>2, MaxPollsIsNat
  <1>5. PICK w \in Nat : w = (n - r.i) * MaxPolls
    BY <1>3, Polls, MaxPollsIsNat
  <1>6. r.polls \in Nat
    BY <1>2, MaxPollsIsNat
  <1>7. PICK before \in Nat : before = 5 + w + MaxPolls - r.polls /\ before = CallsLeft(pc[p], r)
    BY <1>1, <1>2, <1>3, <1>5, MaxPollsIsNat DEF DeployLeft
  <1>8. {"waitReady", "putEntrance"} \subseteq Labels
    BY DEF Labels, Calls
  <1>9. CASE r.i < n /\ GotoWith(p, "waitReady", [r EXCEPT !.i = @ + 1, !.polls = 0])
    <2>1. PICK i \in Nat : i = r.i + 1
      BY <1>2
    <2>2. PICK s \in Request :
            /\ s = [r EXCEPT !.i = @ + 1, !.polls = 0]
            /\ s.i = i /\ s.polls = 0 /\ s.yaml = r.yaml
      <3> DEFINE x == [r EXCEPT !.i = @ + 1, !.polls = 0]
      <3>1. x \in Request /\ x.i = i /\ x.polls = 0 /\ x.yaml = r.yaml
        BY <2>1 DEF Request
      <3> HIDE DEF x
      <3> QED
        BY <3>1 DEF x
    <2>3. DeployLeft(s, n, t, k)
      BY <1>2, <2>2, SizeStays
    <2>4. PICK v \in Nat : v = (n - i) * MaxPolls /\ w = v + MaxPolls
      <3>1. i \in 1..n
        BY <1>3, <1>9, <2>1
      <3> QED
        BY <1>3, <1>5, <1>9, <2>1, <3>1, Polls, MaxPollsIsNat
    <2>5. CallsLeft("waitReady", s) = 5 + v + MaxPolls - 0
      BY <2>2, <2>3, <2>4 DEF DeployLeft
    <2>6. CallsLeft("waitReady", s) \in 0..(before - 1)
      BY <1>2, <1>7, <2>4, <2>5, MaxPollsIsNat
    <2> QED
      BY <1>2, <1>7, <1>8, <1>9, <2>2, <2>6, <1>4, MaxPollsIsNat, Spending
  <1>10. CASE GotoWith(p, "putEntrance", [r EXCEPT !.i = 1, !.polls = 0])
    <2>1. PICK s \in Request : s = [r EXCEPT !.i = 1, !.polls = 0] /\ s.polls = 0
      <3> DEFINE x == [r EXCEPT !.i = 1, !.polls = 0]
      <3>1. x \in Request /\ x.polls = 0
        BY DEF Request
      <3> HIDE DEF x
      <3> QED
        BY <3>1 DEF x
    <2>2. CallsLeft("putEntrance", s) = 5
      BY LeftAt
    <2>3. CallsLeft("putEntrance", s) \in 0..(before - 1)
      BY <1>2, <1>7, <2>2, MaxPollsIsNat
    <2> QED
      BY <1>2, <1>7, <1>8, <1>10, <2>1, <2>3, <1>4, MaxPollsIsNat, Spending
  <1>11. CASE r.polls + 1 < MaxPolls /\ GotoWith(p, "waitReady", [r EXCEPT !.polls = @ + 1])
    <2>1. PICK polls \in 0..(MaxPolls - 1) : polls = r.polls + 1
      BY <1>2, <1>11, MaxPollsIsNat
    <2>2. PICK s \in Request :
            s = [r EXCEPT !.polls = @ + 1] /\ s.i = r.i /\ s.polls = polls /\ s.yaml = r.yaml
      <3> DEFINE x == [r EXCEPT !.polls = @ + 1]
      <3>1. x \in Request /\ x.i = r.i /\ x.polls = polls /\ x.yaml = r.yaml
        BY <1>6, <2>1 DEF Request
      <3> HIDE DEF x
      <3> QED
        BY <3>1 DEF x
    <2>3. DeployLeft(s, n, t, k)
      BY <1>2, <2>2, SizeStays
    <2>4. CallsLeft("waitReady", s) = 5 + w + MaxPolls - polls
      BY <1>5, <2>2, <2>3 DEF DeployLeft
    <2>5. CallsLeft("waitReady", s) \in 0..(before - 1)
      BY <1>2, <1>7, <2>1, <2>4, MaxPollsIsNat
    <2> QED
      BY <1>7, <1>2, <1>8, <1>11, <2>1, <2>2, <2>5, MaxPollsIsNat, Spending
  <1>12. n = Len(Deps[r.yaml])
    BY <1>2 DEF Sized
  <1> QED
    BY <1>1, <1>2, <1>9, <1>10, <1>11, <1>12, CleaningSpends DEF WaitReady

LEMMA ServesSpend ==
    ASSUME StoresOK, ProcsOK, PollsCounted, NEW p \in Procs, Serve(p)
    PROVE  Spends(p)
  BY CheckSvcSpends, CreateDepSpends, CreateSvcSpends, CreateNpSpends, WaitReadySpends,
     ShortCallsSpend, GetOrderSpends, GetEntranceSpends, AnswerSpends DEF Serve

\* What a request has left is a number.
LEMMA HasLeft ==
    ASSUME ProcsOK, PollsCounted, NEW p \in Procs, pc[p] # "idle"
    PROVE  CallsLeft(pc[p], req[p]) \in Nat
  <1>1. CASE pc[p] \in DeployLabels
    BY <1>1, DeployHasLeft
  <1>2. CASE pc[p] \in {"ack", "fail", "delSvc", "forward", "delDep", "getEntrance", "checkOrder"}
    BY <1>2, LeftAt
  <1>3. CASE pc[p] = "getOrder"
    <2>1. PICK r \in Request : r = req[p]
      BY BusyFacts
    <2>2. CASE r.kind = "deployId"
      <3>1. r.yaml \in Yamls
        BY <2>1, <2>2, BusyFacts DEF Fits, Deploying
      <3>2. PICK n \in Nat, t \in Nat, k \in Nat : Sized(r, n, t, k)
        BY <3>1, HasSize
      <3>3. DeployLeft(r, n, t, k)
        BY <3>2, LeftOfDeploy
      <3> QED
        BY <1>3, <2>1, <2>2, <3>3 DEF DeployLeft
    <2> QED
      BY <1>3, <2>1, <2>2, LeftAt
  <1> QED
    BY <1>1, <1>2, <1>3, BusyFacts DEF Busy, Labels, Calls, DeployLabels

\* Where a step leaves the processes: one is served, one receives a request, none moves,
\* or all of them are gone.
LEMMA StepMoves ==
    ASSUME StoresOK, ProcsOK, PollsCounted, [Next]_vars
    PROVE  \/ \E p \in Procs : Spends(p)
           \/ \E p \in Procs, l \in Labels, r \in Request : pc[p] = "idle" /\ GotoWith(p, l, r) /\ r.polls = 0
           \/ UNCHANGED <<pc, req>>
           \/ \A p \in Procs : pc'[p] = "idle"
  <1>1. CASE \E p \in Procs : Serve(p)
    BY <1>1, ServesSpend
  <1>2. ASSUME NEW p \in Procs, NEW u \in Users, Receive(p, u)
        PROVE  \E l \in Labels, r \in Request : pc[p] = "idle" /\ GotoWith(p, l, r) /\ r.polls = 0
    <2>1. PICK k \in Kinds,
               y \in Yamls \cup {None}, o \in Orders \cup {None} : Submit(p, k, u, y, o)
      <3>1. OrdersOf[u] \subseteq Orders
        BY GatewayAssumption
      <3> QED
        BY <1>2, <3>1 DEF Receive
    <2> DEFINE r == [kind |-> k, user |-> u, yaml |-> y, oid |-> o, i |-> 1,
                     polls |-> 0, port |-> None, snap |-> None]
    <2>2. pc[p] = "idle" /\ GotoWith(p, FirstLabel(r), r) /\ r.polls = 0
      BY <2>1 DEF Submit
    <2>3. FirstLabel(r) \in Labels
      BY DEF FirstLabel, Labels, Calls
    <2>4. k \in AllKinds
      BY GatewayAssumption
    <2>5. r \in Request
      BY <2>4 DEF Request
    <2> HIDE DEF r
    <2> QED
      BY <2>2, <2>3, <2>5
  <1>3. CASE UNCHANGED vars \/ ContainersStart \/ \E o \in Orders : MarketMoves(o)
    BY <1>3 DEF vars, ContainersStart, gatewayVars, MarketMoves
  <1>4. CASE Crash
    BY <1>4 DEF Crash
  <1> QED
    BY <1>1, <1>2, <1>3, <1>4 DEF Next

LEMMA PollsStayCounted ==
    ASSUME StoresOK, ProcsOK, PollsCounted, [Next]_vars
    PROVE  PollsCounted'
  <1> SUFFICES ASSUME NEW q \in Procs, pc'[q] # "idle"
               PROVE  req'[q].polls < MaxPolls
    BY DEF PollsCounted
  <1>1. ASSUME NEW p \in Procs, NEW l \in Labels, NEW r, GotoWith(p, l, r),
               l # "idle" => r.polls < MaxPolls
        PROVE  req'[q].polls < MaxPolls
    <2>1. CASE q = p
      <3>1. pc'[q] = l /\ req'[q] = r
        BY <1>1, <2>1 DEF ProcsOK, GotoWith
      <3> QED
        BY <1>1, <3>1
    <2>2. CASE q # p
      <3>1. pc'[q] = pc[q] /\ req'[q] = req[q]
        BY <1>1, <2>2 DEF ProcsOK, GotoWith
      <3> QED
        BY <3>1 DEF PollsCounted
    <2> QED
      BY <2>1, <2>2
  <1>2. CASE \E p \in Procs : Spends(p)
    BY <1>1, <1>2 DEF Spends
  <1>3. CASE \E p \in Procs, l \in Labels, r \in Request : pc[p] = "idle" /\ GotoWith(p, l, r) /\ r.polls = 0
    BY <1>1, <1>3, MaxPollsIsNat
  <1>4. CASE UNCHANGED <<pc, req>>
    BY <1>4 DEF PollsCounted
  <1> QED
    BY <1>2, <1>3, <1>4, StepMoves

LEMMA StepsShrink ==
    ASSUME StoresOK, ProcsOK, PollsCounted, [Next]_vars, NEW q \in Procs
    PROVE  CallsShrink(q)
  <1>1. ASSUME Spends(q)
        PROVE  CallsLeft(pc'[q], req'[q]) \in 0..(CallsLeft(pc[q], req[q]) - 1)
    <2>1. PICK l \in Labels, r \in Request \cup {None} :
            /\ GotoWith(q, l, r)
            /\ CallsLeft(l, r) \in 0..(CallsLeft(pc[q], req[q]) - 1)
      BY <1>1 DEF Spends
    <2>2. pc'[q] = l /\ req'[q] = r
      BY <2>1 DEF ProcsOK, GotoWith
    <2> QED
      BY <2>1, <2>2
  <1>2. ASSUME pc[q] # "idle"
        PROVE  CallsLeft(pc'[q], req'[q]) <= CallsLeft(pc[q], req[q])
    <2>1. CallsLeft(pc[q], req[q]) \in Nat
      BY <1>2, HasLeft
    <2>2. CASE Spends(q)
      BY <1>1, <2>1, <2>2
    <2>3. CASE pc'[q] = pc[q] /\ req'[q] = req[q]
      BY <2>1, <2>3
    <2>4. CASE pc'[q] = "idle"
      BY <2>1, <2>4, LeftAt
    <2>5. CASE \E p \in Procs \ {q} : Spends(p)
      BY <2>3, <2>5 DEF Spends, GotoWith, ProcsOK
    <2>6. CASE \E p \in Procs, l \in Labels, r \in Request : pc[p] = "idle" /\ GotoWith(p, l, r)
      BY <1>2, <2>3, <2>6 DEF GotoWith, ProcsOK
    <2> QED
      BY <2>2, <2>3, <2>4, <2>5, <2>6, StepMoves
  <1>3. Serve(q) => Spends(q)
    BY ServesSpend
  <1> QED
    BY <1>1, <1>2, <1>3 DEF CallsShrink

\* A request is answered after a number of calls that its yaml and MaxPolls bound, for any
\* yaml and however many polls: each call leaves fewer, down to none, and nothing that
\* others do, that fails or that is killed adds to them (Deploy, WaitReady, Clean).
THEOREM CallsRunOutHolds == Spec => CallsRunOut
  <1>1. Init => PollsCounted
    BY DEF Init, PollsCounted
  <1>2. IInv /\ PollsCounted /\ [Next]_vars => PollsCounted'
    BY Halves, PollsStayCounted
  <1>3. IInv /\ PollsCounted /\ [Next]_vars => [\A p \in Procs : CallsShrink(p)]_vars
    BY Halves, StepsShrink
  <1> QED
    BY <1>1, <1>2, <1>3, Invariance, PTL DEF Spec, CallsRunOut

-----------------------------------------------------------------------------
(* The refinement of Tenants. *)

named == [o \in Orders |-> order[o].app]

\* A step that leaves the stores alone is at most traffic.
LEMMA StoresAlone ==
    ASSUME ProcsOK', UNCHANGED <<deployment, npSvc, leased, entrance, order>>
    PROVE  T!Traffic
  <1>1. Served' \in SUBSET Accounts
    BY GatewayAssumption DEF ProcsOK, Served, Account, Request
  <1>2. UNCHANGED named
    BY DEF named
  <1> QED
    BY <1>1, <1>2 DEF T!Traffic, named

\* The account of a request under way is being served, and is one.
LEMMA ServedWhileBusy ==
    ASSUME ProcsOK, NEW p \in Procs, pc[p] # "idle"
    PROVE  Account(req[p]) \in Served /\ Account(req[p]) \in Accounts
  BY BusyFacts, GatewayAssumption DEF Served, Account, Request

\* A process that goes on with its request leaves the served accounts as they are.
LEMMA GoingOn ==
    ASSUME ProcsOK, NEW p \in Procs, pc[p] # "idle", NEW l \in Busy, NEW r,
           GotoWith(p, l, r), Account(r) = Account(req[p])
    PROVE  Served' = Served
  <1>1. \A q \in Procs : /\ pc'[q] # "idle" <=> pc[q] # "idle"
                         /\ Account(req'[q]) = Account(req[q])
    BY DEF ProcsOK, GotoWith, Busy, Account
  <1>2. Served' = {Account(req'[q]) : q \in {s \in Procs : pc'[s] # "idle"}}
    BY DEF Served, Account
  <1> QED
    BY <1>1, <1>2 DEF Served

LEMMA GoingOnAsIs ==
    ASSUME ProcsOK, NEW p \in Procs, pc[p] # "idle", NEW l \in Busy, Goto(p, l)
    PROVE  Served' = Served
  <1>1. GotoWith(p, l, req[p])
    BY DEF Goto, GotoWith, ProcsOK
  <1> QED
    BY <1>1, GoingOn

LEMMA Acting ==
    ASSUME NEW a \in Served, T!Act(a)
    PROVE  T!Next
  BY DEF T!Next

\* One thing of the account p works for.
LEMMA OwnThing ==
    ASSUME ProcsOK, NEW p \in Procs, pc[p] # "idle",
           NEW d \in DepName, d[2] = Account(req[p]),
           \/ T!Launch(d) \/ T!Remove(d) \/ T!Release(d)
           \/ \E port \in Ports : T!Lease(d, port)
           \/ \E o \in Orders : T!Assign(o, d)
    PROVE  T!Next
  <1>1. PICK a \in Served : a = Account(req[p])
    BY ServedWhileBusy
  <1>2. d \in T!Owned /\ T!Owner(d) = a
    BY <1>1 DEF DepName, T!Owned, T!Owner
  <1>3. T!Act(a)
    BY <1>2 DEF T!Act
  <1> QED
    BY <1>3, Acting

-----------------------------------------------------------------------------
(* The actions that touch what an account owns. *)

LEMMA CreateDepLaunches ==
    ASSUME StoresOK, ProcsOK, ProcsOK', NEW p \in Procs, CreateDep(p)
    PROVE  T!Next
  <1>1. pc[p] # "idle" /\ pc[p] = "createDep"
    BY DEF CreateDep
  <1>2. PICK r \in Request : r = req[p]
    BY <1>1, BusyFacts
  <1>3. r.yaml \in Yamls /\ r.i \in DOMAIN Deps[r.yaml]
    BY <1>1, <1>2, BusyFacts DEF Fits, DeployLabels
  <1> DEFINE d == Dep(r, r.i)
  <1>4. d \in DepName /\ d[2] = Account(req[p])
    BY <1>2, <1>3, DepIsName DEF Dep
  <1>5. UNCHANGED <<entrance, order>>
    BY DEF CreateDep
  <1>6. CASE UNCHANGED clusterVars
    BY <1>5, <1>6, StoresAlone DEF clusterVars, T!Next
  <1>7. CASE CreateDeployment(d)
    <2>1. Served' = Served
      <3>1. CASE CleanUp(p)
        BY <1>1, <3>1, GoingOnAsIs DEF CleanUp, Busy, Labels, Calls
      <3>2. CASE GotoWith(p, "createDep", [r EXCEPT !.i = @ + 1])
        BY <1>1, <1>2, <3>2, GoingOn DEF Account, Request, Busy, Labels, Calls
      <3>3. CASE GotoWith(p, AfterDeps(r), [r EXCEPT !.i = 1])
        <4>1. AfterDeps(r) \in Busy
          BY DEF AfterDeps, Busy, Labels, Calls
        <4> QED
          BY <1>1, <1>2, <3>3, <4>1, GoingOn DEF Account, Request
      <3>4. CleanUp(p) \/ GotoWith(p, "createDep", [r EXCEPT !.i = @ + 1])
              \/ GotoWith(p, AfterDeps(r), [r EXCEPT !.i = 1])
        BY <1>2 DEF CreateDep
      <3> QED
        BY <3>1, <3>2, <3>3, <3>4
    <2>2. deployment[d] = "absent"
      BY <1>4, <1>7, NoneIsNobody DEF CreateDeployment, DeploymentExists, DepName
    <2>3. T!Launch(d)
      BY <1>5, <1>7, <2>1, <2>2 DEF T!Launch, CreateDeployment
    <2> HIDE DEF d
    <2> QED
      BY <1>1, <1>4, <2>3, OwnThing
  <1> QED
    BY <1>2, <1>6, <1>7 DEF CreateDep

LEMMA CreateNpLeases ==
    ASSUME StoresOK, ProcsOK, ProcsOK', NEW p \in Procs, CreateNp(p)
    PROVE  T!Next
  <1>1. pc[p] # "idle" /\ pc[p] = "createNp"
    BY DEF CreateNp
  <1>2. PICK r \in Request : r = req[p]
    BY <1>1, BusyFacts
  <1>3. r.yaml \in Yamls /\ Deps[r.yaml] # <<>>
    BY <1>1, <1>2, BusyFacts DEF Fits, DeployLabels
  <1> DEFINE d == Dep(r, 1)
  <1>4. d \in DepName /\ d[2] = Account(req[p])
    BY <1>2, <1>3, FirstDep DEF Dep
  <1>5. UNCHANGED <<entrance, order>>
    BY DEF CreateNp
  <1>6. CASE UNCHANGED clusterVars
    BY <1>5, <1>6, StoresAlone DEF clusterVars, T!Next
  <1>7. ASSUME NEW port \in Ports, CreateNodePortService(d, port),
               CleanUp(p) \/ GotoWith(p, "waitReady", [r EXCEPT !.port = port])
        PROVE  T!Next
    <2>1. Served' = Served
      <3>1. CASE CleanUp(p)
        BY <1>1, <3>1, GoingOnAsIs DEF CleanUp, Busy, Labels, Calls
      <3>2. CASE GotoWith(p, "waitReady", [r EXCEPT !.port = port])
        BY <1>1, <1>2, <3>2, GoingOn DEF Account, Request, Busy, Labels, Calls
      <3> QED
        BY <1>7, <3>1, <3>2
    <2>2. npSvc[d] = None /\ \A e \in T!Owned : npSvc[e] # port
      BY <1>4, <1>7, NoneIsNobody
      DEF CreateNodePortService, ServiceExists, FreePorts, DepName, T!Owned
    <2>3. T!Lease(d, port)
      BY <1>5, <1>7, <2>1, <2>2 DEF T!Lease, CreateNodePortService
    <2> HIDE DEF d
    <2> QED
      BY <1>1, <1>4, <2>3, OwnThing
  <1> QED
    BY <1>2, <1>6, <1>7 DEF CreateNp

LEMMA DelDepRemoves ==
    ASSUME StoresOK, ProcsOK, ProcsOK', NEW p \in Procs, DelDep(p)
    PROVE  T!Next
  <1>1. pc[p] # "idle" /\ pc[p] = "delDep"
    BY DEF DelDep
  <1>2. PICK r \in Request : r = req[p]
    BY <1>1, BusyFacts
  <1>3. Fits("delDep", r) /\ Grounded("delDep", r)
    BY <1>1, <1>2, BusyFacts
  <1>4. UNCHANGED <<entrance, order>>
    BY DEF DelDep
  <1>5. CASE UNCHANGED clusterVars
    BY <1>4, <1>5, StoresAlone DEF clusterVars, T!Next
  <1>6. CASE DeleteDeployment(Target(r))
    <2>1. Target(r) # None /\ deployment[Target(r)] # "absent"
      BY <1>6 DEF DeleteDeployment, DeploymentExists
    <2>2. Target(r) \in DepName /\ Target(r)[2] = Account(req[p])
      BY <1>2, <1>3, <2>1, TargetIsName, TargetIsOwn
    <2>3. Goto(p, "delSvc") \/ Goto(p, "ack") \/ Goto(p, "fail")
      BY <1>2 DEF DelDep, Deleted
    <2>4. Served' = Served
      BY <1>1, <2>3, GoingOnAsIs DEF Busy, Labels, Calls
    <2>5. T!Remove(Target(r))
      BY <1>4, <1>6, <2>1, <2>4 DEF T!Remove, DeleteDeployment
    <2> QED
      BY <1>1, <2>2, <2>5, OwnThing
  <1> QED
    BY <1>2, <1>5, <1>6 DEF DelDep

LEMMA DelSvcReleases ==
    ASSUME StoresOK, ProcsOK, ProcsOK', NEW p \in Procs, DelSvc(p)
    PROVE  T!Next
  <1>1. pc[p] # "idle" /\ pc[p] = "delSvc"
    BY DEF DelSvc
  <1>2. PICK r \in Request : r = req[p]
    BY <1>1, BusyFacts
  <1>3. Fits("delSvc", r) /\ Grounded("delSvc", r)
    BY <1>1, <1>2, BusyFacts
  <1>4. UNCHANGED <<entrance, order>>
    BY DEF DelSvc
  <1>5. CASE UNCHANGED clusterVars
    BY <1>4, <1>5, StoresAlone DEF clusterVars, T!Next
  <1>6. CASE DeleteService(Target(r))
    <2>1. Target(r) # None /\ npSvc[Target(r)] # None
      BY <1>6 DEF DeleteService, ServiceExists
    <2>2. Target(r) \in DepName /\ Target(r)[2] = Account(req[p])
      BY <1>2, <1>3, <2>1, TargetIsName, TargetIsOwn
    <2>3. Goto(p, "ack") \/ Goto(p, "fail")
      BY <1>2 DEF DelSvc, Deleted
    <2>4. Served' = Served
      BY <1>1, <2>3, GoingOnAsIs DEF Busy, Labels, Calls
    <2>5. T!Release(Target(r))
      BY <1>4, <1>6, <2>1, <2>4 DEF T!Release, DeleteService
    <2> QED
      BY <1>1, <2>2, <2>5, OwnThing
  <1> QED
    BY <1>2, <1>5, <1>6 DEF DelSvc

LEMMA PutEntrancePoints ==
    ASSUME StoresOK, ProcsOK, ProcsOK', NEW p \in Procs, PutEntrance(p)
    PROVE  T!Next
  <1>1. pc[p] # "idle" /\ pc[p] = "putEntrance"
    BY DEF PutEntrance
  <1>2. PICK r \in Request : r = req[p]
    BY <1>1, BusyFacts
  <1>3. Fits("putEntrance", r) /\ Grounded("putEntrance", r)
    BY <1>1, <1>2, BusyFacts
  <1>4. UNCHANGED <<deployment, npSvc, leased, order>>
    BY DEF PutEntrance, clusterVars
  <1>5. CASE UNCHANGED entrance
    BY <1>4, <1>5, StoresAlone DEF T!Next
  <1>6. CASE /\ entrance' = [entrance EXCEPT ![r.user] = r.port]
             /\ Goto(p, IF r.kind = "deployId" THEN "setApp" ELSE "ack")
    <2>1. r.user \in Users /\ r.port \in Ports /\ <<Dep(r, 1), r.port>> \in leased
      BY <1>3 DEF Grounded, Request
    <2>2. Dep(r, 1) \in T!Owned /\ T!Owner(Dep(r, 1)) = Lower[r.user]
      BY <1>3, FirstDep DEF Fits, DeployLabels, DepName, Dep, Account, T!Owned, T!Owner
    <2>3. Served' = Served
      BY <1>1, <1>6, GoingOnAsIs DEF Busy, Labels, Calls
    <2>4. T!Point(r.user, r.port)
      BY <1>4, <1>6, <2>1, <2>2, <2>3 DEF T!Point
    <2>5. PICK a \in Served : a = Account(r)
      BY <1>1, <1>2, ServedWhileBusy
    <2>6. Lower[r.user] = a
      BY <2>5 DEF Account
    <2>7. T!Act(a)
      BY <2>1, <2>4, <2>6 DEF T!Act
    <2> QED
      BY <2>7, Acting
  <1> QED
    BY <1>2, <1>5, <1>6 DEF PutEntrance

LEMMA SetAppAssigns ==
    ASSUME StoresOK, ProcsOK, ProcsOK', NEW p \in Procs, SetApp(p)
    PROVE  T!Next
  <1>1. pc[p] # "idle" /\ pc[p] = "setApp"
    BY DEF SetApp
  <1>2. PICK r \in Request : r = req[p]
    BY <1>1, BusyFacts
  <1>3. Fits("setApp", r) /\ Grounded("setApp", r)
    BY <1>1, <1>2, BusyFacts
  <1>4. UNCHANGED <<deployment, npSvc, leased, entrance>>
    BY DEF SetApp, clusterVars
  <1>5. CASE UNCHANGED order
    BY <1>4, <1>5, StoresAlone DEF T!Next
  <1>6. CASE order' = [order EXCEPT ![r.oid].app = Dep(r, 1)]
    <2>1. r.oid \in OrdersOf[r.user] /\ r.user \in Users /\ r.oid \in Orders
      BY <1>3, GatewayAssumption DEF Fits, Request, WithOrder
    <2>2. Dep(r, 1) \in DepName /\ Dep(r, 1)[2] = Account(req[p])
      BY <1>2, <1>3, FirstDep DEF Fits, DeployLabels, Dep
    <2>3. T!Owner(Dep(r, 1)) = Lower[r.user] /\ <<Dep(r, 1), r.port>> \in leased
          /\ r.port \in Ports
      BY <1>3 DEF Grounded, Dep, Account, T!Owner
    <2>4. Goto(p, "ack") \/ Goto(p, "delDep")
      BY DEF SetApp, CleanUp
    <2>5. Served' = Served
      BY <1>1, <2>4, GoingOnAsIs DEF Busy, Labels, Calls
    <2>6. named' = [named EXCEPT ![r.oid] = Dep(r, 1)]
      BY <1>6, <2>1 DEF named, StoresOK, Order
    <2>7. T!Assign(r.oid, Dep(r, 1))
      BY <1>4, <2>1, <2>3, <2>5, <2>6 DEF T!Assign, named
    <2> QED
      BY <1>1, <2>1, <2>2, <2>7, OwnThing
  <1> QED
    BY <1>2, <1>5, <1>6 DEF SetApp

-----------------------------------------------------------------------------
(* All steps. *)

LEMMA ContainersComeUp ==
    ASSUME StoresOK, ContainersStart
    PROVE  T!Next
  <1>1. PICK d \in DepName : BecomeAvailable(d)
    BY DEF ContainersStart
  <1>2. UNCHANGED <<pc, req, entrance, order>>
    BY DEF ContainersStart, gatewayVars
  <1>3. Served' = Served /\ named' = named
    BY <1>2 DEF Served, Account, named
  <1>4. T!ComeUp(d)
    BY <1>1, <1>2, <1>3 DEF T!ComeUp, BecomeAvailable, named
  <1> QED
    BY <1>1, <1>4 DEF T!Next, T!Owned, DepName

LEMMA MarketIsUnseen ==
    ASSUME StoresOK, NEW o \in Orders, MarketMoves(o)
    PROVE  UNCHANGED T!vars
  <1>1. UNCHANGED <<deployment, npSvc, leased, entrance, pc, req>>
    BY DEF MarketMoves, clusterVars
  <1>2. Served' = Served
    BY <1>1 DEF Served, Account
  <1>3. named' = named
    BY DEF MarketMoves, named, StoresOK, Order
  <1> QED
    BY <1>1, <1>2, <1>3 DEF T!vars, named

LEMMA ServeMaps ==
    ASSUME StoresOK, ProcsOK, ProcsOK', NEW p \in Procs, Serve(p)
    PROVE  T!Next
  <1>1. CASE CreateSvc(p)
    <2>1. UNCHANGED <<deployment, npSvc, leased, entrance, order>>
      BY <1>1 DEF CreateSvc, CreateYamlService, clusterVars
    <2> QED
      BY <2>1, StoresAlone DEF T!Next
  <1>2. CASE \/ CheckSvc(p) \/ WaitReady(p) \/ GetOrder(p) \/ CheckOrder(p)
             \/ GetEntrance(p) \/ Forward(p) \/ Answer(p)
    <2>1. UNCHANGED <<deployment, npSvc, leased, entrance, order>>
      BY <1>2 DEF CheckSvc, WaitReady, GetOrder, CheckOrder, GetEntrance, Forward,
         Answer, clusterVars
    <2> QED
      BY <2>1, StoresAlone DEF T!Next
  <1> QED
    BY <1>1, <1>2, CreateDepLaunches, CreateNpLeases, DelDepRemoves, DelSvcReleases,
       PutEntrancePoints, SetAppAssigns DEF Serve

LEMMA StepMaps ==
    ASSUME IInv, [Next]_vars, IInv'
    PROVE  [T!Next]_(T!vars)
  <1>1. StoresOK /\ ProcsOK /\ ProcsOK'
    <2>1. StoresOK /\ ProcsOK
      BY Halves
    <2>2. ProcsOK'
      BY DEF IInv, ProcsOK, TypeOK
    <2> QED
      BY <2>1, <2>2
  <1>2. CASE \E p \in Procs : Serve(p)
    BY <1>1, <1>2, ServeMaps
  <1>3. CASE \/ \E p \in Procs, u \in Users : Receive(p, u)
             \/ Crash
    <2>1. UNCHANGED <<clusterVars, entrance, order>>
      <3>1. CASE Crash
        BY <3>1 DEF Crash
      <3>2. ASSUME NEW p \in Procs, NEW u \in Users, Receive(p, u)
            PROVE  UNCHANGED <<clusterVars, entrance, order>>
        <4>1. PICK k, y, o : Submit(p, k, u, y, o)
          BY <3>2 DEF Receive
        <4> QED
          BY <4>1 DEF Submit
      <3> QED
        BY <1>3, <3>1, <3>2
    <2>2. UNCHANGED <<deployment, npSvc, leased, entrance, order>>
      BY <2>1 DEF clusterVars
    <2> QED
      BY <1>1, <2>2, StoresAlone DEF T!Next
  <1>4. CASE ContainersStart
    BY <1>1, <1>4, ContainersComeUp
  <1>5. CASE \E o \in Orders : MarketMoves(o)
    BY <1>1, <1>5, MarketIsUnseen
  <1>6. CASE UNCHANGED vars
    <2>1. Served' = Served /\ named' = named
      BY <1>6 DEF vars, Served, Account, named
    <2> QED
      BY <1>6, <2>1 DEF vars, T!vars, named
  <1> QED
    BY <1>2, <1>3, <1>4, <1>5, <1>6 DEF Next

LEMMA InitMaps == Init => T!Init
  <1> SUFFICES ASSUME Init PROVE T!Init
    OBVIOUS
  <1>1. Served = {}
    BY DEF Init, Served
  <1>2. \A o \in Orders : order[o].app = None
    BY DEF Init
  <1> QED
    BY <1>1, <1>2 DEF Init, ClusterInit, T!Init, T!Owned, DepName

\* Whatever the requests of the accounts do to each other's calls, together they amount
\* to accounts that each change only what is theirs, only while they are being served.
THEOREM GatewayImplementsTenants == Spec => ImplementsTenants
  <1>1. IInv /\ [Next]_vars /\ IInv' => [T!Next]_(T!vars)
    BY StepMaps
  <1> QED
    BY <1>1, InitMaps, Invariance, PTL DEF Spec, ImplementsTenants, T!Spec
=============================================================================
