---------------------------- MODULE DaemonProofs ----------------------------
(***************************************************************************)
(* Proofs about module Daemon, for any number of HTTP and gRPC processes,   *)
(* requests and faults.  IInv ties the listener, the database handle and    *)
(* the lock of the directory to the stage of the main goroutine; a step of  *)
(* a process touches that process only, but for the lock, which the others  *)
(* do not hold while it does.                                               *)
(***************************************************************************)
EXTENDS Daemon, TLAPS

Opened == {"listen", "notify", "wait", "drain"}

\* What the stage of a process says of it.
Stage(d) ==
    /\ stage[d] \in Opened => database[d] = "open"
    /\ web[d] # "none" => stage[d] \in {"notify", "wait"}
    /\ database[d] = "open" <=> lock = d

\* A request runs in a process that listens, or has until it was told to stop.
Runs(r) == request[r] # None => stage[request[r].in] \in {"notify", "wait", "drain"}

IInv ==
    /\ TypeOK
    /\ \A d \in Daemons : Stage(d)
    /\ \A r \in Requests : Runs(r)

LEMMA InvImplied == IInv => NoUseAfterClose
  BY DEF IInv, TypeOK, Stage, Runs, Running, NoUseAfterClose, Opened

LEMMA InitInv == Init => IInv
  BY DaemonAssumption DEF Init, IInv, TypeOK, Stage, Runs, Stages, Opened

-----------------------------------------------------------------------------
(* The ways a process moves on. *)

\* The process ends, and the lock with it if it was its own.
LEMMA Dying ==
    ASSUME IInv, NEW d \in Daemons, Die(d), faults' \in 0 .. MaxFaults
    PROVE  IInv'
  <1>1. TypeOK'
    BY DaemonAssumption DEF IInv, TypeOK, Die, Go, Stages, Serving
  <1>2. ASSUME NEW e \in Daemons PROVE Stage(e)'
    BY DaemonAssumption DEF IInv, TypeOK, Stage, Die, Go, Opened
  <1>3. ASSUME NEW r \in Requests PROVE Runs(r)'
    BY DEF IInv, TypeOK, Runs, Running, Die, Go, Serving
  <1> QED
    BY <1>1, <1>2, <1>3 DEF IInv

\* A step that leaves the requests alone and moves one process on.
LEMMA Advancing ==
    ASSUME IInv, NEW d \in Daemons, NEW s \in Stages, Go(d, s), TypeOK',
           UNCHANGED request,
           \A r \in Serving(d) : s \in {"notify", "wait", "drain"},
           Stage(d)',
           \A e \in Daemons \ {d} : /\ web'[e] = web[e]
                                    /\ database'[e] = database[e]
                                    /\ lock' = e <=> lock = e
    PROVE  IInv'
  <1>1. ASSUME NEW e \in Daemons PROVE Stage(e)'
    BY DEF IInv, TypeOK, Stage, Go
  <1>2. ASSUME NEW r \in Requests PROVE Runs(r)'
    BY DEF IInv, TypeOK, Runs, Running, Serving, Go
  <1> QED
    BY <1>1, <1>2 DEF IInv

LEMMA Faulting ==
    ASSUME IInv, Fault PROVE faults' \in 0 .. MaxFaults
  BY DaemonAssumption DEF IInv, TypeOK, Fault

LEMMA Idle ==
    ASSUME IInv, NEW d \in Daemons, stage[d] \notin {"notify", "wait", "drain"}
    PROVE  Serving(d) = {}
  BY DEF IInv, Runs, Serving

-----------------------------------------------------------------------------
(* One lemma per action. *)

LEMMA StartStep ==
    ASSUME IInv, NEW d \in Daemons,
           \/ Run(d)
           \/ /\ \E s \in {<<"key", "prover">>, <<"prover", "chain">>, <<"chain", "open">>} :
                    At(d, s[1]) /\ Go(d, s[2])
              /\ UNCHANGED <<web, database, lock, quit, client, request, signalled, faults>>
    PROVE  IInv'
  <1>1. PICK s \in {"key", "prover", "chain", "open"} : Go(d, s)
    BY DEF Run
  <1>2. /\ stage[d] \in {"off", "key", "prover", "chain"}
        /\ UNCHANGED <<web, database, lock, quit, client, request, signalled, faults>>
    BY DEF Run, At
  <1>3. s \in Stages
    BY DEF Stages
  <1>4. TypeOK'
    BY <1>1, <1>2, <1>3 DEF IInv, TypeOK, Go
  <1>5. Stage(d)'
    BY <1>1, <1>2 DEF IInv, TypeOK, Stage, Go, Opened
  <1>6. Serving(d) = {}
    BY <1>2, Idle
  <1> QED
    BY <1>1, <1>2, <1>3, <1>4, <1>5, <1>6, Advancing

LEMMA PrepareStep ==
    ASSUME IInv, NEW d \in Daemons, Prepare(d) PROVE IInv'
  <1>1. CASE Fatal(d)
    BY <1>1, Dying, Faulting DEF Fatal
  <1> QED
    BY <1>1, StartStep DEF Prepare

LEMMA OpenStep ==
    ASSUME IInv, NEW d \in Daemons, Open(d) PROVE IInv'
  <1>1. CASE Die(d)
    BY <1>1, Dying DEF Open, IInv, TypeOK
  <1>2. CASE /\ lock = None
             /\ lock' = d /\ database' = [database EXCEPT ![d] = "open"]
             /\ Go(d, "listen")
             /\ UNCHANGED <<web, quit, client, request, signalled>>
    <2>1. UNCHANGED faults /\ stage[d] = "open"
      BY DEF Open, At
    <2>2. "listen" \in Stages
      BY DEF Stages
    <2>3. TypeOK'
      BY <1>2, <2>1, <2>2 DEF IInv, TypeOK, Go
    <2>4. Stage(d)'
      BY <1>2, <2>1 DEF IInv, TypeOK, Stage, Go
    <2>5. Serving(d) = {}
      BY <2>1, Idle
    <2> QED
      BY <1>2, <2>2, <2>3, <2>4, <2>5, Advancing, DaemonAssumption DEF IInv, TypeOK
  <1> QED
    BY <1>1, <1>2 DEF Open

LEMMA ListenStep ==
    ASSUME IInv, NEW d \in Daemons, Listen(d) \/ Notify(d) PROVE IInv'
  <1>1. PICK s \in {"notify", "wait"} : Go(d, s)
    BY DEF Listen, Notify
  <1>2. s \in Stages
    BY DEF Stages
  <1>3. TypeOK'
    BY <1>1, <1>2 DEF IInv, TypeOK, Go, Listen, Notify
  <1>4. Stage(d)'
    BY <1>1 DEF IInv, TypeOK, Stage, Go, Listen, Notify, At, Opened
  <1> QED
    BY <1>1, <1>2, <1>3, <1>4, Advancing DEF Listen, Notify, IInv, TypeOK

LEMMA ServeStep ==
    ASSUME IInv, NEW d \in Daemons, Serve(d) PROVE IInv'
  <1>1. CASE Fatal(d)
    BY <1>1, Dying, Faulting DEF Fatal
  <1>2. CASE /\ stage[d] \in {"notify", "wait"}
             /\ web' = [web EXCEPT ![d] = "listening"]
             /\ UNCHANGED <<stage, database, lock, quit, client, request, signalled, faults>>
    <2>1. TypeOK'
      BY <1>2 DEF IInv, TypeOK
    <2>2. ASSUME NEW e \in Daemons PROVE Stage(e)'
      BY <1>2 DEF IInv, TypeOK, Stage
    <2>3. ASSUME NEW r \in Requests PROVE Runs(r)'
      BY <1>2 DEF IInv, Runs
    <2> QED
      BY <2>1, <2>2, <2>3 DEF IInv
  <1> QED
    BY <1>1, <1>2 DEF Serve

LEMMA SignalStep ==
    ASSUME IInv, NEW d \in Daemons, Signal(d) PROVE IInv'
  <1>1. CASE Die(d)
    BY <1>1, Dying, Faulting DEF Signal
  <1>2. CASE /\ quit' = [quit EXCEPT ![d] = 1]
             /\ signalled' = [signalled EXCEPT ![d] = TRUE]
             /\ UNCHANGED <<stage, web, database, lock, client, request>>
    <2>1. faults' \in 0 .. MaxFaults
      BY Faulting DEF Signal
    <2>2. TypeOK'
      BY <1>2, <2>1 DEF IInv, TypeOK
    <2> QED
      BY <1>2, <2>2 DEF IInv, Stage, Runs
  <1> QED
    BY <1>1, <1>2 DEF Signal

LEMMA QuitStep ==
    ASSUME IInv, NEW d \in Daemons, Quit(d) PROVE IInv'
  <1>1. CASE Die(d)
    BY <1>1, Dying DEF Quit, IInv, TypeOK
  <1>2. CASE /\ quit' = [quit EXCEPT ![d] = 0]
             /\ web' = [web EXCEPT ![d] = "none"]
             /\ Go(d, "drain")
             /\ UNCHANGED <<database, lock, client, request, signalled>>
    <2>1. UNCHANGED faults /\ stage[d] = "wait"
      BY DEF Quit, At
    <2>2. "drain" \in Stages
      BY DEF Stages
    <2>3. TypeOK'
      BY <1>2, <2>1, <2>2 DEF IInv, TypeOK, Go
    <2>4. Stage(d)'
      BY <1>2, <2>1 DEF IInv, TypeOK, Stage, Go, Opened
    <2> QED
      BY <1>2, <2>2, <2>3, <2>4, Advancing DEF IInv, TypeOK
  <1> QED
    BY <1>1, <1>2 DEF Quit

\* After Shutdown no request is left, so that Close has no one to hurt.
LEMMA StopStep ==
    ASSUME IInv, NEW d \in Daemons, Drain(d) \/ Timeout(d) \/ Close(d) \/ Return(d)
    PROVE  IInv'
  <1>1. CASE Timeout(d) \/ Return(d)
    BY <1>1, Dying DEF Timeout, Return, IInv, TypeOK
  <1>2. CASE Drain(d)
    <2>1. "close" \in Stages
      BY DEF Stages
    <2>2. TypeOK'
      BY <1>2, <2>1 DEF IInv, TypeOK, Go, Drain
    <2>3. Stage(d)'
      BY <1>2 DEF IInv, TypeOK, Stage, Go, Drain, At, Opened
    <2> QED
      BY <1>2, <2>1, <2>2, <2>3, Advancing DEF Drain
  <1>3. CASE Close(d)
    <2>1. TypeOK'
      BY <1>3 DEF IInv, TypeOK, Close
    <2>2. lock = d
      BY <1>3 DEF IInv, Stage, Close
    <2>3. ASSUME NEW e \in Daemons PROVE Stage(e)'
      BY <1>3, <2>2, DaemonAssumption DEF IInv, TypeOK, Stage, Close, At, Opened
    <2>4. ASSUME NEW r \in Requests PROVE Runs(r)'
      BY <1>3 DEF IInv, Runs, Close
    <2> QED
      BY <2>1, <2>3, <2>4 DEF IInv
  <1> QED
    BY <1>1, <1>2, <1>3

\* A request that goes on or ends where it runs.
LEMMA RequestStep ==
    ASSUME IInv, NEW r \in Requests, NEW x \in Running \cup {None}, Becomes(r, x),
           x # None => stage[x.in] \in {"notify", "wait"} \/ (request[r] # None /\ x.in = request[r].in),
           client' \in [Daemons -> {"unset", "ok", "nil"}]
    PROVE  IInv'
  <1>1. TypeOK'
    BY DEF IInv, TypeOK, Becomes
  <1>2. ASSUME NEW q \in Requests PROVE Runs(q)'
    BY DEF IInv, TypeOK, Runs, Becomes
  <1> QED
    BY <1>1, <1>2 DEF IInv, Stage, Becomes

LEMMA ArriveStep ==
    ASSUME IInv, NEW r \in Requests, NEW d \in Daemons, Arrive(r, d) PROVE IInv'
  <1>1. PICK s \in Steps : Becomes(r, [in |-> d, at |-> s])
    BY DEF Arrive, Steps
  <1>2. [in |-> d, at |-> s] \in Running
    BY DEF Running
  <1>3. stage[d] \in {"notify", "wait"}
    BY DEF Arrive, IInv, Stage
  <1>4. client' \in [Daemons -> {"unset", "ok", "nil"}]
    BY DEF Arrive, IInv, TypeOK
  <1> QED
    BY <1>1, <1>2, <1>3, <1>4, RequestStep

LEMMA ServedStep ==
    ASSUME IInv, NEW r \in Requests, request[r] # None,
           Fetch(r) \/ Parse(r) \/ K8sOnce(r) \/ Auth(r) \/ Use(r)
    PROVE  IInv'
  <1>1. request[r] \in Running /\ request[r].in \in Daemons
    BY DEF IInv, TypeOK, Running
  <1>2. CASE Fatal(request[r].in)
    BY <1>1, <1>2, Dying, Faulting DEF Fatal
  <1>3. ASSUME NEW s \in Steps PROVE [request[r] EXCEPT !.at = s] \in Running
    BY <1>1 DEF Running
  <1>4. CASE /\ \E s \in Steps : Becomes(r, [request[r] EXCEPT !.at = s])
             /\ client' \in [Daemons -> {"unset", "ok", "nil"}]
    <2>1. PICK s \in Steps : Becomes(r, [request[r] EXCEPT !.at = s])
      BY <1>4
    <2>2. [request[r] EXCEPT !.at = s].in = request[r].in
      BY <1>1 DEF Running
    <2> QED
      BY <1>3, <1>4, <2>1, <2>2, RequestStep
  <1>5. CASE Becomes(r, None) /\ client' \in [Daemons -> {"unset", "ok", "nil"}]
    BY <1>5, RequestStep
  <1>6. CASE K8sOnce(r)
    <2> DEFINE d == request[r].in
    <2>1. PICK c \in {"ok", "nil"} \cup {client[d]} :
             /\ client' = [client EXCEPT ![d] = c]
             /\ Becomes(r, IF c = "ok" THEN [request[r] EXCEPT !.at = "put"] ELSE None)
      BY <1>6 DEF K8sOnce
    <2>2. client' \in [Daemons -> {"unset", "ok", "nil"}]
      BY <1>1, <2>1 DEF IInv, TypeOK
    <2>3. "put" \in Steps
      BY DEF Steps
    <2> QED
      BY <1>4, <1>5, <2>1, <2>2, <2>3
  <1>7. CASE Fetch(r) \/ Parse(r) \/ Auth(r) \/ Use(r)
    <2>1. UNCHANGED client => client' \in [Daemons -> {"unset", "ok", "nil"}]
      BY DEF IInv, TypeOK
    <2>2. {"parse", "client", "get"} \subseteq Steps
      BY DEF Steps
    <2> QED
      BY <1>2, <1>4, <1>5, <1>7, <2>1, <2>2 DEF Fetch, Parse, Auth, Use
  <1> QED
    BY <1>6, <1>7

-----------------------------------------------------------------------------

LEMMA Invariance == IInv /\ [Next]_vars => IInv'
  <1> SUFFICES ASSUME IInv, [Next]_vars PROVE IInv'
    OBVIOUS
  <1>1. ASSUME NEW d \in Daemons, Run(d) \/ Main(d) \/ Serve(d) \/ Signal(d) \/ Kill(d)
        PROVE  IInv'
    <2>1. CASE Kill(d)
      BY <2>1, Dying, Faulting DEF Kill, Fatal
    <2> QED
      BY <1>1, <2>1, StartStep, PrepareStep, OpenStep, ListenStep, ServeStep, SignalStep,
         QuitStep, StopStep DEF Main
  <1>2. ASSUME NEW r \in Requests,
               Step(r) \/ (request[r] # None /\ Fetch(r)) \/ \E d \in Daemons : Arrive(r, d)
        PROVE  IInv'
    BY <1>2, ServedStep, ArriveStep DEF Step
  <1>3. CASE UNCHANGED vars
    BY <1>3 DEF vars, IInv, TypeOK, Stage, Runs
  <1> QED
    BY <1>1, <1>2, <1>3 DEF Next

LEMMA Inductive == Spec => []IInv
  BY InitInv, Invariance, PTL DEF Spec

\* The channel never holds two signals and every handle is in a known state.
THEOREM DaemonTypes == Spec => []TypeOK
  <1>1. IInv => TypeOK
    BY DEF IInv
  <1> QED
    BY <1>1, Inductive, PTL

\* Whenever the processes are signalled or killed, and however many of either kind fight
\* over the directory: what serves has the database open, and has it alone.
THEOREM DatabaseOpenWhileServing == Spec => []NoUseAfterClose
  BY InvImplied, Inductive, PTL
=============================================================================
