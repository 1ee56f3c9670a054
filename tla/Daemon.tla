------------------------------- MODULE Daemon -------------------------------
(***************************************************************************)
(* The life of the two processes that open the gateway's database: the      *)
(* HTTP daemon (computing/app/http/cmd/daemon.go) and the gRPC server       *)
(* (computing/app/rpc/main.go), from their start to a signal, with the      *)
(* requests they are serving when it comes.                                 *)
(*                                                                          *)
(* A stage names what the main goroutine does next.  Requests run beside    *)
(* it; what they do to the cluster is the subject of Gateway, here it       *)
(* matters where they end the process, where they hang and where they use   *)
(* the database.  Operators, signals and the lock of the database's         *)
(* directory (flock, gone with its process) are external.                   *)
(***************************************************************************)
EXTENDS Naturals

CONSTANTS
    Http, Rpc,      \* processes of either kind
    Requests,
    MaxFaults,      \* bound: signals, kills and failures
    None

VARIABLES
    stage,      \* of each process
    web,        \* its listener: "none", "starting" or "listening"
    database,   \* its handle: "none", "open" or "closed"
    lock,       \* the process that holds the directory, or None
    quit,       \* signals in the channel
    client,     \* what k8sOnce made: "unset", "ok" or "nil"
    request,    \* each request: the process it runs in and its next step, or None
    signalled,  \* history: the process was told to stop
    faults

vars == <<stage, web, database, lock, quit, client, request, signalled, faults>>

Daemons == Http \cup Rpc

ASSUME DaemonAssumption ==
    /\ Http \cap Rpc = {}
    /\ None \notin Daemons
    /\ MaxFaults \in Nat

Stages == {"off", "key", "prover", "chain", "open", "listen", "notify", "wait", "drain", "close"}
Steps == {"fetch", "parse", "client", "auth", "put", "get"}
Running == [in : Daemons, at : Steps]

Init ==
    /\ stage = [d \in Daemons |-> "off"]
    /\ web = [d \in Daemons |-> "none"]
    /\ database = [d \in Daemons |-> "none"]
    /\ lock = None
    /\ quit = [d \in Daemons |-> 0]
    /\ client = [d \in Daemons |-> "unset"]
    /\ request = [r \in Requests |-> None]
    /\ signalled = [d \in Daemons |-> FALSE]
    /\ faults = 0

At(d, s) == stage[d] = s
Go(d, s) == stage' = [stage EXCEPT ![d] = s]

Serving(d) == {r \in Requests : request[r] # None /\ request[r].in = d}

\* Mutant: what locks the directory is left behind by its process.
DieLeavesLock(d) ==
    /\ Go(d, "off")
    /\ web' = [web EXCEPT ![d] = "none"]
    /\ database' = [database EXCEPT ![d] = "none"]
    /\ quit' = [quit EXCEPT ![d] = 0]
    /\ client' = [client EXCEPT ![d] = "unset"]
    /\ request' = [r \in Requests |-> IF r \in Serving(d) THEN None ELSE request[r]]
    /\ signalled' = [signalled EXCEPT ![d] = FALSE]
    /\ UNCHANGED lock

\* The process ends, wherever its goroutines are.
Die(d) ==
    /\ Go(d, "off")
    /\ web' = [web EXCEPT ![d] = "none"]
    /\ database' = [database EXCEPT ![d] = "none"]
    /\ lock' = IF lock = d THEN None ELSE lock
    /\ quit' = [quit EXCEPT ![d] = 0]
    /\ client' = [client EXCEPT ![d] = "unset"]
    /\ request' = [r \in Requests |-> IF r \in Serving(d) THEN None ELSE request[r]]
    /\ signalled' = [signalled EXCEPT ![d] = FALSE]

Fault == faults < MaxFaults /\ faults' = faults + 1
Fatal(d) == Fault /\ Die(d)

-----------------------------------------------------------------------------
(* Start. *)

\* computing-api daemon run, or the gRPC server, whose init opens the database at once.
Run(d) ==
    /\ At(d, "off")
    /\ Go(d, IF d \in Http THEN "key" ELSE "open")
    /\ UNCHANGED <<web, database, lock, quit, client, request, signalled, faults>>

\* The key of the configured wallet, the prover and the chain; each may end the process.
Prepare(d) ==
    \/ /\ \E s \in {<<"key", "prover">>, <<"prover", "chain">>, <<"chain", "open">>} :
            At(d, s[1]) /\ Go(d, s[2])
       /\ UNCHANGED <<web, database, lock, quit, client, request, signalled, faults>>
    \/ stage[d] \in {"key", "prover", "chain"} /\ Fatal(d)

\* NewComputingGateway panics when it cannot open the database.
Open(d) ==
    /\ At(d, "open")
    /\ \/ /\ lock = None
          /\ lock' = d /\ database' = [database EXCEPT ![d] = "open"]
          /\ Go(d, "listen")
          /\ UNCHANGED <<web, quit, client, request, signalled>>
       \/ lock # None /\ Die(d)
    /\ UNCHANGED faults

\* The server is started in a goroutine of its own.
Listen(d) ==
    /\ At(d, "listen")
    /\ Go(d, "notify")
    /\ web' = [web EXCEPT ![d] = "starting"]
    /\ UNCHANGED <<database, lock, quit, client, request, signalled, faults>>

\* It listens, at whatever stage the main goroutine is by then; or the address is in use.
Serve(d) ==
    /\ web[d] = "starting"
    /\ \/ /\ stage[d] \in {"notify", "wait"}
          /\ web' = [web EXCEPT ![d] = "listening"]
          /\ UNCHANGED <<stage, database, lock, quit, client, request, signalled, faults>>
       \/ Fatal(d)

Notify(d) ==
    /\ At(d, "notify")
    /\ Go(d, "wait")
    /\ UNCHANGED <<web, database, lock, quit, client, request, signalled, faults>>

-----------------------------------------------------------------------------
(* Stop. *)

\* Mutant: the channel has no limit.
SignalQueues(d) ==
    /\ ~At(d, "off") /\ Fault
    /\ IF stage[d] \in {"wait", "drain", "close"}
       THEN /\ quit' = [quit EXCEPT ![d] = @ + 1]
            /\ signalled' = [signalled EXCEPT ![d] = TRUE]
            /\ UNCHANGED <<stage, web, database, lock, client, request>>
       ELSE Die(d)

\* SIGINT or SIGTERM: before Notify it ends the process, then it goes into the channel,
\* which holds one; there is no one to read the next.
Signal(d) ==
    /\ ~At(d, "off") /\ Fault
    /\ IF stage[d] \in {"wait", "drain", "close"}
       THEN /\ quit' = [quit EXCEPT ![d] = 1]
            /\ signalled' = [signalled EXCEPT ![d] = TRUE]
            /\ UNCHANGED <<stage, web, database, lock, client, request>>
       ELSE Die(d)

\* <-quit; Shutdown and GracefulStop close the listener first.  A gRPC server that is
\* stopped before it serves fails to, for log.Fatalf.
Quit(d) ==
    /\ At(d, "wait") /\ quit[d] > 0
    /\ \/ /\ quit' = [quit EXCEPT ![d] = 0]
          /\ web' = [web EXCEPT ![d] = "none"]
          /\ Go(d, "drain")
          /\ UNCHANGED <<database, lock, client, request, signalled>>
       \/ d \in Rpc /\ web[d] = "starting" /\ Die(d)
    /\ UNCHANGED faults

\* Mutant: the server is closed without waiting for its requests.
DrainAtOnce(d) ==
    /\ At(d, "drain")
    /\ Go(d, "close")
    /\ UNCHANGED <<web, database, lock, quit, client, request, signalled, faults>>

\* Shutdown and GracefulStop return when no request is left ...
Drain(d) ==
    /\ At(d, "drain") /\ Serving(d) = {}
    /\ Go(d, "close")
    /\ UNCHANGED <<web, database, lock, quit, client, request, signalled, faults>>

\* Mutant: Shutdown has no deadline.
NoTimeout(d) == At(d, "drain") /\ d \notin Daemons /\ UNCHANGED vars

\* ... and Shutdown after ten seconds, for log.Fatal; GracefulStop has no deadline.
Timeout(d) ==
    /\ At(d, "drain") /\ d \in Http /\ Serving(d) # {}
    /\ Die(d)
    /\ UNCHANGED faults

\* gw.Close, deferred in the one and called in the other.
Close(d) ==
    /\ At(d, "close") /\ database[d] = "open"
    /\ database' = [database EXCEPT ![d] = "closed"]
    /\ lock' = None
    /\ UNCHANGED <<stage, web, quit, client, request, signalled, faults>>

Return(d) ==
    /\ At(d, "close") /\ database[d] = "closed"
    /\ Die(d)
    /\ UNCHANGED faults

\* kill -9, as bin/restart.sh does it.
Kill(d) == ~At(d, "off") /\ Fatal(d)

-----------------------------------------------------------------------------
(* Requests. *)

Becomes(r, x) ==
    /\ request' = [request EXCEPT ![r] = x]
    /\ UNCHANGED <<stage, web, database, lock, quit, signalled, faults>>

\* deployurl fetches a yaml, deployid reads a file, the others need an entrance; gRPC
\* asks CheckAuthInfo.
Arrive(r, d) ==
    /\ request[r] = None /\ web[d] = "listening"
    /\ \E s \in IF d \in Http THEN {"fetch", "parse", "get"} ELSE {"auth"} :
        Becomes(r, [in |-> d, at |-> s])
    /\ UNCHANGED client

\* ReadYamlUrl: whatever the address refers to, for as long as that takes.
Fetch(r) ==
    /\ request[r].at = "fetch"
    /\ Becomes(r, [request[r] EXCEPT !.at = "parse"]) \/ Becomes(r, None)
    /\ UNCHANGED client

\* A document that is no yaml ends the process; one that is no object panics, which gin
\* answers with a 500.
Parse(r) ==
    /\ request[r].at = "parse"
    /\ \/ /\ Becomes(r, [request[r] EXCEPT !.at = "client"]) \/ Becomes(r, None)
          /\ UNCHANGED client
       \/ Fatal(request[r].in)

\* The first request decides for the process whether there is a cluster; a nil client
\* panics in every later one.
K8sOnce(r) ==
    LET d == request[r].in IN
    /\ request[r].at = "client"
    /\ \E c \in IF client[d] = "unset" THEN {"ok", "nil"} ELSE {client[d]} :
        /\ client' = [client EXCEPT ![d] = c]
        /\ Becomes(r, IF c = "ok" THEN [request[r] EXCEPT !.at = "put"] ELSE None)

\* Process and Greet: without a signature only the code for tests passes.
Auth(r) ==
    /\ request[r].at = "auth"
    /\ Becomes(r, [request[r] EXCEPT !.at = "get"]) \/ Becomes(r, None)
    /\ UNCHANGED client

\* DB.Put or DB.Get, and the answer.
Use(r) ==
    /\ request[r].at \in {"put", "get"}
    /\ Becomes(r, None)
    /\ UNCHANGED client

-----------------------------------------------------------------------------

Main(d) ==
    \/ Prepare(d) \/ Open(d) \/ Listen(d) \/ Notify(d)
    \/ Quit(d) \/ Drain(d) \/ Timeout(d) \/ Close(d) \/ Return(d)

Step(r) == request[r] # None /\ (Parse(r) \/ K8sOnce(r) \/ Auth(r) \/ Use(r))

Next ==
    \/ \E d \in Daemons : Run(d) \/ Main(d) \/ Serve(d) \/ Signal(d) \/ Kill(d)
    \/ \E r \in Requests :
        Step(r) \/ (request[r] # None /\ Fetch(r)) \/ \E d \in Daemons : Arrive(r, d)

\* The Go scheduler runs every goroutine that can run, the ten seconds pass, and an
\* operator starts what is off.  A fetch may take for ever.
Fairness ==
    /\ \A d \in Daemons : WF_vars(Main(d)) /\ WF_vars(Serve(d)) /\ WF_vars(Run(d))
    /\ \A r \in Requests : WF_vars(Step(r))

Spec == Init /\ [][Next]_vars /\ Fairness

-----------------------------------------------------------------------------
(* Properties. *)

\* Types; the channel holds one signal.
TypeOK ==
    /\ stage \in [Daemons -> Stages]
    /\ web \in [Daemons -> {"none", "starting", "listening"}]
    /\ database \in [Daemons -> {"none", "open", "closed"}]
    /\ lock \in Daemons \cup {None}
    /\ quit \in [Daemons -> {0, 1}]
    /\ client \in [Daemons -> {"unset", "ok", "nil"}]
    /\ request \in [Requests -> Running \cup {None}]
    /\ signalled \in [Daemons -> BOOLEAN]
    /\ faults \in 0 .. MaxFaults

\* Whatever stage the process is in, a request that is being served has a database that
\* is open, and open in no other process: listening comes after opening, closing after
\* the last request (the order of the calls in runCmd, of its defer and in main).
NoUseAfterClose ==
    \A r \in Requests : request[r] # None =>
        database[request[r].in] = "open" /\ lock = request[r].in

\* A process that is told to stop does, whatever its requests are waiting for.
StopTerminates == \A d \in Daemons : signalled[d] ~> At(d, "off")

\* As long as what is off is started again, some gateway serves again and again, wherever
\* signals, kills and refused yamls have hit the last one.
Comeback == []<>(\E d \in Daemons : web[d] = "listening")
=============================================================================
