------------------------------- MODULE Wallet -------------------------------
(***************************************************************************)
(* The wallets of a computing node: the keystore, a directory with one      *)
(* encrypted file per key (keystore/keystore.go), and the wallet named in   *)
(* config.toml (computing/config/config.go).                                *)
(*                                                                          *)
(* Each command of computing/app/http/cmd/wallet.go, and the start of the   *)
(* daemon, is an operating system process that loads the configuration and  *)
(* then works on the files call by call; nothing locks them.  A process may *)
(* be killed between two calls, and calls that write may fail.              *)
(*                                                                          *)
(* A key stands for its address.  An encrypted file is the password that    *)
(* decrypts it; the encryption (keystore/passphrase.go) is trusted.         *)
(***************************************************************************)
EXTENDS Naturals

CONSTANTS
    Procs,      \* commands that may run at one time
    Keys,
    Passwords,
    Shipped,    \* the wallet in config.toml before any command
    None,       \* no file
    MaxFaults,  \* bound: calls that fail
    MaxKills,   \* bound: processes killed
    MaxRuns     \* bound: commands started

VARIABLES
    files,      \* the password that decrypts the file of each key, or None
    temps,      \* keys with an abandoned temporary file
    config,     \* the wallet in config.toml, None after the file is truncated
    proc,       \* each process: its command, label and snapshot
    runs, faults, kills,
    removed,    \* history: keys deleted by a command
    unstored    \* history: keys whose Put did not get to its end

vars == <<files, temps, config, proc, runs, faults, kills, removed, unstored>>
bounds == <<runs, faults, kills>>

ASSUME WalletAssumption ==
    /\ Shipped \in Keys
    /\ None \notin Keys \cup Passwords
    /\ MaxFaults \in Nat /\ MaxKills \in Nat /\ MaxRuns \in Nat

Ops == {"init", "import", "use", "delete", "run"}

\* The calls of each command.
Calls(op) ==
    IF op \in {"init", "import"} THEN {"stat", "temp", "rename", "truncate", "encode"}
    ELSE IF op = "use" THEN {"exist", "truncate", "encode"}
    ELSE IF op = "delete" THEN {"get", "remove"}
    ELSE {"get"}

Labels == {"ended"} \cup UNION {Calls(op) : op \in Ops}

Idle == [pc |-> "ended", op |-> "run", key |-> Shipped, pw |-> None,
         alone |-> FALSE, out |-> "none"]

Init ==
    /\ files = [k \in Keys |-> None]
    /\ temps = {}
    /\ config = Shipped
    /\ proc = [p \in Procs |-> Idle]
    /\ runs = 0 /\ faults = 0 /\ kills = 0
    /\ removed = {} /\ unstored = {}

-----------------------------------------------------------------------------
(* A process. *)

Active(p) == proc[p].pc # "ended"
Goto(p, l) == proc' = [proc EXCEPT ![p].pc = l]
End(p, out) == proc' = [proc EXCEPT ![p].pc = "ended", ![p].out = out]

Fails ==
    /\ faults < MaxFaults
    /\ faults' = faults + 1
    /\ UNCHANGED <<runs, kills>>

\* The first label of each command.
Entry(op) ==
    IF op \in {"init", "import"} THEN "stat" ELSE IF op = "use" THEN "exist" ELSE "get"

\* Keys that op may be about: init draws a new one, run takes the configured one.
KeysOf(op) ==
    IF op = "init"
    THEN {k \in Keys \ {Shipped} : /\ files[k] = None /\ k \notin removed \cup unstored
                                   /\ \A p \in Procs : proc[p].key # k}
    ELSE IF op = "run" THEN {config}
    ELSE Keys

\* The process of a command starts, InitConfig loads config.toml.  A process runs
\* alone when no other one is active from its start to its end.
Start(p) ==
    /\ ~Active(p) /\ runs < MaxRuns
    /\ runs' = runs + 1
    /\ config # None
    /\ \E op \in Ops : \E k \in KeysOf(op), pw \in Passwords :
        proc' = [q \in Procs |->
                    IF q = p THEN [pc |-> Entry(op), op |-> op, key |-> k, pw |-> pw,
                                   alone |-> \A r \in Procs : ~Active(r), out |-> "none"]
                    ELSE [proc[q] EXCEPT !.alone = FALSE]]
    /\ UNCHANGED <<files, temps, config, faults, kills, removed, unstored>>

\* requiredFieldsAreGiven finds no field in an empty file: log.Fatal.
StartFails(p) ==
    /\ ~Active(p) /\ runs < MaxRuns
    /\ runs' = runs + 1
    /\ config = None
    /\ End(p, "fatal")
    /\ UNCHANGED <<files, temps, config, faults, kills, removed, unstored>>

-----------------------------------------------------------------------------
(* keyStore.Put, and what initCmd and importCmd do around it. *)

\* Mutant: an existing key is written again.
StatForgotten(p) ==
    /\ proc[p].pc = "stat"
    /\ Goto(p, "temp")
    /\ UNCHANGED <<files, temps, config, bounds, removed, unstored>>

\* A key that exists is left as it is, with no error.
Stat(p) ==
    /\ proc[p].pc = "stat"
    /\ Goto(p, IF files[proc[p].key] = None THEN "temp" ELSE "truncate")
    /\ UNCHANGED <<files, temps, config, bounds, removed, unstored>>

\* writeTemporaryKeyFile; a half-written file is removed.  The commands drop Put's error.
Temp(p) ==
    /\ proc[p].pc = "temp"
    /\ \/ Goto(p, "rename") /\ UNCHANGED <<bounds, unstored>>
       \/ Fails /\ Goto(p, "truncate") /\ unstored' = unstored \cup {proc[p].key}
    /\ UNCHANGED <<files, temps, config, removed>>

Rename(p) ==
    /\ proc[p].pc = "rename"
    /\ Goto(p, "truncate")
    /\ \/ files' = [files EXCEPT ![proc[p].key] = proc[p].pw] /\ UNCHANGED <<temps, bounds, unstored>>
       \/ Fails /\ temps' = temps \cup {proc[p].key}
                /\ unstored' = unstored \cup {proc[p].key} /\ UNCHANGED files
    /\ UNCHANGED <<config, removed>>

-----------------------------------------------------------------------------
(* WriteConf, the end of initCmd, importCmd and useCmd, which drop its error. *)

\* OpenFile with O_TRUNC.
Truncate(p) ==
    /\ proc[p].pc = "truncate"
    /\ \/ config' = None /\ Goto(p, "encode") /\ UNCHANGED bounds
       \/ Fails /\ End(p, "ok") /\ UNCHANGED config
    /\ UNCHANGED <<files, temps, removed, unstored>>

\* Mutant: the configuration is written back as it was loaded.
EncodeUnset(p) ==
    /\ proc[p].pc = "encode"
    /\ End(p, "ok")
    /\ config' = Shipped
    /\ UNCHANGED <<files, temps, bounds, removed, unstored>>

\* Addresses are equally long: a write over another one's leaves no rest of it.
Encode(p) ==
    /\ proc[p].pc = "encode"
    /\ End(p, "ok")
    /\ \/ config' = proc[p].key /\ UNCHANGED bounds
       \/ Fails /\ UNCHANGED config
    /\ UNCHANGED <<files, temps, removed, unstored>>

-----------------------------------------------------------------------------
(* useCmd, delCmd and the start of runCmd. *)

\* Mutant: the name is not looked for.
ExistForgotten(p) ==
    /\ proc[p].pc = "exist"
    /\ Goto(p, "truncate")
    /\ UNCHANGED <<files, temps, config, bounds, removed, unstored>>

\* Mutant: config.toml is opened for writing first.
ExistTooLate(p) ==
    /\ proc[p].pc = "exist"
    /\ config' = None
    /\ IF files[proc[p].key] # None THEN Goto(p, "encode") ELSE End(p, "error")
    /\ UNCHANGED <<files, temps, bounds, removed, unstored>>

\* Exist: the name is looked for in the directory, where temporary files have others.
Exist(p) ==
    /\ proc[p].pc = "exist"
    /\ IF files[proc[p].key] # None THEN Goto(p, "truncate") ELSE End(p, "error")
    /\ UNCHANGED <<files, temps, config, bounds, removed, unstored>>

\* Mutant: whatever decrypts is removed.
GetRemoves(p) ==
    /\ proc[p].pc = "get"
    /\ IF files[proc[p].key] # proc[p].pw THEN End(p, "error") ELSE Goto(p, "remove")
    /\ UNCHANGED <<files, temps, config, bounds, removed, unstored>>

\* Get: the file is read and decrypted.
Get(p) ==
    /\ proc[p].pc = "get"
    /\ IF files[proc[p].key] # proc[p].pw THEN End(p, "error")
       ELSE IF proc[p].op = "run" THEN End(p, "ok")
       ELSE Goto(p, "remove")
    /\ UNCHANGED <<files, temps, config, bounds, removed, unstored>>

Remove(p) ==
    /\ proc[p].pc = "remove"
    /\ \/ files[proc[p].key] # None
          /\ files' = [files EXCEPT ![proc[p].key] = None]
          /\ removed' = removed \cup {proc[p].key}
          /\ End(p, "ok") /\ UNCHANGED bounds
       \/ files[proc[p].key] = None
          /\ End(p, "error") /\ UNCHANGED <<files, removed, bounds>>
       \/ Fails /\ End(p, "error") /\ UNCHANGED <<files, removed>>
    /\ UNCHANGED <<temps, config, unstored>>

-----------------------------------------------------------------------------

\* The process is killed between two calls.
Kill(p) ==
    /\ Active(p) /\ kills < MaxKills
    /\ kills' = kills + 1
    /\ End(p, "killed")
    /\ temps' = IF proc[p].pc = "rename" THEN temps \cup {proc[p].key} ELSE temps
    /\ unstored' = IF proc[p].pc \in {"stat", "temp", "rename"}
                   THEN unstored \cup {proc[p].key} ELSE unstored
    /\ UNCHANGED <<files, config, runs, faults, removed>>

Step(p) ==
    Stat(p) \/ Temp(p) \/ Rename(p) \/ Truncate(p) \/ Encode(p) \/ Exist(p) \/ Get(p) \/ Remove(p)

Next == \E p \in Procs : Start(p) \/ StartFails(p) \/ Step(p) \/ Kill(p)

Spec == Init /\ [][Next]_vars

-----------------------------------------------------------------------------
(* Properties. *)

\* Types; a process is at a call of its own command.
TypeOK ==
    /\ files \in [Keys -> Passwords \cup {None}]
    /\ temps \subseteq Keys /\ removed \subseteq Keys /\ unstored \subseteq Keys
    /\ config \in Keys \cup {None}
    /\ proc \in [Procs -> [pc : Labels, op : Ops, key : Keys, pw : Passwords \cup {None},
                           alone : BOOLEAN, out : {"none", "ok", "error", "fatal", "killed"}]]
    /\ runs \in 0 .. MaxRuns /\ faults \in 0 .. MaxFaults /\ kills \in 0 .. MaxKills
    /\ \A p \in Procs : Active(p) => proc[p].pc \in Calls(proc[p].op) /\ proc[p].pw # None

\* config.toml is empty only while some command is about to write it, unless a
\* command was killed or could not write: concurrent commands cannot leave it so
\* (WriteConf truncates and encodes in two steps).
ConfigSurvives ==
    config = None => kills + faults > 0 \/ \E p \in Procs : proc[p].pc = "encode"

\* The wallet selected by a command has a key file, whatever commands run beside
\* it, unless the key was deleted or its own Put did not get to its end: the
\* daemon can start with the wallet the operator chose (Exist before WriteConf in
\* useCmd, Put before WriteConf in initCmd and importCmd).
SelectedIsStored ==
    config \in Keys \ {Shipped} =>
        files[config] # None \/ config \in removed \cup unstored

\* Without another command at work a stored key is never overwritten, and it is
\* removed only by a delete with the password it is stored under, also after kills
\* and failed writes at any point (Put looks before it renames, Delete decrypts).
Kept ==
    \A k \in Keys : files[k] # None /\ files'[k] # files[k] =>
        \A p \in Procs : proc[p].alone =>
            proc[p].pc = "remove" /\ proc[p].key = k /\ proc[p].pw = files[k]

KeysKept == [][Kept]_vars

\* What a command that ends without an error has brought about.
Promise(p) ==
    LET k == proc[p].key IN
    /\ proc[p].op \in {"init", "import", "use"} => files'[k] # None /\ config' = k
    /\ proc[p].op = "delete" => files'[k] = None
    /\ proc[p].op = "run" => files[k] = proc[p].pw

\* A command that was the only one at work and met no failing write keeps its
\* promise when it ends without an error, whatever was killed before it.
Acked ==
    \A p \in Procs :
        /\ proc[p].alone /\ Active(p)
        /\ proc'[p].pc = "ended" /\ proc'[p].out = "ok"
        /\ faults' = 0
        => Promise(p)

AckedCommand == [][Acked]_vars
=============================================================================
