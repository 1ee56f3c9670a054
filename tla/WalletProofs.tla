---------------------------- MODULE WalletProofs ----------------------------
(***************************************************************************)
(* Proofs about Wallet, for any number of commands, keys, kills and faults. *)
(*                                                                          *)
(* The inductive invariant adds to the checked properties what a process    *)
(* knows at its label: Ready says that a command about to write config.toml *)
(* has a key to name in it, Solo what a command that runs alone has seen of *)
(* the key's file, and that it is indeed alone.                             *)
(***************************************************************************)
EXTENDS Wallet, TLAPS

\* A command that is about to write config.toml has a key file, or the key was
\* deleted meanwhile, or its own Put did not get to its end.
Ready ==
    \A p \in Procs : proc[p].pc \in {"truncate", "encode"} =>
        files[proc[p].key] # None \/ proc[p].key \in removed \cup unstored

\* What a command that is the only one at work knows of the file of its key.
Solo ==
    \A p \in Procs : proc[p].alone =>
        /\ \A q \in Procs \ {p} : ~Active(q)
        /\ proc[p].pc \in {"temp", "rename"} => files[proc[p].key] = None
        /\ proc[p].pc = "remove" => files[proc[p].key] = proc[p].pw
        /\ proc[p].pc \in {"truncate", "encode"} /\ faults = 0 => files[proc[p].key] # None

IInv == TypeOK /\ ConfigSurvives /\ SelectedIsStored /\ Ready /\ Solo

Outs == {"none", "ok", "error", "fatal", "killed"}
ProcType == [pc : Labels, op : Ops, key : Keys, pw : Passwords \cup {None},
             alone : BOOLEAN, out : Outs]

-----------------------------------------------------------------------------
(* The labels. *)

\* A command starts at a call of its own.
LEMMA EntryFacts ==
    ASSUME NEW op \in Ops
    PROVE  Entry(op) \in Calls(op) \cap {"stat", "exist", "get"}
BY DEF Entry, Calls, Ops

\* Which commands make a call.
LEMMA CallFacts ==
    ASSUME NEW op \in Ops, NEW l
    PROVE  l \in Calls(op) <=>
             \/ l \in {"stat", "temp", "rename"} /\ op \in {"init", "import"}
             \/ l \in {"truncate", "encode"} /\ op \in {"init", "import", "use"}
             \/ l = "exist" /\ op = "use"
             \/ l = "get" /\ op \in {"delete", "run"}
             \/ l = "remove" /\ op = "delete"
BY DEF Calls, Ops

LEMMA CallIsLabel == ASSUME NEW op \in Ops, NEW l \in Calls(op) PROVE l \in Labels
BY DEF Labels

LEMMA EndedLabel == "ended" \in Labels
BY DEF Labels

-----------------------------------------------------------------------------
(* The first state. *)

LEMMA InitOK == Init => IInv
<1> SUFFICES ASSUME Init PROVE IInv OBVIOUS
<1> USE DEF Init
<1>1. TypeOK BY WalletAssumption, EndedLabel DEF TypeOK, Idle, Ops, Active, bounds
<1>2. ConfigSurvives BY WalletAssumption DEF ConfigSurvives
<1>3. SelectedIsStored BY DEF SelectedIsStored
<1>4. Ready BY DEF Ready, Idle
<1>5. Solo BY DEF Solo, Idle
<1> QED BY <1>1, <1>2, <1>3, <1>4, <1>5 DEF IInv

-----------------------------------------------------------------------------
(* Steps of a process. *)

\* A process is a record of ProcType at a call of its command.
LEMMA ProcFacts ==
    ASSUME TypeOK, NEW p \in Procs
    PROVE  /\ proc \in [Procs -> ProcType] /\ proc[p] \in ProcType
           /\ proc[p].pc \in Labels /\ proc[p].op \in Ops /\ proc[p].key \in Keys
           /\ proc[p].pw \in Passwords \cup {None}
           /\ Active(p) => proc[p].pc \in Calls(proc[p].op) /\ proc[p].pw \in Passwords
BY DEF TypeOK, ProcType, Outs, Active

\* A step of p leaves the other processes alone, and the command of p as it is.
SameBut(p) ==
    /\ proc' \in [Procs -> ProcType]
    /\ \A q \in Procs : /\ q # p => proc'[q] = proc[q]
                        /\ proc'[q].op = proc[q].op /\ proc'[q].key = proc[q].key
                        /\ proc'[q].pw = proc[q].pw /\ proc'[q].alone = proc[q].alone
    /\ \A q \in Procs : Active(q)' => proc'[q].pc \in Calls(proc'[q].op) /\ proc'[q].pw # None

\* Goto changes the label of one process.
LEMMA GotoFacts ==
    ASSUME TypeOK, NEW p \in Procs, NEW l \in Calls(proc[p].op), Active(p), Goto(p, l)
    PROVE  /\ SameBut(p) /\ proc'[p].pc = l
           /\ \A q \in Procs : Active(q)' <=> Active(q)
<1>1. l \in Labels /\ l # "ended" BY ProcFacts, CallIsLabel, CallFacts
<1>2. proc \in [Procs -> ProcType] BY ProcFacts
<1>3. proc' = [proc EXCEPT ![p].pc = l] BY DEF Goto
<1>4. proc'[p] = [proc[p] EXCEPT !.pc = l] /\ \A q \in Procs \ {p} : proc'[q] = proc[q]
    BY <1>2, <1>3
<1>5. proc' \in [Procs -> ProcType] BY <1>1, <1>2, <1>3 DEF ProcType
<1>6. \A q \in Procs : /\ proc'[q].op = proc[q].op /\ proc'[q].key = proc[q].key
                       /\ proc'[q].pw = proc[q].pw /\ proc'[q].alone = proc[q].alone
    BY <1>2, <1>4 DEF ProcType
<1>7. proc'[p].pc = l BY <1>2, <1>4 DEF ProcType
<1>8. \A q \in Procs : Active(q)' <=> Active(q) BY <1>1, <1>4, <1>7 DEF Active
<1>9. \A q \in Procs : Active(q)' => proc'[q].pc \in Calls(proc'[q].op) /\ proc'[q].pw # None
    BY <1>4, <1>6, <1>7, <1>8 DEF TypeOK
<1> QED BY <1>4, <1>5, <1>6, <1>7, <1>8, <1>9 DEF SameBut

\* End ends one process.
LEMMA EndFacts ==
    ASSUME TypeOK, NEW p \in Procs, NEW out \in Outs, End(p, out)
    PROVE  /\ SameBut(p) /\ proc'[p].pc = "ended" /\ proc'[p].out = out
           /\ \A q \in Procs : Active(q)' <=> Active(q) /\ q # p
<1>2. proc \in [Procs -> ProcType] BY ProcFacts
<1>3. proc' = [proc EXCEPT ![p].pc = "ended", ![p].out = out] BY DEF End
<1>4. proc'[p] = [proc[p] EXCEPT !.pc = "ended", !.out = out]
      /\ \A q \in Procs \ {p} : proc'[q] = proc[q]
    BY <1>2, <1>3
<1>5. proc' \in [Procs -> ProcType] BY EndedLabel, <1>2, <1>3 DEF ProcType
<1> DEFINE r == [proc[p] EXCEPT !.pc = "ended"]
<1>a. proc[p] \in ProcType /\ r \in ProcType BY <1>2, EndedLabel DEF ProcType
<1>b. /\ r.op = proc[p].op /\ r.key = proc[p].key /\ r.pw = proc[p].pw
      /\ r.alone = proc[p].alone /\ r.pc = "ended"
    BY <1>a DEF ProcType
<1>c. proc'[p] = [r EXCEPT !.out = out] BY <1>4
<1> HIDE DEF r
<1>d. /\ proc'[p].op = r.op /\ proc'[p].key = r.key /\ proc'[p].pw = r.pw
      /\ proc'[p].alone = r.alone /\ proc'[p].pc = r.pc /\ proc'[p].out = out
    BY <1>a, <1>c DEF ProcType
<1>6. \A q \in Procs : /\ proc'[q].op = proc[q].op /\ proc'[q].key = proc[q].key
                       /\ proc'[q].pw = proc[q].pw /\ proc'[q].alone = proc[q].alone
    BY <1>4, <1>b, <1>d
<1>7. proc'[p].pc = "ended" /\ proc'[p].out = out BY <1>b, <1>d
<1>8. \A q \in Procs : Active(q)' <=> Active(q) /\ q # p BY <1>4, <1>7 DEF Active
<1>9. \A q \in Procs : Active(q)' => proc'[q].pc \in Calls(proc'[q].op) /\ proc'[q].pw # None
    BY <1>4, <1>8 DEF TypeOK
<1> QED BY <1>4, <1>5, <1>6, <1>7, <1>8, <1>9 DEF SameBut

-----------------------------------------------------------------------------
(* Each action keeps the invariant. *)

\* A process that runs alone is the one that takes a step.
LEMMA OnlyOneAlone ==
    ASSUME Solo, NEW p \in Procs, Active(p), NEW q \in Procs, proc[q].alone
    PROVE  q = p
BY DEF Solo

\* The key is looked for.
LEMMA StatOK == ASSUME IInv, NEW p \in Procs, Stat(p) PROVE IInv'
<1> USE DEF IInv
<1>1. /\ Active(p) /\ proc[p].pc \in Calls(proc[p].op) /\ proc[p].op \in Ops
      /\ proc[p].key \in Keys /\ proc[p].pw \in Passwords
    BY ProcFacts DEF Stat, Active
<1>2. CASE files[proc[p].key] = None
  <2>2. Goto(p, "temp") BY <1>2 DEF Stat
  <2>3. SameBut(p) /\ proc'[p].pc = "temp" /\ (\A q \in Procs : Active(q)' <=> Active(q))
      BY <1>1, <1>2, <2>2, GotoFacts, CallFacts DEF Stat
  <2>4. UNCHANGED <<files, temps, config, runs, faults, kills, removed, unstored>>
      BY <1>2 DEF Stat, bounds, Fails
  <2>5. TypeOK'
      BY <1>1, <1>2, <2>3, <2>4, WalletAssumption, EndedLabel
         DEF TypeOK, SameBut, ProcType, Outs
  <2>6. ConfigSurvives'
      BY <1>1, <1>2, <2>3, <2>4, WalletAssumption DEF ConfigSurvives, SameBut, TypeOK, Stat
  <2>7. SelectedIsStored'
      BY <1>1, <1>2, <2>3, <2>4, WalletAssumption DEF SelectedIsStored, Ready, TypeOK, Stat
  <2>8. Ready' BY <1>1, <1>2, <2>3, <2>4, WalletAssumption DEF Ready, SameBut, TypeOK, Stat
  <2>9. Solo'
      BY <1>1, <1>2, <2>3, <2>4, OnlyOneAlone, WalletAssumption DEF Solo, SameBut, TypeOK, Stat
  <2> QED BY <2>5, <2>6, <2>7, <2>8, <2>9
<1>3. CASE files[proc[p].key] # None
  <2>2. Goto(p, "truncate") BY <1>3 DEF Stat
  <2>3. SameBut(p) /\ proc'[p].pc = "truncate" /\ (\A q \in Procs : Active(q)' <=> Active(q))
      BY <1>1, <1>3, <2>2, GotoFacts, CallFacts DEF Stat
  <2>4. UNCHANGED <<files, temps, config, runs, faults, kills, removed, unstored>>
      BY <1>3 DEF Stat, bounds, Fails
  <2>5. TypeOK'
      BY <1>1, <1>3, <2>3, <2>4, WalletAssumption, EndedLabel
         DEF TypeOK, SameBut, ProcType, Outs
  <2>6. ConfigSurvives'
      BY <1>1, <1>3, <2>3, <2>4, WalletAssumption DEF ConfigSurvives, SameBut, TypeOK, Stat
  <2>7. SelectedIsStored'
      BY <1>1, <1>3, <2>3, <2>4, WalletAssumption DEF SelectedIsStored, Ready, TypeOK, Stat
  <2>8. Ready' BY <1>1, <1>3, <2>3, <2>4, WalletAssumption DEF Ready, SameBut, TypeOK, Stat
  <2>9. Solo'
      BY <1>1, <1>3, <2>3, <2>4, OnlyOneAlone, WalletAssumption DEF Solo, SameBut, TypeOK, Stat
  <2> QED BY <2>5, <2>6, <2>7, <2>8, <2>9
<1> QED BY <1>2, <1>3 DEF Stat

\* The temporary file is written, or not.
LEMMA TempOK == ASSUME IInv, NEW p \in Procs, Temp(p) PROVE IInv'
<1> USE DEF IInv
<1>1. /\ Active(p) /\ proc[p].pc \in Calls(proc[p].op) /\ proc[p].op \in Ops
      /\ proc[p].key \in Keys /\ proc[p].pw \in Passwords
    BY ProcFacts DEF Temp, Active
<1>2. CASE Goto(p, "rename") /\ UNCHANGED <<bounds, unstored>>
  <2>2. Goto(p, "rename") BY <1>2 DEF Temp
  <2>3. SameBut(p) /\ proc'[p].pc = "rename" /\ (\A q \in Procs : Active(q)' <=> Active(q))
      BY <1>1, <1>2, <2>2, GotoFacts, CallFacts DEF Temp
  <2>4. UNCHANGED <<files, temps, config, runs, faults, kills, removed, unstored>>
      BY <1>2 DEF Temp, bounds, Fails
  <2>5. TypeOK'
      BY <1>1, <1>2, <2>3, <2>4, WalletAssumption, EndedLabel
         DEF TypeOK, SameBut, ProcType, Outs
  <2>6. ConfigSurvives'
      BY <1>1, <1>2, <2>3, <2>4, WalletAssumption DEF ConfigSurvives, SameBut, TypeOK, Temp
  <2>7. SelectedIsStored'
      BY <1>1, <1>2, <2>3, <2>4, WalletAssumption DEF SelectedIsStored, Ready, TypeOK, Temp
  <2>8. Ready' BY <1>1, <1>2, <2>3, <2>4, WalletAssumption DEF Ready, SameBut, TypeOK, Temp
  <2>9. Solo'
      BY <1>1, <1>2, <2>3, <2>4, OnlyOneAlone, WalletAssumption DEF Solo, SameBut, TypeOK, Temp
  <2> QED BY <2>5, <2>6, <2>7, <2>8, <2>9
<1>3. CASE Fails /\ Goto(p, "truncate") /\ unstored' = unstored \cup {proc[p].key}
  <2>2. Goto(p, "truncate") BY <1>3 DEF Temp
  <2>3. SameBut(p) /\ proc'[p].pc = "truncate" /\ (\A q \in Procs : Active(q)' <=> Active(q))
      BY <1>1, <1>3, <2>2, GotoFacts, CallFacts DEF Temp
  <2>4. UNCHANGED <<files, temps, config, runs, kills, removed>> /\ faults' = faults + 1 /\ faults < MaxFaults
      BY <1>3 DEF Temp, bounds, Fails
  <2>5. TypeOK'
      BY <1>1, <1>3, <2>3, <2>4, WalletAssumption, EndedLabel
         DEF TypeOK, SameBut, ProcType, Outs
  <2>6. ConfigSurvives'
      BY <1>1, <1>3, <2>3, <2>4, WalletAssumption DEF ConfigSurvives, SameBut, TypeOK, Temp
  <2>7. SelectedIsStored'
      BY <1>1, <1>3, <2>3, <2>4, WalletAssumption DEF SelectedIsStored, Ready, TypeOK, Temp
  <2>8. Ready' BY <1>1, <1>3, <2>3, <2>4, WalletAssumption DEF Ready, SameBut, TypeOK, Temp
  <2>9. Solo'
      BY <1>1, <1>3, <2>3, <2>4, OnlyOneAlone, WalletAssumption DEF Solo, SameBut, TypeOK, Temp
  <2> QED BY <2>5, <2>6, <2>7, <2>8, <2>9
<1> QED BY <1>2, <1>3 DEF Temp

\* The key file appears, or the temporary file stays.
LEMMA RenameOK == ASSUME IInv, NEW p \in Procs, Rename(p) PROVE IInv'
<1> USE DEF IInv
<1>1. /\ Active(p) /\ proc[p].pc \in Calls(proc[p].op) /\ proc[p].op \in Ops
      /\ proc[p].key \in Keys /\ proc[p].pw \in Passwords
    BY ProcFacts DEF Rename, Active
<1>2. CASE files' = [files EXCEPT ![proc[p].key] = proc[p].pw] /\ UNCHANGED <<temps, bounds, unstored>>
  <2>2. Goto(p, "truncate") BY <1>2 DEF Rename
  <2>3. SameBut(p) /\ proc'[p].pc = "truncate" /\ (\A q \in Procs : Active(q)' <=> Active(q))
      BY <1>1, <1>2, <2>2, GotoFacts, CallFacts DEF Rename
  <2>4. UNCHANGED <<temps, config, runs, faults, kills, removed, unstored>>
      BY <1>2 DEF Rename, bounds, Fails
  <2>5. TypeOK'
      BY <1>1, <1>2, <2>3, <2>4, WalletAssumption, EndedLabel
         DEF TypeOK, SameBut, ProcType, Outs
  <2>6. ConfigSurvives'
      BY <1>1, <1>2, <2>3, <2>4, WalletAssumption DEF ConfigSurvives, SameBut, TypeOK, Rename
  <2>7. SelectedIsStored'
      BY <1>1, <1>2, <2>3, <2>4, WalletAssumption DEF SelectedIsStored, Ready, TypeOK, Rename
  <2>8. Ready' BY <1>1, <1>2, <2>3, <2>4, WalletAssumption DEF Ready, SameBut, TypeOK, Rename
  <2>9. Solo'
      BY <1>1, <1>2, <2>3, <2>4, OnlyOneAlone, WalletAssumption
         DEF Solo, SameBut, TypeOK, Rename
  <2> QED BY <2>5, <2>6, <2>7, <2>8, <2>9
<1>3. CASE Fails /\ temps' = temps \cup {proc[p].key} /\ unstored' = unstored \cup {proc[p].key} /\ UNCHANGED files
  <2>2. Goto(p, "truncate") BY <1>3 DEF Rename
  <2>3. SameBut(p) /\ proc'[p].pc = "truncate" /\ (\A q \in Procs : Active(q)' <=> Active(q))
      BY <1>1, <1>3, <2>2, GotoFacts, CallFacts DEF Rename
  <2>4. UNCHANGED <<files, config, runs, kills, removed>> /\ faults' = faults + 1 /\ faults < MaxFaults
      BY <1>3 DEF Rename, bounds, Fails
  <2>5. TypeOK'
      BY <1>1, <1>3, <2>3, <2>4, WalletAssumption, EndedLabel
         DEF TypeOK, SameBut, ProcType, Outs
  <2>6. ConfigSurvives'
      BY <1>1, <1>3, <2>3, <2>4, WalletAssumption DEF ConfigSurvives, SameBut, TypeOK, Rename
  <2>7. SelectedIsStored'
      BY <1>1, <1>3, <2>3, <2>4, WalletAssumption DEF SelectedIsStored, Ready, TypeOK, Rename
  <2>8. Ready' BY <1>1, <1>3, <2>3, <2>4, WalletAssumption DEF Ready, SameBut, TypeOK, Rename
  <2>9. Solo'
      BY <1>1, <1>3, <2>3, <2>4, OnlyOneAlone, WalletAssumption
         DEF Solo, SameBut, TypeOK, Rename
  <2> QED BY <2>5, <2>6, <2>7, <2>8, <2>9
<1> QED BY <1>2, <1>3 DEF Rename

\* The configuration is emptied, or the command ends.
LEMMA TruncateOK == ASSUME IInv, NEW p \in Procs, Truncate(p) PROVE IInv'
<1> USE DEF IInv
<1>1. /\ Active(p) /\ proc[p].pc \in Calls(proc[p].op) /\ proc[p].op \in Ops
      /\ proc[p].key \in Keys /\ proc[p].pw \in Passwords
    BY ProcFacts DEF Truncate, Active
<1>2. CASE config' = None /\ Goto(p, "encode") /\ UNCHANGED bounds
  <2>2. Goto(p, "encode") BY <1>2 DEF Truncate
  <2>3. SameBut(p) /\ proc'[p].pc = "encode" /\ (\A q \in Procs : Active(q)' <=> Active(q))
      BY <1>1, <1>2, <2>2, GotoFacts, CallFacts DEF Truncate
  <2>4. UNCHANGED <<files, temps, runs, faults, kills, removed, unstored>>
      BY <1>2 DEF Truncate, bounds, Fails
  <2>5. TypeOK'
      BY <1>1, <1>2, <2>3, <2>4, WalletAssumption, EndedLabel
         DEF TypeOK, SameBut, ProcType, Outs
  <2>6. ConfigSurvives'
      BY <1>1, <1>2, <2>3, <2>4, WalletAssumption DEF ConfigSurvives, SameBut, TypeOK, Truncate
  <2>7. SelectedIsStored'
      BY <1>1, <1>2, <2>3, <2>4, WalletAssumption DEF SelectedIsStored, Ready, TypeOK, Truncate
  <2>8. Ready' BY <1>1, <1>2, <2>3, <2>4, WalletAssumption DEF Ready, SameBut, TypeOK, Truncate
  <2>9. Solo'
      BY <1>1, <1>2, <2>3, <2>4, OnlyOneAlone, WalletAssumption
         DEF Solo, SameBut, TypeOK, Truncate
  <2> QED BY <2>5, <2>6, <2>7, <2>8, <2>9
<1>3. CASE Fails /\ End(p, "ok") /\ UNCHANGED config
  <2>2. End(p, "ok") BY <1>3 DEF Truncate
  <2>3. SameBut(p) /\ proc'[p].pc = "ended" /\ (\A q \in Procs : Active(q)' <=> Active(q) /\ q # p)
      BY <2>2, EndFacts DEF Outs
  <2>4. UNCHANGED <<files, temps, config, runs, kills, removed, unstored>> /\ faults' = faults + 1 /\ faults < MaxFaults
      BY <1>3 DEF Truncate, bounds, Fails
  <2>5. TypeOK'
      BY <1>1, <1>3, <2>3, <2>4, WalletAssumption, EndedLabel
         DEF TypeOK, SameBut, ProcType, Outs
  <2>6. ConfigSurvives'
      BY <1>1, <1>3, <2>3, <2>4, WalletAssumption DEF ConfigSurvives, SameBut, TypeOK, Truncate
  <2>7. SelectedIsStored'
      BY <1>1, <1>3, <2>3, <2>4, WalletAssumption DEF SelectedIsStored, Ready, TypeOK, Truncate
  <2>8. Ready' BY <1>1, <1>3, <2>3, <2>4, WalletAssumption DEF Ready, SameBut, TypeOK, Truncate
  <2>9. Solo'
      BY <1>1, <1>3, <2>3, <2>4, OnlyOneAlone, WalletAssumption
         DEF Solo, SameBut, TypeOK, Truncate
  <2> QED BY <2>5, <2>6, <2>7, <2>8, <2>9
<1> QED BY <1>2, <1>3 DEF Truncate

\* The configuration names the key, or stays empty.
LEMMA EncodeOK == ASSUME IInv, NEW p \in Procs, Encode(p) PROVE IInv'
<1> USE DEF IInv
<1>1. /\ Active(p) /\ proc[p].pc \in Calls(proc[p].op) /\ proc[p].op \in Ops
      /\ proc[p].key \in Keys /\ proc[p].pw \in Passwords
    BY ProcFacts DEF Encode, Active
<1>2. CASE config' = proc[p].key /\ UNCHANGED bounds
  <2>2. End(p, "ok") BY <1>2 DEF Encode
  <2>3. SameBut(p) /\ proc'[p].pc = "ended" /\ (\A q \in Procs : Active(q)' <=> Active(q) /\ q # p)
      BY <2>2, EndFacts DEF Outs
  <2>4. UNCHANGED <<files, temps, runs, faults, kills, removed, unstored>>
      BY <1>2 DEF Encode, bounds, Fails
  <2>5. TypeOK'
      BY <1>1, <1>2, <2>3, <2>4, WalletAssumption, EndedLabel
         DEF TypeOK, SameBut, ProcType, Outs
  <2>6. ConfigSurvives'
      BY <1>1, <1>2, <2>3, <2>4, WalletAssumption DEF ConfigSurvives, SameBut, TypeOK, Encode
  <2>7. SelectedIsStored'
      BY <1>1, <1>2, <2>3, <2>4, WalletAssumption DEF SelectedIsStored, Ready, TypeOK, Encode
  <2>8. Ready' BY <1>1, <1>2, <2>3, <2>4, WalletAssumption DEF Ready, SameBut, TypeOK, Encode
  <2>9. Solo'
      BY <1>1, <1>2, <2>3, <2>4, OnlyOneAlone, WalletAssumption
         DEF Solo, SameBut, TypeOK, Encode
  <2> QED BY <2>5, <2>6, <2>7, <2>8, <2>9
<1>3. CASE Fails /\ UNCHANGED config
  <2>2. End(p, "ok") BY <1>3 DEF Encode
  <2>3. SameBut(p) /\ proc'[p].pc = "ended" /\ (\A q \in Procs : Active(q)' <=> Active(q) /\ q # p)
      BY <2>2, EndFacts DEF Outs
  <2>4. UNCHANGED <<files, temps, config, runs, kills, removed, unstored>> /\ faults' = faults + 1 /\ faults < MaxFaults
      BY <1>3 DEF Encode, bounds, Fails
  <2>5. TypeOK'
      BY <1>1, <1>3, <2>3, <2>4, WalletAssumption, EndedLabel
         DEF TypeOK, SameBut, ProcType, Outs
  <2>6. ConfigSurvives'
      BY <1>1, <1>3, <2>3, <2>4, WalletAssumption DEF ConfigSurvives, SameBut, TypeOK, Encode
  <2>7. SelectedIsStored'
      BY <1>1, <1>3, <2>3, <2>4, WalletAssumption DEF SelectedIsStored, Ready, TypeOK, Encode
  <2>8. Ready' BY <1>1, <1>3, <2>3, <2>4, WalletAssumption DEF Ready, SameBut, TypeOK, Encode
  <2>9. Solo'
      BY <1>1, <1>3, <2>3, <2>4, OnlyOneAlone, WalletAssumption
         DEF Solo, SameBut, TypeOK, Encode
  <2> QED BY <2>5, <2>6, <2>7, <2>8, <2>9
<1> QED BY <1>2, <1>3 DEF Encode

\* The name is found, or not.
LEMMA ExistOK == ASSUME IInv, NEW p \in Procs, Exist(p) PROVE IInv'
<1> USE DEF IInv
<1>1. /\ Active(p) /\ proc[p].pc \in Calls(proc[p].op) /\ proc[p].op \in Ops
      /\ proc[p].key \in Keys /\ proc[p].pw \in Passwords
    BY ProcFacts DEF Exist, Active
<1>2. CASE files[proc[p].key] # None
  <2>2. Goto(p, "truncate") BY <1>2 DEF Exist
  <2>3. SameBut(p) /\ proc'[p].pc = "truncate" /\ (\A q \in Procs : Active(q)' <=> Active(q))
      BY <1>1, <1>2, <2>2, GotoFacts, CallFacts DEF Exist
  <2>4. UNCHANGED <<files, temps, config, runs, faults, kills, removed, unstored>>
      BY <1>2 DEF Exist, bounds, Fails
  <2>5. TypeOK'
      BY <1>1, <1>2, <2>3, <2>4, WalletAssumption, EndedLabel
         DEF TypeOK, SameBut, ProcType, Outs
  <2>6. ConfigSurvives'
      BY <1>1, <1>2, <2>3, <2>4, WalletAssumption DEF ConfigSurvives, SameBut, TypeOK, Exist
  <2>7. SelectedIsStored'
      BY <1>1, <1>2, <2>3, <2>4, WalletAssumption DEF SelectedIsStored, Ready, TypeOK, Exist
  <2>8. Ready' BY <1>1, <1>2, <2>3, <2>4, WalletAssumption DEF Ready, SameBut, TypeOK, Exist
  <2>9. Solo'
      BY <1>1, <1>2, <2>3, <2>4, OnlyOneAlone, WalletAssumption
         DEF Solo, SameBut, TypeOK, Exist
  <2> QED BY <2>5, <2>6, <2>7, <2>8, <2>9
<1>3. CASE files[proc[p].key] = None
  <2>2. End(p, "error") BY <1>3 DEF Exist
  <2>3. SameBut(p) /\ proc'[p].pc = "ended" /\ (\A q \in Procs : Active(q)' <=> Active(q) /\ q # p)
      BY <2>2, EndFacts DEF Outs
  <2>4. UNCHANGED <<files, temps, config, runs, faults, kills, removed, unstored>>
      BY <1>3 DEF Exist, bounds, Fails
  <2>5. TypeOK'
      BY <1>1, <1>3, <2>3, <2>4, WalletAssumption, EndedLabel
         DEF TypeOK, SameBut, ProcType, Outs
  <2>6. ConfigSurvives'
      BY <1>1, <1>3, <2>3, <2>4, WalletAssumption DEF ConfigSurvives, SameBut, TypeOK, Exist
  <2>7. SelectedIsStored'
      BY <1>1, <1>3, <2>3, <2>4, WalletAssumption DEF SelectedIsStored, Ready, TypeOK, Exist
  <2>8. Ready' BY <1>1, <1>3, <2>3, <2>4, WalletAssumption DEF Ready, SameBut, TypeOK, Exist
  <2>9. Solo'
      BY <1>1, <1>3, <2>3, <2>4, OnlyOneAlone, WalletAssumption
         DEF Solo, SameBut, TypeOK, Exist
  <2> QED BY <2>5, <2>6, <2>7, <2>8, <2>9
<1> QED BY <1>2, <1>3 DEF Exist

\* The file decrypts for a delete or for the daemon, or does not.
LEMMA GetOK == ASSUME IInv, NEW p \in Procs, Get(p) PROVE IInv'
<1> USE DEF IInv
<1>1. /\ Active(p) /\ proc[p].pc \in Calls(proc[p].op) /\ proc[p].op \in Ops
      /\ proc[p].key \in Keys /\ proc[p].pw \in Passwords
    BY ProcFacts DEF Get, Active
<1>2. CASE files[proc[p].key] # proc[p].pw
  <2>2. End(p, "error") BY <1>2 DEF Get
  <2>3. SameBut(p) /\ proc'[p].pc = "ended" /\ (\A q \in Procs : Active(q)' <=> Active(q) /\ q # p)
      BY <2>2, EndFacts DEF Outs
  <2>4. UNCHANGED <<files, temps, config, runs, faults, kills, removed, unstored>>
      BY <1>2 DEF Get, bounds, Fails
  <2>5. TypeOK'
      BY <1>1, <1>2, <2>3, <2>4, WalletAssumption, EndedLabel
         DEF TypeOK, SameBut, ProcType, Outs
  <2>6. ConfigSurvives'
      BY <1>1, <1>2, <2>3, <2>4, WalletAssumption DEF ConfigSurvives, SameBut, TypeOK, Get
  <2>7. SelectedIsStored'
      BY <1>1, <1>2, <2>3, <2>4, WalletAssumption DEF SelectedIsStored, Ready, TypeOK, Get
  <2>8. Ready' BY <1>1, <1>2, <2>3, <2>4, WalletAssumption DEF Ready, SameBut, TypeOK, Get
  <2>9. Solo'
      BY <1>1, <1>2, <2>3, <2>4, OnlyOneAlone, WalletAssumption DEF Solo, SameBut, TypeOK, Get
  <2> QED BY <2>5, <2>6, <2>7, <2>8, <2>9
<1>3. CASE files[proc[p].key] = proc[p].pw /\ proc[p].op = "run"
  <2>2. End(p, "ok") BY <1>3 DEF Get
  <2>3. SameBut(p) /\ proc'[p].pc = "ended" /\ (\A q \in Procs : Active(q)' <=> Active(q) /\ q # p)
      BY <2>2, EndFacts DEF Outs
  <2>4. UNCHANGED <<files, temps, config, runs, faults, kills, removed, unstored>>
      BY <1>3 DEF Get, bounds, Fails
  <2>5. TypeOK'
      BY <1>1, <1>3, <2>3, <2>4, WalletAssumption, EndedLabel
         DEF TypeOK, SameBut, ProcType, Outs
  <2>6. ConfigSurvives'
      BY <1>1, <1>3, <2>3, <2>4, WalletAssumption DEF ConfigSurvives, SameBut, TypeOK, Get
  <2>7. SelectedIsStored'
      BY <1>1, <1>3, <2>3, <2>4, WalletAssumption DEF SelectedIsStored, Ready, TypeOK, Get
  <2>8. Ready' BY <1>1, <1>3, <2>3, <2>4, WalletAssumption DEF Ready, SameBut, TypeOK, Get
  <2>9. Solo'
      BY <1>1, <1>3, <2>3, <2>4, OnlyOneAlone, WalletAssumption DEF Solo, SameBut, TypeOK, Get
  <2> QED BY <2>5, <2>6, <2>7, <2>8, <2>9
<1>4. CASE files[proc[p].key] = proc[p].pw /\ proc[p].op = "delete"
  <2>2. Goto(p, "remove") BY <1>4 DEF Get
  <2>3. SameBut(p) /\ proc'[p].pc = "remove" /\ (\A q \in Procs : Active(q)' <=> Active(q))
      BY <1>1, <1>4, <2>2, GotoFacts, CallFacts DEF Get
  <2>4. UNCHANGED <<files, temps, config, runs, faults, kills, removed, unstored>>
      BY <1>4 DEF Get, bounds, Fails
  <2>5. TypeOK'
      BY <1>1, <1>4, <2>3, <2>4, WalletAssumption, EndedLabel
         DEF TypeOK, SameBut, ProcType, Outs
  <2>6. ConfigSurvives'
      BY <1>1, <1>4, <2>3, <2>4, WalletAssumption DEF ConfigSurvives, SameBut, TypeOK, Get
  <2>7. SelectedIsStored'
      BY <1>1, <1>4, <2>3, <2>4, WalletAssumption DEF SelectedIsStored, Ready, TypeOK, Get
  <2>8. Ready' BY <1>1, <1>4, <2>3, <2>4, WalletAssumption DEF Ready, SameBut, TypeOK, Get
  <2>9. Solo'
      BY <1>1, <1>4, <2>3, <2>4, OnlyOneAlone, WalletAssumption DEF Solo, SameBut, TypeOK, Get
  <2> QED BY <2>5, <2>6, <2>7, <2>8, <2>9
<1> QED BY <1>2, <1>3, <1>4, <1>1, CallFacts DEF Get

\* The file is removed, was gone, or stays.
LEMMA RemoveOK == ASSUME IInv, NEW p \in Procs, Remove(p) PROVE IInv'
<1> USE DEF IInv
<1>1. /\ Active(p) /\ proc[p].pc \in Calls(proc[p].op) /\ proc[p].op \in Ops
      /\ proc[p].key \in Keys /\ proc[p].pw \in Passwords
    BY ProcFacts DEF Remove, Active
<1>2. CASE /\ files' = [files EXCEPT ![proc[p].key] = None] /\ removed' = removed \cup {proc[p].key}
                 /\ End(p, "ok") /\ UNCHANGED bounds
  <2>2. End(p, "ok") BY <1>2 DEF Remove
  <2>3. SameBut(p) /\ proc'[p].pc = "ended" /\ (\A q \in Procs : Active(q)' <=> Active(q) /\ q # p)
      BY <2>2, EndFacts DEF Outs
  <2>4. UNCHANGED <<temps, config, runs, faults, kills, unstored>>
      BY <1>2 DEF Remove, bounds, Fails
  <2>5. TypeOK'
      BY <1>1, <1>2, <2>3, <2>4, WalletAssumption, EndedLabel
         DEF TypeOK, SameBut, ProcType, Outs
  <2>6. ConfigSurvives'
      BY <1>1, <1>2, <2>3, <2>4, WalletAssumption DEF ConfigSurvives, SameBut, TypeOK, Remove
  <2>7. SelectedIsStored'
      BY <1>1, <1>2, <2>3, <2>4, WalletAssumption DEF SelectedIsStored, Ready, TypeOK, Remove
  <2>8. Ready' BY <1>1, <1>2, <2>3, <2>4, WalletAssumption DEF Ready, SameBut, TypeOK, Remove
  <2>9. Solo'
      BY <1>1, <1>2, <2>3, <2>4, OnlyOneAlone, WalletAssumption
         DEF Solo, SameBut, TypeOK, Remove
  <2> QED BY <2>5, <2>6, <2>7, <2>8, <2>9
<1>3. CASE End(p, "error") /\ UNCHANGED <<files, removed, bounds>>
  <2>2. End(p, "error") BY <1>3 DEF Remove
  <2>3. SameBut(p) /\ proc'[p].pc = "ended" /\ (\A q \in Procs : Active(q)' <=> Active(q) /\ q # p)
      BY <2>2, EndFacts DEF Outs
  <2>4. UNCHANGED <<files, temps, config, runs, faults, kills, removed, unstored>>
      BY <1>3 DEF Remove, bounds, Fails
  <2>5. TypeOK'
      BY <1>1, <1>3, <2>3, <2>4, WalletAssumption, EndedLabel
         DEF TypeOK, SameBut, ProcType, Outs
  <2>6. ConfigSurvives'
      BY <1>1, <1>3, <2>3, <2>4, WalletAssumption DEF ConfigSurvives, SameBut, TypeOK, Remove
  <2>7. SelectedIsStored'
      BY <1>1, <1>3, <2>3, <2>4, WalletAssumption DEF SelectedIsStored, Ready, TypeOK, Remove
  <2>8. Ready' BY <1>1, <1>3, <2>3, <2>4, WalletAssumption DEF Ready, SameBut, TypeOK, Remove
  <2>9. Solo'
      BY <1>1, <1>3, <2>3, <2>4, OnlyOneAlone, WalletAssumption
         DEF Solo, SameBut, TypeOK, Remove
  <2> QED BY <2>5, <2>6, <2>7, <2>8, <2>9
<1>4. CASE Fails /\ End(p, "error") /\ UNCHANGED <<files, removed>>
  <2>2. End(p, "error") BY <1>4 DEF Remove
  <2>3. SameBut(p) /\ proc'[p].pc = "ended" /\ (\A q \in Procs : Active(q)' <=> Active(q) /\ q # p)
      BY <2>2, EndFacts DEF Outs
  <2>4. UNCHANGED <<files, temps, config, runs, kills, removed, unstored>> /\ faults' = faults + 1 /\ faults < MaxFaults
      BY <1>4 DEF Remove, bounds, Fails
  <2>5. TypeOK'
      BY <1>1, <1>4, <2>3, <2>4, WalletAssumption, EndedLabel
         DEF TypeOK, SameBut, ProcType, Outs
  <2>6. ConfigSurvives'
      BY <1>1, <1>4, <2>3, <2>4, WalletAssumption DEF ConfigSurvives, SameBut, TypeOK, Remove
  <2>7. SelectedIsStored'
      BY <1>1, <1>4, <2>3, <2>4, WalletAssumption DEF SelectedIsStored, Ready, TypeOK, Remove
  <2>8. Ready' BY <1>1, <1>4, <2>3, <2>4, WalletAssumption DEF Ready, SameBut, TypeOK, Remove
  <2>9. Solo'
      BY <1>1, <1>4, <2>3, <2>4, OnlyOneAlone, WalletAssumption
         DEF Solo, SameBut, TypeOK, Remove
  <2> QED BY <2>5, <2>6, <2>7, <2>8, <2>9
<1> QED BY <1>2, <1>3, <1>4 DEF Remove

\* A command starts, and whatever ran before does not run alone any more.
LEMMA StartOK == ASSUME IInv, NEW p \in Procs, Start(p) PROVE IInv'
<1> USE DEF IInv
<1>1. PICK op \in Ops : \E k \in KeysOf(op), pw \in Passwords :
        proc' = [q \in Procs |->
                    IF q = p THEN [pc |-> Entry(op), op |-> op, key |-> k, pw |-> pw,
                                   alone |-> \A r \in Procs : ~Active(r), out |-> "none"]
                    ELSE [proc[q] EXCEPT !.alone = FALSE]]
    BY DEF Start
<1>2. PICK k \in KeysOf(op), pw \in Passwords :
        proc' = [q \in Procs |->
                    IF q = p THEN [pc |-> Entry(op), op |-> op, key |-> k, pw |-> pw,
                                   alone |-> \A r \in Procs : ~Active(r), out |-> "none"]
                    ELSE [proc[q] EXCEPT !.alone = FALSE]]
    BY <1>1
<1>3. k \in Keys BY DEF KeysOf, Start, TypeOK
<1>4. Entry(op) \in Calls(op) /\ Entry(op) \in {"stat", "exist", "get"} /\ Entry(op) \in Labels
    BY EntryFacts, CallIsLabel
<1>5. UNCHANGED <<files, temps, config, faults, kills, removed, unstored>>
      /\ runs' = runs + 1 /\ runs < MaxRuns
    BY DEF Start
<1> DEFINE new == [pc |-> Entry(op), op |-> op, key |-> k, pw |-> pw,
                   alone |-> \A r \in Procs : ~Active(r), out |-> "none"]
<1>6. /\ proc'[p] = new
      /\ \A q \in Procs \ {p} : proc'[q] = [proc[q] EXCEPT !.alone = FALSE]
    BY <1>2
<1>7. \A q \in Procs \ {p} :
        /\ proc'[q] \in ProcType /\ proc'[q].alone = FALSE
        /\ proc'[q].pc = proc[q].pc /\ proc'[q].op = proc[q].op /\ proc'[q].key = proc[q].key
        /\ proc'[q].pw = proc[q].pw
    BY <1>6, ProcFacts DEF ProcType
<1>8. new \in ProcType BY <1>3, <1>4 DEF ProcType, Outs
<1>9. proc' \in [Procs -> ProcType]
  <2>1. \A q \in Procs : proc'[q] \in ProcType BY <1>6, <1>7, <1>8
  <2>2. proc' = [q \in Procs |-> proc'[q]] BY <1>2
  <2> QED BY <2>1, <2>2
<1>10. /\ proc'[p].pc \in {"stat", "exist", "get"} /\ proc'[p].pc \in Calls(proc'[p].op)
       /\ proc'[p].pw \in Passwords
       /\ proc'[p].alone => \A r \in Procs : ~Active(r)
    BY <1>4, <1>6
<1>11. TypeOK'
  <2>1. \A q \in Procs : Active(q)' => proc'[q].pc \in Calls(proc'[q].op) /\ proc'[q].pw # None
      BY <1>7, <1>10, WalletAssumption DEF TypeOK, Active
  <2> QED BY <1>5, <1>9, <2>1, WalletAssumption DEF TypeOK, ProcType, Outs
<1>12. ConfigSurvives' BY <1>5 DEF ConfigSurvives, Start
<1>13. SelectedIsStored' BY <1>5 DEF SelectedIsStored
<1>14. Ready' BY <1>5, <1>7, <1>10 DEF Ready
<1>15. Solo' BY <1>5, <1>7, <1>10 DEF Solo, Active
<1> QED BY <1>11, <1>12, <1>13, <1>14, <1>15

\* A command does not get past an empty configuration.
LEMMA StartFailsOK == ASSUME IInv, NEW p \in Procs, StartFails(p) PROVE IInv'
<1> USE DEF IInv
<1>1. ~Active(p) /\ End(p, "fatal") BY DEF StartFails
<1>2. SameBut(p) /\ proc'[p].pc = "ended" /\ (\A q \in Procs : Active(q)' <=> Active(q) /\ q # p)
    BY <1>1, EndFacts DEF Outs
<1>3. UNCHANGED <<files, temps, config, faults, kills, removed, unstored>>
      /\ runs' = runs + 1 /\ runs < MaxRuns
    BY DEF StartFails
<1>4. TypeOK' BY <1>2, <1>3, WalletAssumption DEF TypeOK, SameBut, ProcType, Outs
<1>5. ConfigSurvives' BY <1>1, <1>2, <1>3 DEF ConfigSurvives, SameBut, Active
<1>6. SelectedIsStored' BY <1>3 DEF SelectedIsStored
<1>7. Ready' BY <1>2, <1>3 DEF Ready, SameBut
<1>8. Solo' BY <1>1, <1>2, <1>3 DEF Solo, SameBut
<1> QED BY <1>4, <1>5, <1>6, <1>7, <1>8

\* A killed command leaves the files as they are.
LEMMA KillOK == ASSUME IInv, NEW p \in Procs, Kill(p) PROVE IInv'
<1> USE DEF IInv
<1>1. Active(p) /\ End(p, "killed") /\ proc[p].key \in Keys BY ProcFacts DEF Kill
<1>2. SameBut(p) /\ proc'[p].pc = "ended" /\ (\A q \in Procs : Active(q)' <=> Active(q) /\ q # p)
    BY <1>1, EndFacts DEF Outs
<1>3. /\ UNCHANGED <<files, config, runs, faults, removed>>
      /\ kills' = kills + 1 /\ kills < MaxKills
      /\ temps' \in {temps, temps \cup {proc[p].key}}
      /\ unstored' \in {unstored, unstored \cup {proc[p].key}}
    BY DEF Kill
<1>4. TypeOK' BY <1>1, <1>2, <1>3, WalletAssumption DEF TypeOK, SameBut, ProcType, Outs
<1>5. ConfigSurvives' BY <1>3, WalletAssumption DEF ConfigSurvives, TypeOK
<1>6. SelectedIsStored' BY <1>3 DEF SelectedIsStored
<1>7. Ready' BY <1>2, <1>3 DEF Ready, SameBut
<1>8. Solo' BY <1>1, <1>2, <1>3, OnlyOneAlone DEF Solo, SameBut
<1> QED BY <1>4, <1>5, <1>6, <1>7, <1>8

-----------------------------------------------------------------------------
(* The theorems. *)

LEMMA NextOK == ASSUME IInv, [Next]_vars PROVE IInv'
<1>1. CASE UNCHANGED vars
   
        BY <1>1
           DEF vars, bounds, IInv, TypeOK, ConfigSurvives, SelectedIsStored, Ready, Solo, Active
<1>2. CASE Next
  <2>1. PICK p \in Procs : Start(p) \/ StartFails(p) \/ Step(p) \/ Kill(p) BY <1>2 DEF Next
  <2> QED
      BY <2>1, StartOK, StartFailsOK, KillOK, StatOK, TempOK, RenameOK, TruncateOK, EncodeOK,
             ExistOK, GetOK, RemoveOK DEF Step
<1> QED BY <1>1, <1>2

\* Every reachable state satisfies the inductive invariant.
THEOREM Invariance == Spec => []IInv
BY InitOK, NextOK, PTL DEF Spec

\* Every variable keeps its type and every process stays within its command.
THEOREM WalletTypeCorrect == Spec => []TypeOK
BY Invariance, PTL DEF IInv

\* config.toml is never left empty by commands that are not killed and can write.
THEOREM ConfigSurvivesHolds == Spec => []ConfigSurvives
BY Invariance, PTL DEF IInv

\* The selected wallet has a key file, unless the key was deleted or never got there.
THEOREM SelectedIsStoredHolds == Spec => []SelectedIsStored
BY Invariance, PTL DEF IInv

\* Only Rename and Remove change the files of keys.
LEMMA FilesChange ==
    ASSUME IInv, [Next]_vars, NEW k \in Keys, files'[k] # files[k]
    PROVE  \E p \in Procs : /\ Active(p) /\ proc[p].key = k
                            /\ proc[p].pc \in {"rename", "remove"}
<1>1. files \in [Keys -> Passwords \cup {None}] BY DEF IInv, TypeOK
<1>2. PICK p \in Procs : Start(p) \/ StartFails(p) \/ Step(p) \/ Kill(p) BY DEF Next, vars
<1>3. Rename(p) \/ Remove(p)
    BY <1>2 DEF Start, StartFails, Kill, Step, Stat, Temp, Truncate, Encode, Exist, Get
<1> QED BY <1>1, <1>3 DEF Rename, Remove, Active

\* Without another command at work a stored key is never overwritten, and it is
\* removed only by a delete with its password.
THEOREM KeysKeptHolds == Spec => KeysKept
<1>1. ASSUME IInv, [Next]_vars PROVE [Kept]_vars
  <2> SUFFICES ASSUME NEW k \in Keys, files[k] # None, files'[k] # files[k],
                      NEW q \in Procs, proc[q].alone
               PROVE  proc[q].pc = "remove" /\ proc[q].key = k /\ proc[q].pw = files[k]
      BY DEF Kept
  <2>1. PICK p \in Procs : Active(p) /\ proc[p].key = k /\ proc[p].pc \in {"rename", "remove"}
      BY <1>1, FilesChange
  <2>2. p = q BY <1>1, <2>1, OnlyOneAlone DEF IInv
  <2> QED BY <1>1, <2>1, <2>2 DEF IInv, Solo
<1> QED BY <1>1, Invariance, PTL DEF Spec, KeysKept

\* Which step ends a command without an error.
LEMMA EndsOk ==
    ASSUME IInv, [Next]_vars, NEW p \in Procs, Active(p),
           proc'[p].pc = "ended", proc'[p].out = "ok"
    PROVE  Truncate(p) \/ Encode(p) \/ Get(p) \/ Remove(p)
<1>1. PICK q \in Procs : Start(q) \/ StartFails(q) \/ Step(q) \/ Kill(q)
    BY DEF Next, vars, Active
<1>2. proc \in [Procs -> ProcType] BY ProcFacts DEF IInv
<1>3. CASE Start(q)
  <2>1. proc'[p].pc = proc[p].pc
    <3>1. p # q BY <1>3 DEF Start
    <3>2. proc'[p] = [proc[p] EXCEPT !.alone = FALSE] BY <1>3, <3>1 DEF Start
    <3> QED BY <1>2, <3>2 DEF ProcType
  <2> QED BY <2>1 DEF Active
<1>4. CASE StartFails(q) \/ Kill(q)
  <2>1. PICK out \in {"fatal", "killed"} : End(q, out) BY <1>4 DEF StartFails, Kill
  <2>2. SameBut(q) /\ proc'[q].out = out BY <2>1, EndFacts DEF IInv, Outs
  <2> QED BY <2>2 DEF SameBut, Active
<1>5. CASE Step(q)
  <2>1. p = q
    <3>1. \/ \E l \in Calls(proc[q].op) : Goto(q, l)
          \/ \E out \in Outs : End(q, out)
        BY <1>5, ProcFacts, CallFacts
           DEF IInv, Step, Stat, Temp, Rename, Truncate, Encode, Exist, Get, Remove, Outs, Active
    <3>2. Active(q)
        BY <1>5 DEF Step, Stat, Temp, Rename, Truncate, Encode, Exist, Get, Remove, Active
    <3>3. SameBut(q) BY <3>1, <3>2, GotoFacts, EndFacts DEF IInv
    <3> QED BY <3>3 DEF SameBut, Active
  <2>2. CASE Stat(p) \/ Temp(p) \/ Rename(p) \/ Exist(p)
    <3>1. PICK l \in {"temp", "truncate", "rename"}, out \in {"error"} : Goto(p, l) \/ End(p, out)
        BY <2>2 DEF Stat, Temp, Rename, Exist
    <3>2. CASE Goto(p, l)
      <4>1. proc' = [proc EXCEPT ![p].pc = l] BY <3>2 DEF Goto
      <4>2. proc'[p].pc = l BY <1>2, <4>1 DEF ProcType
      <4> QED BY <4>2
    <3>3. CASE End(p, out) BY <3>3, EndFacts DEF IInv, Outs
    <3> QED BY <3>1, <3>2, <3>3
  <2> QED BY <1>5, <2>1, <2>2 DEF Step
<1> QED BY <1>1, <1>3, <1>4, <1>5

\* A command that was the only one at work and met no failing write keeps its
\* promise when it ends without an error.
THEOREM AckedCommandHolds == Spec => AckedCommand
<1>1. ASSUME IInv, [Next]_vars PROVE [Acked]_vars
  <2> SUFFICES ASSUME NEW p \in Procs, proc[p].alone, Active(p),
                      proc'[p].pc = "ended", proc'[p].out = "ok", faults' = 0
               PROVE  Promise(p)
      BY DEF Acked
  <2>1. Truncate(p) \/ Encode(p) \/ Get(p) \/ Remove(p) BY <1>1, EndsOk
  <2>2. /\ proc[p].pc \in Calls(proc[p].op) /\ proc[p].op \in Ops /\ proc[p].key \in Keys
        /\ files \in [Keys -> Passwords \cup {None}] /\ faults \in Nat
      BY <1>1, ProcFacts, WalletAssumption DEF IInv, TypeOK
  <2>3. CASE Truncate(p)
    <3>1. ~Goto(p, "encode")
      <4> SUFFICES ASSUME Goto(p, "encode") PROVE FALSE OBVIOUS
      <4>1. proc' = [proc EXCEPT ![p].pc = "encode"] BY DEF Goto
      <4>2. proc'[p].pc = "encode" BY <1>1, <4>1, ProcFacts DEF IInv, ProcType
      <4> QED BY <4>2
    <3> QED BY <2>2, <2>3, <3>1 DEF Truncate, Fails
  <2>4. CASE Encode(p)
    <3>1. files' = files /\ config' = proc[p].key /\ faults = 0
        BY <2>2, <2>4 DEF Encode, Fails, bounds
    <3>2. files[proc[p].key] # None /\ proc[p].op \in {"init", "import", "use"}
        BY <1>1, <2>2, <2>4, <3>1, CallFacts DEF Encode, IInv, Solo
    <3> QED BY <3>1, <3>2 DEF Promise
  <2>5. CASE Get(p)
    <3>1. proc[p].op = "run" /\ files[proc[p].key] = proc[p].pw
      <4>1. ~Goto(p, "remove")
        <5> SUFFICES ASSUME Goto(p, "remove") PROVE FALSE OBVIOUS
        <5>1. proc' = [proc EXCEPT ![p].pc = "remove"] BY DEF Goto
        <5>2. proc'[p].pc = "remove" BY <1>1, <5>1, ProcFacts DEF IInv, ProcType
        <5> QED BY <5>2
      <4>2. ~End(p, "error") BY <1>1, EndFacts DEF IInv, Outs
      <4> QED BY <2>5, <4>1, <4>2 DEF Get
    <3> QED BY <3>1 DEF Promise
  <2>6. CASE Remove(p)
    <3>1. ~End(p, "error") BY <1>1, EndFacts DEF IInv, Outs
    <3>2. files' = [files EXCEPT ![proc[p].key] = None] BY <2>6, <3>1 DEF Remove
    <3>3. proc[p].op = "delete" BY <2>2, <2>6, CallFacts DEF Remove
    <3> QED BY <2>2, <3>2, <3>3 DEF Promise
  <2> QED BY <2>1, <2>3, <2>4, <2>5, <2>6
<1> QED BY <1>1, Invariance, PTL DEF Spec, AckedCommand
=============================================================================
