------------------------------- MODULE Market -------------------------------
(***************************************************************************)
(* Orders on chain and the gateway's dealings with them: the handlers that  *)
(* extend, reset and settle an order and the naming of its app, each a      *)
(* transaction (computing/server/httpserver/handler.go,                     *)
(* computing/gateway/remote/remote.go), beside the requests that handler-   *)
(* Compute admits by the order they name.                                   *)
(*                                                                          *)
(* A payer is a goroutine that serves a transaction; its label names the    *)
(* next call.  A transaction is sent with the nonce the node reported when  *)
(* it was asked, at one fixed gas price; it may be mined long after the     *)
(* call that sent it has failed.  The chain and the contract are external.  *)
(***************************************************************************)
EXTENDS Expiry, FiniteSets

CONSTANTS
    Payers,         \* goroutines serving extend, reset, settle or deployid
    Visitors,       \* goroutines serving a request that needs an active order
    Orders,         \* order ids; 0 among them, what no number reads as
    Malformed,      \* an oid that is no number
    Durations,      \* durations and probations in queries
    Terms,          \* [act, prob, dur] of the orders at first
    MaxRequests,    \* bound: transactions asked for
    Horizon         \* bound: the last second

VARIABLES
    now,        \* time.Now().Unix()
    order,      \* the contract: status and times of each order
    resets,     \* history: resets of each order
    pool,       \* transactions sent and not mined
    mined,      \* history: transactions mined, and whether the contract took them
    nonce,      \* mined transactions of each key
    pc,         \* label of each payer
    req,        \* request of each payer
    asked,      \* transactions asked for so far
    promised,   \* history: the end acknowledged renewals promise, none after a reset
    visit       \* each visitor: its label and what it has read

chainVars == <<order, resets, pool, mined, nonce>>
payerVars == <<pc, req, asked, promised>>
vars == <<now, chainVars, payerVars, visit>>

ASSUME MarketAssumption ==
    /\ Orders \subseteq Nat /\ 0 \in Orders /\ Malformed \notin Orders
    /\ Durations \subseteq 0 .. 2 * Limit - 1
    /\ Terms \subseteq [act : Nat, prob : Nat, dur : Nat]
    /\ MaxRequests \in Nat /\ Horizon \in Nat

Ops == {"extend", "reset", "settle", "setApp"}
Keys == {"user", "provider"}

\* Extend signs with the sk of the query, the others with the provider's key.
KeyOf(op) == IF op = "extend" THEN "user" ELSE "provider"

Order == [status : 0 .. 4, act : Nat, prob : Nat, dur : Nat]

\* A transaction; the id of the request it was sent for is not part of it on chain.
Tx == [id : Nat, op : Ops, oid : Orders, prob : Nat, dur : Nat, nonce : Nat]

Busy == {"getOrder", "auth", "nonce", "send", "checkTx", "reread", "ack", "refused", "fail"}

\* What a payer holds: a transaction to be, whether the numbers of the query are
\* numbers, the order it read and how often that had been reset.
Request == [tx : Tx, numbers : BOOLEAN, snap : Order, resets : Nat]

VisitLabels == {"idle", "getOrder", "checkOrder", "admitted", "inactive", "expired"}

\* due is the end promised when the request came.
Visit == [pc : VisitLabels, oid : Orders, snap : Order, resets : Nat,
          due : Nat, dueResets : Nat]

NoOrder == [status |-> 0, act |-> 0, prob |-> 0, dur |-> 0]
NoTx == [id |-> 0, op |-> "setApp", oid |-> 0, prob |-> 0, dur |-> 0, nonce |-> 0]
NoRequest == [tx |-> NoTx, numbers |-> FALSE, snap |-> NoOrder, resets |-> 0]
NoVisit == [pc |-> "idle", oid |-> 0, snap |-> NoOrder, resets |-> 0,
            due |-> 0, dueResets |-> 0]

Active(t) == [status |-> 2, act |-> t.act, prob |-> t.prob, dur |-> t.dur]

Init ==
    /\ now = 0
    /\ \E t \in [Orders -> Terms] :
        order = [o \in Orders |-> IF o = 0 THEN NoOrder ELSE Active(t[o])]
    /\ resets = [o \in Orders |-> 0]
    /\ pool = {} /\ mined = {}
    /\ nonce = [k \in Keys |-> 0]
    /\ pc = [p \in Payers |-> "idle"]
    /\ req = [p \in Payers |-> NoRequest]
    /\ asked = 0
    /\ promised = [o \in Orders |-> 0]
    /\ visit = [v \in Visitors |-> NoVisit]

Goto(p, l) == pc' = [pc EXCEPT ![p] = l]
GotoWith(p, l, r) == Goto(p, l) /\ req' = [req EXCEPT ![p] = r]

\* Mutant: the oid is used as it stands.
OrderAsNamed(name) == name

\* The error of StringToUint64 is dropped where the oid is read.
OrderNamed(name) == IF name \in Orders THEN name ELSE 0

-----------------------------------------------------------------------------
(* A transaction on behalf of a request, call by call. *)

\* handlerReset and SetApp read no order before they send.
FirstLabel(op) == IF op \in {"extend", "settle"} THEN "getOrder" ELSE "auth"

Ask(p) ==
    /\ pc[p] = "idle" /\ asked < MaxRequests
    /\ asked' = asked + 1
    /\ \E op \in Ops, name \in Orders \cup {Malformed}, numbers \in BOOLEAN :
       \E dur \in (IF numbers /\ op \in {"extend", "reset"} THEN Durations ELSE {0}),
          prob \in (IF numbers /\ op = "reset" THEN Durations ELSE {0}) :
            /\ numbers \/ op \in {"extend", "reset"}
            /\ GotoWith(p, FirstLabel(op),
                [NoRequest EXCEPT
                    !.tx = [id |-> asked + 1, op |-> op, oid |-> OrderNamed(name),
                            prob |-> prob, dur |-> dur, nonce |-> 0],
                    !.numbers = numbers])
    /\ UNCHANGED <<now, chainVars, promised, visit>>

\* GetOrder; handlerExtend goes on only with an active order.
ReadOrder(p) ==
    LET r == req[p]
        o == r.tx.oid
    IN  /\ pc[p] = "getOrder"
        /\ \/ /\ r.tx.op = "extend" => order[o].status = 2
              /\ GotoWith(p, "auth", [r EXCEPT !.snap = order[o], !.resets = resets[o]])
           \/ Goto(p, "refused") /\ UNCHANGED req
        /\ UNCHANGED <<now, chainVars, asked, promised, visit>>

\* MakeAuth (and for SetApp the key file, which may be gone), then the numbers.
Auth(p) ==
    /\ pc[p] = "auth"
    /\ \/ req[p].numbers /\ Goto(p, "nonce")
       \/ Goto(p, "refused")
    /\ UNCHANGED <<now, chainVars, req, asked, promised, visit>>

Pending(k) == nonce[k] + Cardinality({t \in pool : KeyOf(t.op) = k})

\* The bound contract asks the node for the next nonce of the key ...
ReadNonce(p) ==
    /\ pc[p] = "nonce"
    /\ \/ GotoWith(p, "send", [req[p] EXCEPT !.tx.nonce = Pending(KeyOf(req[p].tx.op))])
       \/ Goto(p, "refused") /\ UNCHANGED req
    /\ UNCHANGED <<now, chainVars, asked, promised, visit>>

\* Mutant: each request offers more gas than the last, and takes the place of a
\* transaction with the same nonce.
SendReplaces(p) ==
    LET t == req[p].tx IN
    /\ pc[p] = "send"
    /\ IF t.nonce < nonce[KeyOf(t.op)] THEN Goto(p, "fail") /\ UNCHANGED pool
       ELSE /\ pool' = {u \in pool : KeyOf(u.op) # KeyOf(t.op) \/ u.nonce # t.nonce} \cup {t}
            /\ Goto(p, "checkTx")
    /\ UNCHANGED <<now, order, resets, mined, nonce, req, asked, promised, visit>>

\* ... and sends.  A nonce that is taken by then is an error: the price is always the
\* same, so that no transaction replaces another.  The answer may be lost.
Send(p) ==
    LET t == req[p].tx IN
    /\ pc[p] = "send"
    /\ \/ t.nonce = Pending(KeyOf(t.op)) /\ pool' = pool \cup {t} /\ Goto(p, "checkTx")
       \/ t.nonce = Pending(KeyOf(t.op)) /\ pool' = pool \cup {t} /\ Goto(p, "fail")
       \/ Goto(p, "fail") /\ UNCHANGED pool
    /\ UNCHANGED <<now, order, resets, mined, nonce, req, asked, promised, visit>>

\* What a renewal promises if the order was not reset since it was read.
PromisedBy(r) ==
    IF r.tx.op = "extend" /\ r.resets = resets[r.tx.oid]
    THEN TrueEnd(r.snap) + r.tx.dur ELSE 0

Acknowledge(p) ==
    LET r == req[p] IN
    /\ Goto(p, "ack")
    /\ promised' = [promised EXCEPT ![r.tx.oid] = IF PromisedBy(r) > @ THEN PromisedBy(r) ELSE @]

\* Mutant: the transaction is not waited for.
CheckTxAtOnce(p) ==
    /\ pc[p] = "checkTx"
    /\ Acknowledge(p)
    /\ UNCHANGED <<now, chainVars, req, asked, visit>>

\* CheckTx, then the receipt; it gives up after a while, mined or not.
CheckTx(p) ==
    LET r == req[p] IN
    /\ pc[p] = "checkTx"
    /\ \/ /\ \E m \in mined : m.tx = r.tx /\ m.taken
          /\ IF r.tx.op = "extend" THEN Acknowledge(p)
             ELSE Goto(p, "reread") /\ UNCHANGED promised
       \/ Goto(p, "fail") /\ UNCHANGED promised
    /\ UNCHANGED <<now, chainVars, req, asked, visit>>

\* Reset, Settle and SetApp read the order once more, for the log.
Reread(p) ==
    /\ pc[p] = "reread"
    /\ \/ Acknowledge(p)
       \/ Goto(p, "fail") /\ UNCHANGED promised
    /\ UNCHANGED <<now, chainVars, req, asked, visit>>

Reply(p) ==
    /\ pc[p] \in {"ack", "refused", "fail"}
    /\ GotoWith(p, "idle", NoRequest)
    /\ UNCHANGED <<now, chainVars, asked, promised, visit>>

-----------------------------------------------------------------------------
(* The chain. *)

\* What the contract makes of a transaction it takes.
Apply(t) ==
    LET o == order[t.oid] IN
    CASE t.op = "extend" -> {[o EXCEPT !.dur = @ + t.dur]}
      [] t.op = "reset"  -> {[status |-> 2, act |-> now, prob |-> t.prob, dur |-> t.dur]}
      [] t.op = "settle" -> {o, [o EXCEPT !.status = 4]}
      [] t.op = "setApp" -> {o}

\* Transactions of a key are mined in the order of their nonces.  The contract may
\* refuse any, and refuses those about an order that does not exist.
Mine(t) ==
    LET k == KeyOf(t.op) IN
    /\ t.nonce = nonce[k]
    /\ pool' = pool \ {t}
    /\ nonce' = [nonce EXCEPT ![k] = @ + 1]
    /\ \/ /\ order[t.oid].status # 0
          /\ mined' = mined \cup {[tx |-> t, taken |-> TRUE]}
          /\ \E o \in Apply(t) : order' = [order EXCEPT ![t.oid] = o]
          /\ IF t.op = "reset"
             THEN /\ resets' = [resets EXCEPT ![t.oid] = @ + 1]
                  /\ promised' = [promised EXCEPT ![t.oid] = 0]
             ELSE UNCHANGED <<resets, promised>>
       \/ /\ mined' = mined \cup {[tx |-> t, taken |-> FALSE]}
          /\ UNCHANGED <<order, resets, promised>>
    /\ UNCHANGED <<now, pc, req, asked, visit>>

\* The user cancels an order without the gateway.
Cancel(o) ==
    /\ order[o].status = 2
    /\ order' = [order EXCEPT ![o].status = 3]
    /\ UNCHANGED <<now, resets, pool, mined, nonce, payerVars, visit>>

Tick ==
    /\ now < Horizon
    /\ now' = now + 1
    /\ UNCHANGED <<chainVars, payerVars, visit>>

-----------------------------------------------------------------------------
(* A request of handlerCompute, as far as its order decides about it. *)

Arrive(v) ==
    /\ visit[v].pc \notin {"getOrder", "checkOrder"}
    /\ \E o \in Orders :
        visit' = [visit EXCEPT ![v] = [NoVisit EXCEPT !.pc = "getOrder", !.oid = o,
                                       !.due = promised[o], !.dueResets = resets[o]]]
    /\ UNCHANGED <<now, chainVars, payerVars>>

VisitReads(v) ==
    /\ visit[v].pc = "getOrder"
    /\ visit' = [visit EXCEPT ![v].pc = "checkOrder", ![v].snap = order[visit[v].oid],
                              ![v].resets = resets[visit[v].oid]]
    /\ UNCHANGED <<now, chainVars, payerVars>>

\* The status of the snapshot, then its times against the clock as it is now.
Verdict(o) ==
    IF o.status # 2 THEN "inactive" ELSE IF ExpireCheck(o, now) THEN "admitted" ELSE "expired"

\* The request is forwarded, or answered with the reason.
VisitChecks(v) ==
    /\ visit[v].pc = "checkOrder"
    /\ visit' = [visit EXCEPT ![v] = [NoVisit EXCEPT !.pc = Verdict(visit[v].snap)]]
    /\ UNCHANGED <<now, chainVars, payerVars>>

-----------------------------------------------------------------------------

Pay(p) ==
    \/ ReadOrder(p) \/ Auth(p) \/ ReadNonce(p) \/ Send(p)
    \/ CheckTx(p) \/ Reread(p) \/ Reply(p)

Next ==
    \/ \E p \in Payers : Ask(p) \/ Pay(p)
    \/ \E v \in Visitors : Arrive(v) \/ VisitReads(v) \/ VisitChecks(v)
    \/ \E t \in pool : Mine(t)
    \/ \E o \in Orders : Cancel(o)
    \/ Tick

Spec == Init /\ [][Next]_vars

-----------------------------------------------------------------------------
(* Properties. *)

\* Types.
TypeOK ==
    /\ now \in 0 .. Horizon
    /\ order \in [Orders -> Order]
    /\ resets \in [Orders -> Nat] /\ promised \in [Orders -> Nat]
    /\ pool \subseteq Tx
    /\ mined \subseteq [tx : Tx, taken : BOOLEAN]
    /\ nonce \in [Keys -> Nat]
    /\ pc \in [Payers -> Busy \cup {"idle"}]
    /\ req \in [Payers -> Request]
    /\ asked \in 0 .. MaxRequests
    /\ visit \in [Visitors -> Visit]

Sent == pool \cup {m.tx : m \in mined}
SentFor(p) == {t \in Sent : t.id = req[p].tx.id}

\* A request never has two transactions on chain or on their way there, whatever calls
\* of it fail; one that is acknowledged has one and the contract took it; one that is
\* refused before the send has none ("only activated order can be renewed").
OneTransaction ==
    \A p \in Payers : pc[p] # "idle" =>
        /\ Cardinality(SentFor(p)) <= 1
        /\ pc[p] = "ack" => \E m \in mined : m.tx = req[p].tx /\ m.taken
        /\ pc[p] = "refused" => SentFor(p) = {}

\* A request that waits for a transaction waits for one that is still there: requests
\* that sign with the same key and read the same nonce cannot push each other's out
\* (the fixed GasPrice of SetApp, Reset and Settle).
WaitsForItsOwn ==
    \A p \in Payers : pc[p] = "checkTx" => req[p].tx \in Sent

Becomes(v, verdict) == visit[v].pc = "checkOrder" /\ visit'[v].pc = verdict

\* An order that its user extended through the gateway, and was told so, admits
\* requests up to the end this adds up to: a request that comes after the
\* acknowledgement is not refused as expired before, unless the order was reset
\* since or its times no longer fit an int64 (Extend, GetOrder and ExpireCheck).
Renewed ==
    \A v \in Visitors :
        /\ Becomes(v, "expired")
        /\ visit[v].due > 0 /\ visit[v].resets = visit[v].dueResets
        /\ TrueEnd(visit[v].snap) < Limit
        => now > visit[v].due

RenewalHolds == [][Renewed]_vars

\* No request is admitted after the end of its order by exact arithmetic, whatever
\* numbers the contract holds and however they wrap (ExpireCheck).
InTime == \A v \in Visitors : Becomes(v, "admitted") => now <= TrueEnd(visit[v].snap)

NeverLate == [][InTime]_vars
=============================================================================
