---------------------------- MODULE MarketProofs ----------------------------
(***************************************************************************)
(* Proofs about module Market, for any number of payers, visitors, orders   *)
(* and requests, any durations and integers of any width.  IInv has three   *)
(* parts: the types; the ledger, which ties what was sent to the request    *)
(* it was sent for; and the ends of orders, which only a reset takes back.  *)
(***************************************************************************)
EXTENDS Market, ExpiryProofs, FiniteSetTheorems

\* The labels at which nothing was sent for a request.
Before == {"idle", "getOrder", "auth", "nonce", "send", "refused"}

\* Requests have numbers of their own, and what is on chain or on its way there has the
\* number of a request that has come.
Numbered ==
    /\ \A t \in Sent : t.id \in 1 .. asked
    /\ \A p \in Payers : pc[p] # "idle" => req[p].tx.id \in 1 .. asked
    /\ \A p, q \in Payers :
        p # q /\ pc[p] # "idle" /\ pc[q] # "idle" => req[p].tx.id # req[q].tx.id

Taken(t) == \E m \in mined : m.tx = t /\ m.taken

\* What was sent with the number of a request is the transaction it holds.
Ledger(p) ==
    /\ \A t \in Sent : pc[p] # "idle" /\ t.id = req[p].tx.id =>
        pc[p] \notin Before /\ t = req[p].tx
    /\ pc[p] = "checkTx" => req[p].tx \in Sent
    /\ pc[p] \in {"reread", "ack"} => Taken(req[p].tx)

\* The order a request has read ends no later than the order does, unless it was reset
\* since; and its renewal, once the contract took it, has added to that.
Renews(p) ==
    LET r == req[p]
        o == order[r.tx.oid]
    IN  /\ r.resets <= resets[r.tx.oid]
        /\ r.resets = resets[r.tx.oid] =>
            /\ TrueEnd(r.snap) <= TrueEnd(o)
            /\ r.tx.op = "extend" /\ pc[p] # "idle" /\ Taken(r.tx) =>
                TrueEnd(r.snap) + r.tx.dur <= TrueEnd(o)

Due(v) ==
    LET x == visit[v] IN
    /\ x.dueResets <= resets[x.oid]
    /\ x.pc = "getOrder" /\ x.dueResets = resets[x.oid] => x.due <= TrueEnd(order[x.oid])
    /\ x.pc = "checkOrder" /\ x.dueResets = x.resets => x.due <= TrueEnd(x.snap)

Sound == \A p \in Payers : Ledger(p)
Ends ==
    /\ \A o \in Orders : promised[o] <= TrueEnd(order[o])
    /\ \A p \in Payers : Renews(p)
    /\ \A v \in Visitors : Due(v)

IInv == TypeOK /\ IsFiniteSet(pool) /\ Numbered /\ Sound /\ Ends

-----------------------------------------------------------------------------
(* Types. *)

LEMMA PayerTypes ==
    ASSUME TypeOK, NEW p \in Payers
    PROVE  /\ req[p] \in Request /\ req[p].tx \in Tx /\ req[p].snap \in Order
           /\ req[p].tx.oid \in Orders /\ req[p].tx.op \in Ops /\ req[p].resets \in Nat
           /\ req[p].tx.dur \in Nat /\ req[p].tx.id \in Nat
  BY DEF TypeOK, Request, Tx

LEMMA EndIsNat ==
    ASSUME NEW o \in Order
    PROVE  TrueEnd(o) \in Nat
  BY DEF TrueEnd, Order

LEMMA InitTypes == Init => TypeOK
  <1> SUFFICES ASSUME Init PROVE TypeOK
    OBVIOUS
  <1>1. order \in [Orders -> Order]
    <2>1. PICK t \in [Orders -> Terms] :
             order = [o \in Orders |-> IF o = 0 THEN NoOrder ELSE Active(t[o])]
      BY DEF Init
    <2>2. \A o \in Orders : t[o] \in [act : Nat, prob : Nat, dur : Nat]
      BY MarketAssumption
    <2>3. \A o \in Orders : Active(t[o]) \in Order
      BY <2>2 DEF Active, Order
    <2>4. NoOrder \in Order
      BY DEF NoOrder, Order
    <2> QED
      BY <2>1, <2>3, <2>4
  <1>2. NoRequest \in Request /\ NoVisit \in Visit
    BY MarketAssumption
    DEF NoRequest, Request, NoTx, Tx, NoOrder, Order, Ops, NoVisit, Visit, VisitLabels
  <1>3. now \in 0 .. Horizon /\ asked \in 0 .. MaxRequests
    BY MarketAssumption DEF Init
  <1> QED
    BY <1>1, <1>2, <1>3 DEF Init, TypeOK, Keys

\* A payer goes on, whatever else it does to the chain.
LEMMA PayerMoves ==
    ASSUME TypeOK, NEW p \in Payers, NEW l \in Busy \cup {"idle"}, NEW r \in Request,
           GotoWith(p, l, r)
    PROVE  pc' \in [Payers -> Busy \cup {"idle"}] /\ req' \in [Payers -> Request]
  BY DEF TypeOK, GotoWith, Goto

LEMMA PayerGoes ==
    ASSUME TypeOK, NEW p \in Payers, NEW l, Goto(p, l), UNCHANGED req
    PROVE  GotoWith(p, l, req[p])
  <1>1. PICK r \in Request : r = req[p]
    BY PayerTypes
  <1>2. req' = [req EXCEPT ![p] = r]
    BY <1>1 DEF TypeOK
  <1> QED
    BY <1>1, <1>2 DEF GotoWith

\* The request Ask makes.
Asked(op, name, numbers, dur, prob) ==
    [NoRequest EXCEPT
        !.tx = [id |-> asked + 1, op |-> op, oid |-> OrderNamed(name),
                prob |-> prob, dur |-> dur, nonce |-> 0],
        !.numbers = numbers]

LEMMA AskMakes ==
    ASSUME TypeOK, NEW p \in Payers, Ask(p)
    PROVE  \E r \in Request, l \in {"getOrder", "auth"} :
              /\ GotoWith(p, l, r)
              /\ r.tx.id = asked + 1 /\ r.resets = 0 /\ r.snap = NoOrder
              /\ l # "getOrder" => r.tx.op # "extend"
  <1>1. PICK op \in Ops, name \in Orders \cup {Malformed}, numbers \in BOOLEAN :
           \E dur \in (IF numbers /\ op \in {"extend", "reset"} THEN Durations ELSE {0}),
              prob \in (IF numbers /\ op = "reset" THEN Durations ELSE {0}) :
                GotoWith(p, FirstLabel(op), Asked(op, name, numbers, dur, prob))
    BY DEF Ask, Asked
  <1>2. PICK dur \in Durations \cup {0}, prob \in Durations \cup {0} :
           GotoWith(p, FirstLabel(op), Asked(op, name, numbers, dur, prob))
    BY <1>1
  <1>3. dur \in Nat /\ prob \in Nat /\ asked \in Nat
    BY MarketAssumption, ExpiryAssumption DEF TypeOK
  <1>4. OrderNamed(name) \in Orders
    BY MarketAssumption DEF OrderNamed
  <1> DEFINE r == Asked(op, name, numbers, dur, prob)
  <1>5. r \in Request
    <2>1. [id |-> asked + 1, op |-> op, oid |-> OrderNamed(name),
           prob |-> prob, dur |-> dur, nonce |-> 0] \in Tx
      BY <1>3, <1>4 DEF Tx
    <2>2. NoRequest.snap \in Order /\ NoRequest.resets \in Nat
      BY DEF NoRequest, NoOrder, Order
    <2> QED
      BY <2>1, <2>2 DEF Asked, NoRequest, Request
  <1>6. r.tx.id = asked + 1 /\ r.resets = 0 /\ r.snap = NoOrder /\ r.tx.op = op
    BY DEF Asked, NoRequest
  <1>7. FirstLabel(op) \in {"getOrder", "auth"} /\ (FirstLabel(op) # "getOrder" => op # "extend")
    BY DEF FirstLabel
  <1> HIDE DEF r
  <1> QED
    BY <1>2, <1>5, <1>6, <1>7 DEF r

LEMMA PendingIsNat ==
    ASSUME TypeOK, IsFiniteSet(pool), NEW op
    PROVE  Pending(KeyOf(op)) \in Nat
  <1>1. KeyOf(op) \in Keys /\ nonce[KeyOf(op)] \in Nat
    BY DEF KeyOf, Keys, TypeOK
  <1>2. \A k : Cardinality({t \in pool : KeyOf(t.op) = k}) \in Nat
    <2>1. \A k : IsFiniteSet({t \in pool : KeyOf(t.op) = k})
      BY FS_Subset
    <2> QED
      BY <2>1, FS_CardinalityType
  <1> QED
    BY <1>1, <1>2 DEF Pending

\* A step before the send: what changes is the label and the request of p.
LEMMA Prepares ==
    ASSUME TypeOK, IsFiniteSet(pool), NEW p \in Payers,
           ReadOrder(p) \/ Auth(p) \/ ReadNonce(p)
    PROVE  \E r \in Request, l \in {"auth", "nonce", "send", "refused"} :
              /\ GotoWith(p, l, r)
              /\ pc[p] \in {"getOrder", "auth", "nonce"}
              /\ r.tx.id = req[p].tx.id /\ r.tx.op = req[p].tx.op /\ r.tx.oid = req[p].tx.oid
              /\ \/ r.snap = req[p].snap /\ r.resets = req[p].resets
                 \/ r.snap = order[r.tx.oid] /\ r.resets = resets[r.tx.oid]
              /\ UNCHANGED <<now, chainVars, asked, promised, visit>>
  <1>1. PICK r \in Request : r = req[p]
    BY PayerTypes
  <1>2. pc[p] \in {"getOrder", "auth", "nonce"}
        /\ UNCHANGED <<now, chainVars, asked, promised, visit>>
    BY DEF ReadOrder, Auth, ReadNonce
  <1>3. CASE \E l \in {"nonce", "refused"} : Goto(p, l) /\ UNCHANGED req
    <2>1. PICK l \in {"nonce", "refused"} : Goto(p, l) /\ UNCHANGED req
      BY <1>3
    <2>2. GotoWith(p, l, r)
      BY <1>1, <2>1, PayerGoes
    <2> QED
      BY <1>1, <1>2, <2>2
  <1>4. CASE GotoWith(p, "auth", [r EXCEPT !.snap = order[r.tx.oid],
                                            !.resets = resets[r.tx.oid]])
    <2> DEFINE x == [r EXCEPT !.snap = order[r.tx.oid], !.resets = resets[r.tx.oid]]
    <2>1. order[r.tx.oid] \in Order /\ resets[r.tx.oid] \in Nat
      BY <1>1, PayerTypes DEF TypeOK
    <2>2. x \in Request
      BY <2>1 DEF Request
    <2>3. x.tx = r.tx /\ x.snap = order[r.tx.oid] /\ x.resets = resets[r.tx.oid]
      BY DEF Request
    <2> HIDE DEF x
    <2>4. GotoWith(p, "auth", x)
      BY <1>4 DEF x
    <2> QED
      BY <1>1, <1>2, <2>2, <2>3, <2>4
  <1>5. ASSUME NEW n \in Nat, GotoWith(p, "send", [r EXCEPT !.tx.nonce = n])
        PROVE  \E x \in Request : /\ GotoWith(p, "send", x)
                                  /\ x.tx.id = r.tx.id /\ x.tx.op = r.tx.op
                                  /\ x.tx.oid = r.tx.oid
                                  /\ x.snap = r.snap /\ x.resets = r.resets
    <2> DEFINE x == [r EXCEPT !.tx.nonce = n]
    <2>1. r.tx \in Tx
      BY DEF Request
    <2>2. [r.tx EXCEPT !.nonce = n] \in Tx
      BY <2>1 DEF Tx
    <2>3. x \in Request /\ x.tx = [r.tx EXCEPT !.nonce = n]
          /\ x.snap = r.snap /\ x.resets = r.resets
      BY <2>2 DEF Request
    <2>4. x.tx.id = r.tx.id /\ x.tx.op = r.tx.op /\ x.tx.oid = r.tx.oid
      BY <2>1, <2>3 DEF Tx
    <2> HIDE DEF x
    <2>5. GotoWith(p, "send", x)
      BY <1>5 DEF x
    <2> QED
      BY <2>3, <2>4, <2>5
  <1>6. CASE ReadNonce(p)
    <2>1. CASE Goto(p, "refused") /\ UNCHANGED req
      BY <1>3, <2>1
    <2>2. CASE GotoWith(p, "send", [r EXCEPT !.tx.nonce = Pending(KeyOf(r.tx.op))])
      <3>1. Pending(KeyOf(r.tx.op)) \in Nat
        BY PendingIsNat
      <3> QED
        BY <1>1, <1>2, <1>5, <2>2, <3>1
    <2> QED
      BY <1>1, <1>6, <2>1, <2>2 DEF ReadNonce
  <1>7. CASE ReadOrder(p) \/ Auth(p)
    BY <1>1, <1>3, <1>4, <1>7 DEF ReadOrder, Auth
  <1> QED
    BY <1>6, <1>7

LEMMA Sends ==
    ASSUME TypeOK, NEW p \in Payers, Send(p)
    PROVE  \E l \in {"checkTx", "fail"} :
              /\ GotoWith(p, l, req[p])
              /\ pc[p] = "send"
              /\ pool' = pool \cup {req[p].tx} \/ (l = "fail" /\ pool' = pool)
              /\ UNCHANGED <<now, order, resets, mined, nonce, asked, promised, visit>>
  <1>1. UNCHANGED req /\ pc[p] = "send"
    BY DEF Send
  <1>2. PICK l \in {"checkTx", "fail"} :
           Goto(p, l) /\ (pool' = pool \cup {req[p].tx} \/ (l = "fail" /\ pool' = pool))
    BY DEF Send
  <1>3. GotoWith(p, l, req[p])
    BY <1>1, <1>2, PayerGoes
  <1> QED
    BY <1>1, <1>2, <1>3 DEF Send

\* Promises after the acknowledgement of p.
Raised(p) == [promised EXCEPT ![req[p].tx.oid] =
                IF PromisedBy(req[p]) > @ THEN PromisedBy(req[p]) ELSE @]

LEMMA Confirms ==
    ASSUME TypeOK, NEW p \in Payers, CheckTx(p) \/ Reread(p)
    PROVE  \E l \in {"reread", "ack", "fail"} :
              /\ GotoWith(p, l, req[p])
              /\ pc[p] \in {"checkTx", "reread"}
              /\ l # "fail" => pc[p] = "reread" \/ Taken(req[p].tx)
              /\ UNCHANGED promised \/ (l = "ack" /\ promised' = Raised(p))
              /\ UNCHANGED <<now, chainVars, asked, visit>>
  <1>1. UNCHANGED req /\ pc[p] \in {"checkTx", "reread"}
    BY DEF CheckTx, Reread
  <1>2. PICK l \in {"reread", "ack", "fail"} :
           /\ Goto(p, l)
           /\ l # "fail" => pc[p] = "reread" \/ Taken(req[p].tx)
           /\ UNCHANGED promised \/ (l = "ack" /\ promised' = Raised(p))
    BY DEF CheckTx, Reread, Acknowledge, Raised, Taken
  <1>3. GotoWith(p, l, req[p])
    BY <1>1, <1>2, PayerGoes
  <1> QED
    BY <1>1, <1>2, <1>3 DEF CheckTx, Reread

LEMMA PromiseIsNat ==
    ASSUME TypeOK, NEW p \in Payers
    PROVE  PromisedBy(req[p]) \in Nat
  <1>1. TrueEnd(req[p].snap) \in Nat /\ req[p].tx.dur \in Nat
    BY PayerTypes, EndIsNat
  <1> QED
    BY <1>1 DEF PromisedBy

LEMMA RaisedType ==
    ASSUME TypeOK, NEW p \in Payers
    PROVE  Raised(p) \in [Orders -> Nat]
  BY PromiseIsNat DEF Raised, TypeOK

\* What the contract makes of a transaction: the order ends no sooner, or was reset.
LEMMA Applies ==
    ASSUME TypeOK, NEW t \in Tx, NEW o \in Apply(t)
    PROVE  /\ o \in Order
           /\ t.op # "reset" => TrueEnd(order[t.oid]) <= TrueEnd(o)
           /\ t.op = "extend" => TrueEnd(order[t.oid]) + t.dur <= TrueEnd(o)
  <1>1. order[t.oid] \in Order /\ t.dur \in Nat /\ t.prob \in Nat /\ t.op \in Ops /\ now \in Nat
    <2>1. t.oid \in Orders /\ t.dur \in Nat /\ t.prob \in Nat /\ t.op \in Ops
      BY DEF Tx
    <2>2. now \in Nat
      BY MarketAssumption DEF TypeOK
    <2> QED
      BY <2>1, <2>2 DEF TypeOK
  <1>2. CASE t.op = "extend"
    <2>1. o = [order[t.oid] EXCEPT !.dur = @ + t.dur]
      BY <1>2 DEF Apply
    <2> QED
      BY <1>1, <1>2, <2>1 DEF Order, TrueEnd
  <1>3. CASE t.op = "reset"
    <2>1. o = [status |-> 2, act |-> now, prob |-> t.prob, dur |-> t.dur]
      BY <1>3 DEF Apply
    <2> QED
      BY <1>1, <1>3, <2>1 DEF Order
  <1>4. CASE t.op \in {"settle", "setApp"}
    <2>1. o = order[t.oid] \/ o = [order[t.oid] EXCEPT !.status = 4]
      BY <1>4 DEF Apply
    <2> QED
      BY <1>1, <1>4, <2>1 DEF Order, TrueEnd
  <1> QED
    BY <1>1, <1>2, <1>3, <1>4 DEF Ops

\* A mined transaction, order by order.
LEMMA Mines ==
    ASSUME TypeOK, NEW t \in pool, Mine(t)
    PROVE  /\ t \in Tx /\ pool' = pool \ {t}
           /\ nonce' \in [Keys -> Nat] /\ order' \in [Orders -> Order]
           /\ resets' \in [Orders -> Nat] /\ promised' \in [Orders -> Nat]
           /\ \E b \in BOOLEAN :
                /\ mined' = mined \cup {[tx |-> t, taken |-> b]}
                /\ b /\ t.op = "extend" =>
                    TrueEnd(order[t.oid]) + t.dur <= TrueEnd(order'[t.oid])
           /\ \A o \in Orders :
                \/ /\ resets'[o] = resets[o] /\ promised'[o] = promised[o]
                   /\ TrueEnd(order[o]) <= TrueEnd(order'[o])
                \/ resets'[o] = resets[o] + 1 /\ promised'[o] = 0
           /\ UNCHANGED <<now, pc, req, asked, visit>>
  <1>1. t \in Tx /\ t.oid \in Orders /\ KeyOf(t.op) \in Keys
    BY DEF TypeOK, Tx, KeyOf, Keys
  <1>2. nonce' \in [Keys -> Nat]
    BY <1>1 DEF TypeOK, Mine
  <1>3. \A o \in Orders : TrueEnd(order[o]) \in Nat
    BY EndIsNat DEF TypeOK
  <1>4. CASE /\ mined' = mined \cup {[tx |-> t, taken |-> FALSE]}
             /\ UNCHANGED <<order, resets, promised>>
    <2>1. \A o \in Orders : /\ resets'[o] = resets[o] /\ promised'[o] = promised[o]
                            /\ TrueEnd(order[o]) <= TrueEnd(order'[o])
      BY <1>3, <1>4
    <2>2. \E b \in BOOLEAN : b = FALSE /\ mined' = mined \cup {[tx |-> t, taken |-> b]}
      BY <1>4
    <2>3. /\ order' \in [Orders -> Order]
          /\ resets' \in [Orders -> Nat] /\ promised' \in [Orders -> Nat]
      BY <1>4 DEF TypeOK
    <2> QED
      BY <1>1, <1>2, <2>1, <2>2, <2>3 DEF Mine
  <1>5. CASE /\ mined' = mined \cup {[tx |-> t, taken |-> TRUE]}
             /\ \E o \in Apply(t) : order' = [order EXCEPT ![t.oid] = o]
             /\ IF t.op = "reset"
                THEN /\ resets' = [resets EXCEPT ![t.oid] = @ + 1]
                     /\ promised' = [promised EXCEPT ![t.oid] = 0]
                ELSE UNCHANGED <<resets, promised>>
    <2>1. PICK x \in Apply(t) : order' = [order EXCEPT ![t.oid] = x]
      BY <1>5
    <2>2. /\ x \in Order
          /\ t.op # "reset" => TrueEnd(order[t.oid]) <= TrueEnd(x)
          /\ t.op = "extend" => TrueEnd(order[t.oid]) + t.dur <= TrueEnd(x)
      BY <1>1, Applies
    <2>3. order' \in [Orders -> Order] /\ order'[t.oid] = x
          /\ \A o \in Orders \ {t.oid} : order'[o] = order[o]
      BY <1>1, <2>1, <2>2 DEF TypeOK
    <2>4. resets' \in [Orders -> Nat] /\ promised' \in [Orders -> Nat]
      BY <1>1, <1>5 DEF TypeOK
    <2>5. ASSUME NEW o \in Orders
          PROVE  \/ /\ resets'[o] = resets[o] /\ promised'[o] = promised[o]
                    /\ TrueEnd(order[o]) <= TrueEnd(order'[o])
                 \/ resets'[o] = resets[o] + 1 /\ promised'[o] = 0
      BY <1>1, <1>3, <1>5, <2>2, <2>3 DEF TypeOK
    <2> QED
      BY <1>1, <1>2, <1>5, <2>2, <2>3, <2>4, <2>5 DEF Mine
  <1> QED
    BY <1>4, <1>5 DEF Mine

\* The steps of visitors.
LEMMA VisitTypes ==
    ASSUME TypeOK, NEW v \in Visitors, Arrive(v) \/ VisitReads(v) \/ VisitChecks(v)
    PROVE  visit' \in [Visitors -> Visit]
  <1>1. \A o \in Orders : order[o] \in Order /\ resets[o] \in Nat /\ promised[o] \in Nat
    BY DEF TypeOK
  <1>2. visit \in [Visitors -> Visit] /\ visit[v] \in Visit /\ visit[v].oid \in Orders
    BY DEF TypeOK, Visit
  <1>3. NoVisit \in Visit
    BY MarketAssumption DEF NoVisit, NoOrder, Order, Visit, VisitLabels
  <1>4. CASE Arrive(v)
    <2>1. PICK o \in Orders :
             visit' = [visit EXCEPT ![v] = [NoVisit EXCEPT !.pc = "getOrder", !.oid = o,
                                            !.due = promised[o], !.dueResets = resets[o]]]
      BY <1>4 DEF Arrive
    <2>2. [NoVisit EXCEPT !.pc = "getOrder", !.oid = o,
                          !.due = promised[o], !.dueResets = resets[o]] \in Visit
      BY <1>1, <1>3 DEF Visit, VisitLabels
    <2> QED
      BY <1>2, <2>1, <2>2
  <1>5. CASE VisitReads(v)
    <2>1. visit' = [visit EXCEPT ![v] = [visit[v] EXCEPT !.pc = "checkOrder",
                      !.snap = order[visit[v].oid], !.resets = resets[visit[v].oid]]]
      BY <1>2, <1>5 DEF VisitReads, Visit
    <2>2. [visit[v] EXCEPT !.pc = "checkOrder",
                      !.snap = order[visit[v].oid], !.resets = resets[visit[v].oid]] \in Visit
      BY <1>1, <1>2 DEF Visit, VisitLabels
    <2> QED
      BY <1>2, <2>1, <2>2
  <1>6. CASE VisitChecks(v)
    <2>1. Verdict(visit[v].snap) \in VisitLabels
      BY DEF Verdict, VisitLabels
    <2>2. [NoVisit EXCEPT !.pc = Verdict(visit[v].snap)] \in Visit
      BY <1>3, <2>1 DEF Visit
    <2> QED
      BY <1>2, <1>6, <2>2 DEF VisitChecks
  <1> QED
    BY <1>4, <1>5, <1>6

LEMMA TypeStep ==
    ASSUME TypeOK, IsFiniteSet(pool), [Next]_vars
    PROVE  TypeOK'
  <1>1. ASSUME NEW p \in Payers, Ask(p)
        PROVE  TypeOK'
    <2>1. PICK r \in Request, l \in {"getOrder", "auth"} : GotoWith(p, l, r)
      BY <1>1, AskMakes
    <2>2. pc' \in [Payers -> Busy \cup {"idle"}] /\ req' \in [Payers -> Request]
      BY <2>1, PayerMoves DEF Busy
    <2>3. asked' \in 0 .. MaxRequests
      BY <1>1, MarketAssumption DEF Ask, TypeOK
    <2> QED
      BY <1>1, <2>2, <2>3 DEF Ask, TypeOK, chainVars
  <1>2. ASSUME NEW p \in Payers, ReadOrder(p) \/ Auth(p) \/ ReadNonce(p)
        PROVE  TypeOK'
    <2>1. PICK r \in Request, l \in {"auth", "nonce", "send", "refused"} :
             GotoWith(p, l, r) /\ UNCHANGED <<now, chainVars, asked, promised, visit>>
      BY <1>2, Prepares
    <2>2. pc' \in [Payers -> Busy \cup {"idle"}] /\ req' \in [Payers -> Request]
      BY <2>1, PayerMoves DEF Busy
    <2> QED
      BY <2>1, <2>2 DEF TypeOK, chainVars
  <1>3. ASSUME NEW p \in Payers, Send(p)
        PROVE  TypeOK'
    <2>1. PICK l \in {"checkTx", "fail"} :
             /\ GotoWith(p, l, req[p])
             /\ pool' = pool \cup {req[p].tx} \/ (l = "fail" /\ pool' = pool)
             /\ UNCHANGED <<now, order, resets, mined, nonce, asked, promised, visit>>
      BY <1>3, Sends
    <2>2. pc' \in [Payers -> Busy \cup {"idle"}] /\ req' \in [Payers -> Request]
      BY <2>1, PayerMoves, PayerTypes DEF Busy
    <2>3. pool' \subseteq Tx
      BY <2>1, PayerTypes DEF TypeOK
    <2> QED
      BY <2>1, <2>2, <2>3 DEF TypeOK
  <1>4. ASSUME NEW p \in Payers, CheckTx(p) \/ Reread(p)
        PROVE  TypeOK'
    <2>1. PICK l \in {"reread", "ack", "fail"} :
             /\ GotoWith(p, l, req[p])
             /\ UNCHANGED promised \/ promised' = Raised(p)
             /\ UNCHANGED <<now, chainVars, asked, visit>>
      BY <1>4, Confirms
    <2>2. pc' \in [Payers -> Busy \cup {"idle"}] /\ req' \in [Payers -> Request]
      BY <2>1, PayerMoves, PayerTypes DEF Busy
    <2>3. promised' \in [Orders -> Nat]
      BY <2>1, RaisedType DEF TypeOK
    <2> QED
      BY <2>1, <2>2, <2>3 DEF TypeOK, chainVars
  <1>5. ASSUME NEW p \in Payers, Reply(p)
        PROVE  TypeOK'
    <2>1. NoRequest \in Request
      BY MarketAssumption DEF NoRequest, NoTx, NoOrder, Request, Tx, Order, Ops
    <2>2. pc' \in [Payers -> Busy \cup {"idle"}] /\ req' \in [Payers -> Request]
      BY <1>5, <2>1, PayerMoves DEF Reply
    <2> QED
      BY <1>5, <2>2 DEF Reply, TypeOK, chainVars
  <1>6. ASSUME NEW v \in Visitors, Arrive(v) \/ VisitReads(v) \/ VisitChecks(v)
        PROVE  TypeOK'
    <2>1. UNCHANGED <<now, chainVars, payerVars>>
      BY <1>6 DEF Arrive, VisitReads, VisitChecks
    <2> QED
      BY <1>6, <2>1, VisitTypes DEF TypeOK, chainVars, payerVars
  <1>7. ASSUME NEW t \in pool, Mine(t)
        PROVE  TypeOK'
    <2>1. mined' \subseteq [tx : Tx, taken : BOOLEAN]
      BY <1>7, Mines DEF TypeOK
    <2> QED
      BY <1>7, <2>1, Mines DEF TypeOK
  <1>8. ASSUME NEW o \in Orders, Cancel(o)
        PROVE  TypeOK'
    <2>1. order' \in [Orders -> Order]
      BY <1>8 DEF Cancel, TypeOK, Order
    <2> QED
      BY <1>8, <2>1 DEF Cancel, TypeOK, payerVars
  <1>9. CASE Tick
    BY <1>9, MarketAssumption DEF Tick, TypeOK, chainVars, payerVars
  <1>10. CASE UNCHANGED vars
    BY <1>10 DEF vars, TypeOK, chainVars, payerVars
  <1> QED
    BY <1>1, <1>2, <1>3, <1>4, <1>5, <1>6, <1>7, <1>8, <1>9, <1>10 DEF Next, Pay

LEMMA FiniteStep ==
    ASSUME TypeOK, IsFiniteSet(pool), [Next]_vars
    PROVE  IsFiniteSet(pool')
  <1>1. ASSUME NEW p \in Payers, Send(p)
        PROVE  IsFiniteSet(pool')
    <2>1. pool' = pool \/ pool' = pool \cup {req[p].tx}
      BY <1>1, Sends
    <2> QED
      BY <2>1, FS_AddElement
  <1>2. ASSUME NEW t \in pool, Mine(t)
        PROVE  IsFiniteSet(pool')
    <2>1. pool' \subseteq pool
      BY <1>2 DEF Mine
    <2> QED
      BY <2>1, FS_Subset
  <1>3. ASSUME NEW p \in Payers, Ask(p) \/ Pay(p), ~Send(p)
        PROVE  pool' = pool
    BY <1>3 DEF Ask, Pay, ReadOrder, Auth, ReadNonce, CheckTx, Reread, Reply, chainVars
  <1>4. ASSUME NEW v \in Visitors, Arrive(v) \/ VisitReads(v) \/ VisitChecks(v)
        PROVE  pool' = pool
    BY <1>4 DEF Arrive, VisitReads, VisitChecks, chainVars
  <1>5. CASE Tick \/ UNCHANGED vars \/ \E o \in Orders : Cancel(o)
    BY <1>5 DEF Tick, vars, chainVars, Cancel
  <1> QED
    BY <1>1, <1>2, <1>3, <1>4, <1>5 DEF Next

-----------------------------------------------------------------------------
(* The ledger. *)

LEMMA SentStays ==
    ASSUME UNCHANGED <<pool, mined>>
    PROVE  Sent' = Sent /\ \A t : Taken(t) <=> Taken(t)'
  BY DEF Sent, Taken

LEMMA TakenIsSent ==
    ASSUME NEW t, Taken(t)
    PROVE  t \in Sent
  BY DEF Taken, Sent

\* A payer goes on with its request; what is sent by it is what it holds.
LEMMA LedgerMoves ==
    ASSUME TypeOK, Numbered, Sound, NEW p \in Payers, pc[p] # "idle",
           NEW l \in Busy, NEW r \in Request, GotoWith(p, l, r),
           r.tx.id = req[p].tx.id, UNCHANGED <<asked, mined>>,
           \A t \in Sent' : t \in Sent \/ t.id = r.tx.id,
           Sent \subseteq Sent',
           \A t \in Sent' : t.id = r.tx.id => l \notin Before /\ t = r.tx,
           l = "checkTx" => r.tx \in Sent',
           l \in {"reread", "ack"} => Taken(r.tx)
    PROVE  Numbered' /\ Sound'
  <1>1. \A t : Taken(t) => Taken(t)'
    BY DEF Taken
  <1>2. /\ pc'[p] = l /\ req'[p] = r
        /\ \A q \in Payers \ {p} : pc'[q] = pc[q] /\ req'[q] = req[q]
    BY DEF GotoWith, Goto, TypeOK
  <1>3. r.tx.id \in 1 .. asked
    BY DEF Numbered
  <1>4. Numbered'
    <2>1. \A t \in Sent' : t.id \in 1 .. asked'
      BY <1>3 DEF Numbered
    <2>2. \A q \in Payers : pc'[q] # "idle" => req'[q].tx.id \in 1 .. asked'
      BY <1>2, <1>3 DEF Numbered
    <2>3. \A a, q \in Payers :
            a # q /\ pc'[a] # "idle" /\ pc'[q] # "idle" => req'[a].tx.id # req'[q].tx.id
      BY <1>2 DEF Numbered
    <2> QED
      BY <2>1, <2>2, <2>3 DEF Numbered
  <1>5. ASSUME NEW q \in Payers
        PROVE  Ledger(q)'
    <2>1. CASE q = p
      BY <1>1, <1>2, <2>1 DEF Ledger
    <2>2. CASE q # p
      <3>1. pc'[q] = pc[q] /\ req'[q] = req[q] /\ Ledger(q)
        BY <1>2, <2>2 DEF Sound
      <3>2. pc[q] # "idle" => req[q].tx.id # r.tx.id
        BY <2>2 DEF Numbered
      <3> QED
        BY <1>1, <3>1, <3>2 DEF Ledger
    <2> QED
      BY <2>1, <2>2
  <1> QED
    BY <1>4, <1>5 DEF Sound

\* A step that moves no payer and sends nothing.
LEMMA LedgerStays ==
    ASSUME Numbered, Sound, UNCHANGED <<pc, req, asked>>, Sent' = Sent,
           \A t : Taken(t) => Taken(t)'
    PROVE  Numbered' /\ Sound'
  BY DEF Numbered, Sound, Ledger

LEMMA LedgerStep ==
    ASSUME TypeOK, IsFiniteSet(pool), Numbered, Sound, [Next]_vars
    PROVE  Numbered' /\ Sound'
  <1>1. ASSUME NEW p \in Payers, Ask(p)
        PROVE  Numbered' /\ Sound'
    <2>1. PICK r \in Request, l \in {"getOrder", "auth"} :
             GotoWith(p, l, r) /\ r.tx.id = asked + 1
      BY <1>1, AskMakes
    <2>2. /\ pc'[p] = l /\ req'[p] = r
          /\ \A q \in Payers \ {p} : pc'[q] = pc[q] /\ req'[q] = req[q]
      BY <2>1 DEF GotoWith, Goto, TypeOK
    <2>3. Sent' = Sent /\ asked' = asked + 1 /\ asked \in Nat /\ UNCHANGED <<pool, mined>>
      BY <1>1, SentStays DEF Ask, chainVars, TypeOK
    <2>4. \A t \in Sent : t.id # r.tx.id
      BY <2>1, <2>3 DEF Numbered
    <2>5. Numbered'
      BY <2>1, <2>2, <2>3 DEF Numbered
    <2>6. ASSUME NEW q \in Payers PROVE Ledger(q)'
      <3>1. CASE q = p
        BY <2>2, <2>3, <2>4, <3>1 DEF Ledger
      <3>2. CASE q # p
        BY <2>2, <2>3, <3>2, SentStays DEF Ledger, Sound
      <3> QED
        BY <3>1, <3>2
    <2> QED
      BY <2>5, <2>6 DEF Sound
  <1>2. ASSUME NEW p \in Payers, ReadOrder(p) \/ Auth(p) \/ ReadNonce(p)
        PROVE  Numbered' /\ Sound'
    <2>1. PICK r \in Request, l \in {"auth", "nonce", "send", "refused"} :
             /\ GotoWith(p, l, r) /\ pc[p] \in {"getOrder", "auth", "nonce"}
             /\ r.tx.id = req[p].tx.id
             /\ UNCHANGED <<now, chainVars, asked, promised, visit>>
      BY <1>2, Prepares
    <2>2. Sent' = Sent /\ UNCHANGED mined
      BY <2>1, SentStays DEF chainVars
    <2>3. \A t \in Sent : t.id # r.tx.id
      BY <2>1 DEF Sound, Ledger, Before
    <2> QED
      BY <2>1, <2>2, <2>3, LedgerMoves DEF Busy
  <1>3. ASSUME NEW p \in Payers, Send(p)
        PROVE  Numbered' /\ Sound'
    <2>1. PICK l \in {"checkTx", "fail"} :
             /\ GotoWith(p, l, req[p]) /\ pc[p] = "send"
             /\ pool' = pool \cup {req[p].tx} \/ (l = "fail" /\ pool' = pool)
             /\ UNCHANGED <<now, order, resets, mined, nonce, asked, promised, visit>>
      BY <1>3, Sends
    <2>2. Sent' = Sent \cup {req[p].tx} \/ (l = "fail" /\ Sent' = Sent)
      BY <2>1 DEF Sent
    <2>3. \A t \in Sent : t.id # req[p].tx.id
      BY <2>1 DEF Sound, Ledger, Before
    <2>4. l \notin Before /\ l \in Busy
      BY DEF Before, Busy
    <2> QED
      BY <2>1, <2>2, <2>3, <2>4, LedgerMoves, PayerTypes
  <1>4. ASSUME NEW p \in Payers, CheckTx(p) \/ Reread(p)
        PROVE  Numbered' /\ Sound'
    <2>1. PICK l \in {"reread", "ack", "fail"} :
             /\ GotoWith(p, l, req[p]) /\ pc[p] \in {"checkTx", "reread"}
             /\ l # "fail" => pc[p] = "reread" \/ Taken(req[p].tx)
             /\ UNCHANGED <<now, chainVars, asked, visit>>
      BY <1>4, Confirms
    <2>2. Sent' = Sent /\ UNCHANGED mined
      BY <2>1, SentStays DEF chainVars
    <2>3. l \notin Before /\ l \in Busy
      BY DEF Before, Busy
    <2>4. \A t \in Sent : t.id = req[p].tx.id => t = req[p].tx
      BY <2>1 DEF Sound, Ledger
    <2>5. l \in {"reread", "ack"} => Taken(req[p].tx)
      BY <2>1 DEF Sound, Ledger
    <2> QED
      BY <2>1, <2>2, <2>3, <2>4, <2>5, LedgerMoves, PayerTypes
  <1>5. ASSUME NEW p \in Payers, Reply(p)
        PROVE  Numbered' /\ Sound'
    <2>1. GotoWith(p, "idle", NoRequest) /\ UNCHANGED <<chainVars, asked>>
      BY <1>5 DEF Reply
    <2>2. /\ pc'[p] = "idle"
          /\ \A q \in Payers \ {p} : pc'[q] = pc[q] /\ req'[q] = req[q]
      BY <2>1 DEF GotoWith, Goto, TypeOK
    <2>3. Sent' = Sent /\ \A t : Taken(t) => Taken(t)'
      BY <2>1, SentStays DEF chainVars
    <2>4. Numbered'
      BY <2>1, <2>2, <2>3 DEF Numbered
    <2>5. ASSUME NEW q \in Payers PROVE Ledger(q)'
      <3>1. CASE q = p
        BY <2>2, <3>1 DEF Ledger
      <3>2. CASE q # p
        BY <2>2, <2>3, <3>2 DEF Ledger, Sound
      <3> QED
        BY <3>1, <3>2
    <2> QED
      BY <2>4, <2>5 DEF Sound
  <1>6. ASSUME NEW t \in pool, Mine(t)
        PROVE  Numbered' /\ Sound'
    <2>1. PICK b \in BOOLEAN : mined' = mined \cup {[tx |-> t, taken |-> b]}
      BY <1>6, Mines
    <2>2. Sent' = Sent
      <3>1. pool' = pool \ {t}
        BY <1>6, Mines
      <3> DEFINE new == [tx |-> t, taken |-> b]
      <3>2. new.tx = t
        OBVIOUS
      <3> HIDE DEF new
      <3>3. mined' = mined \cup {new}
        BY <2>1 DEF new
      <3> QED
        BY <3>1, <3>2, <3>3 DEF Sent
    <2>3. \A x : Taken(x) => Taken(x)'
      BY <2>1 DEF Taken
    <2> QED
      BY <1>6, <2>2, <2>3, LedgerStays DEF Mine
  <1>7. ASSUME NEW v \in Visitors, Arrive(v) \/ VisitReads(v) \/ VisitChecks(v)
        PROVE  Numbered' /\ Sound'
    <2>1. UNCHANGED <<pc, req, asked, pool, mined>>
      BY <1>7 DEF Arrive, VisitReads, VisitChecks, chainVars, payerVars
    <2> QED
      BY <2>1, SentStays, LedgerStays
  <1>8. CASE Tick \/ UNCHANGED vars \/ \E o \in Orders : Cancel(o)
    <2>1. UNCHANGED <<pc, req, asked, pool, mined>>
      BY <1>8 DEF Tick, vars, chainVars, payerVars, Cancel
    <2> QED
      BY <2>1, SentStays, LedgerStays
  <1> QED
    BY <1>1, <1>2, <1>3, <1>4, <1>5, <1>6, <1>7, <1>8 DEF Next, Pay

-----------------------------------------------------------------------------
(* The ends of orders. *)

\* A payer goes on while the chain and the visitors stand still.
LEMMA EndsMove ==
    ASSUME TypeOK, Ends, NEW p \in Payers, NEW l, NEW r \in Request, GotoWith(p, l, r),
           UNCHANGED <<order, resets, mined, visit>>,
           r.resets <= resets[r.tx.oid],
           r.resets = resets[r.tx.oid] => TrueEnd(r.snap) <= TrueEnd(order[r.tx.oid]),
           r.resets = resets[r.tx.oid] /\ r.tx.op = "extend" /\ l # "idle" /\ Taken(r.tx)
             => TrueEnd(r.snap) + r.tx.dur <= TrueEnd(order[r.tx.oid]),
           \A o \in Orders : promised'[o] <= TrueEnd(order[o])
    PROVE  Ends'
  <1>1. \A t : Taken(t)' <=> Taken(t)
    BY DEF Taken
  <1>2. /\ pc'[p] = l /\ req'[p] = r
        /\ \A q \in Payers \ {p} : pc'[q] = pc[q] /\ req'[q] = req[q]
    BY DEF GotoWith, Goto, TypeOK
  <1>3. ASSUME NEW q \in Payers
        PROVE  Renews(q)'
    <2>1. CASE q = p
      BY <1>1, <1>2, <2>1 DEF Renews
    <2>2. CASE q # p
      BY <1>1, <1>2, <2>2 DEF Renews, Ends
    <2> QED
      BY <2>1, <2>2
  <1>4. \A v \in Visitors : Due(v)'
    BY DEF Due, Ends
  <1> QED
    BY <1>3, <1>4 DEF Ends

\* The chain moves: orders end no sooner or are reset, and a renewal that is taken adds
\* to the order it is about.
LEMMA EndsAfter ==
    ASSUME TypeOK, TypeOK', Ends, UNCHANGED <<pc, req, visit>>,
           \A o \in Orders :
             \/ /\ resets'[o] = resets[o] /\ promised'[o] = promised[o]
                /\ TrueEnd(order[o]) <= TrueEnd(order'[o])
             \/ resets'[o] = resets[o] + 1 /\ promised'[o] = 0,
           \A p \in Payers :
             Taken(req[p].tx)' /\ ~Taken(req[p].tx) /\ req[p].tx.op = "extend" =>
               TrueEnd(order[req[p].tx.oid]) + req[p].tx.dur <= TrueEnd(order'[req[p].tx.oid])
    PROVE  Ends'
  <1>1. \A o \in Orders : /\ TrueEnd(order[o]) \in Nat /\ TrueEnd(order'[o]) \in Nat
                          /\ resets[o] \in Nat /\ resets'[o] \in Nat
                          /\ promised[o] \in Nat /\ promised'[o] \in Nat
    BY EndIsNat DEF TypeOK
  <1>2. \A o \in Orders : promised'[o] <= TrueEnd(order'[o])
    BY <1>1 DEF Ends
  <1>3. ASSUME NEW p \in Payers
        PROVE  Renews(p)'
    <2> DEFINE r == req[p]
               o == r.tx.oid
    <2>1. o \in Orders /\ r.resets \in Nat /\ TrueEnd(r.snap) \in Nat /\ r.tx.dur \in Nat
      BY PayerTypes, EndIsNat
    <2>2. /\ r.resets <= resets[o]
          /\ r.resets = resets[o] =>
               /\ TrueEnd(r.snap) <= TrueEnd(order[o])
               /\ r.tx.op = "extend" /\ pc[p] # "idle" /\ Taken(r.tx) =>
                   TrueEnd(r.snap) + r.tx.dur <= TrueEnd(order[o])
      BY DEF Ends, Renews
    <2>3. \/ resets'[o] = resets[o] /\ TrueEnd(order[o]) <= TrueEnd(order'[o])
          \/ resets'[o] = resets[o] + 1
      BY <2>1
    <2>4. /\ r.resets <= resets'[o]
          /\ r.resets = resets'[o] =>
               resets'[o] = resets[o] /\ TrueEnd(order[o]) <= TrueEnd(order'[o])
      BY <1>1, <2>1, <2>2, <2>3
    <2>5. r.resets = resets'[o] => TrueEnd(r.snap) <= TrueEnd(order'[o])
      BY <1>1, <2>1, <2>2, <2>4
    <2>6. r.resets = resets'[o] /\ r.tx.op = "extend" /\ pc[p] # "idle" /\ Taken(r.tx)'
            => TrueEnd(r.snap) + r.tx.dur <= TrueEnd(order'[o])
      <3>1. CASE Taken(r.tx)
        BY <1>1, <2>1, <2>2, <2>4, <3>1
      <3>2. CASE ~Taken(r.tx)
        BY <1>1, <2>1, <2>2, <2>4, <3>2
      <3> QED
        BY <3>1, <3>2
    <2> QED
      BY <2>4, <2>5, <2>6 DEF Renews
  <1>4. ASSUME NEW v \in Visitors
        PROVE  Due(v)'
    <2>1. /\ visit[v].oid \in Orders /\ visit[v].dueResets \in Nat /\ visit[v].due \in Nat
          /\ Due(v)
      BY DEF TypeOK, Visit, Ends
    <2> QED
      BY <1>1, <2>1 DEF Due
  <1> QED
    BY <1>2, <1>3, <1>4 DEF Ends

\* A visitor is due no more than what is promised when it comes.
LEMMA VisitDue ==
    ASSUME TypeOK, Ends, NEW v \in Visitors, Arrive(v) \/ VisitReads(v) \/ VisitChecks(v)
    PROVE  Due(v)'
  <1>1. UNCHANGED <<order, resets>>
    BY DEF Arrive, VisitReads, VisitChecks, chainVars
  <1>2. visit \in [Visitors -> Visit] /\ visit[v] \in Visit /\ visit[v].oid \in Orders
    BY DEF TypeOK, Visit
  <1>3. \A o \in Orders : resets[o] \in Nat /\ promised[o] <= TrueEnd(order[o])
    BY DEF TypeOK, Ends
  <1>4. CASE Arrive(v)
    <2>1. PICK o \in Orders :
             visit' = [visit EXCEPT ![v] = [NoVisit EXCEPT !.pc = "getOrder", !.oid = o,
                                            !.due = promised[o], !.dueResets = resets[o]]]
      BY <1>4 DEF Arrive
    <2>2. /\ visit'[v].pc = "getOrder" /\ visit'[v].oid = o
          /\ visit'[v].due = promised[o] /\ visit'[v].dueResets = resets[o]
      BY <1>2, <2>1 DEF NoVisit
    <2> QED
      BY <1>1, <1>3, <2>2 DEF Due
  <1>5. CASE VisitReads(v)
    <2> DEFINE o == visit[v].oid
    <2>1. /\ visit'[v].pc = "checkOrder" /\ visit'[v].oid = o
          /\ visit'[v].snap = order[o] /\ visit'[v].resets = resets[o]
          /\ visit'[v].due = visit[v].due /\ visit'[v].dueResets = visit[v].dueResets
      BY <1>2, <1>5 DEF VisitReads, Visit
    <2>2. Due(v) /\ visit[v].pc = "getOrder"
      BY <1>5 DEF Ends, VisitReads
    <2> QED
      BY <1>1, <2>1, <2>2 DEF Due
  <1>6. CASE VisitChecks(v)
    <2>1. visit'[v] = [NoVisit EXCEPT !.pc = Verdict(visit[v].snap)]
      BY <1>2, <1>6 DEF VisitChecks
    <2>2. /\ visit'[v].pc \notin {"getOrder", "checkOrder"}
          /\ visit'[v].dueResets = 0 /\ visit'[v].oid = 0
      BY <2>1 DEF NoVisit, Verdict
    <2> QED
      BY <1>1, <1>3, <2>2, MarketAssumption DEF Due
  <1> QED
    BY <1>4, <1>5, <1>6

LEMMA EndsStep ==
    ASSUME IInv, TypeOK', [Next]_vars
    PROVE  Ends'
  <1>1. TypeOK /\ IsFiniteSet(pool) /\ Numbered /\ Sound /\ Ends
    BY DEF IInv
  <1>2. \A o \in Orders : /\ TrueEnd(order[o]) \in Nat /\ resets[o] \in Nat
                          /\ promised[o] <= TrueEnd(order[o])
    BY <1>1, EndIsNat DEF TypeOK, Ends
  <1>3. ASSUME NEW p \in Payers
        PROVE  Renews(p)
    BY <1>1 DEF Ends
  <1>4. NoOrder \in Order /\ TrueEnd(NoOrder) = 0
    BY DEF NoOrder, Order, TrueEnd
  <1>5. ASSUME NEW p \in Payers, Ask(p)
        PROVE  Ends'
    <2>1. PICK r \in Request, l \in {"getOrder", "auth"} :
             /\ GotoWith(p, l, r)
             /\ r.tx.id = asked + 1 /\ r.resets = 0 /\ r.snap = NoOrder
      BY <1>1, <1>5, AskMakes
    <2>2. UNCHANGED <<order, resets, mined, visit, promised>>
      BY <1>5 DEF Ask, chainVars
    <2>3. ~Taken(r.tx)
      BY <1>1, <2>1, TakenIsSent DEF Numbered, TypeOK
    <2>4. r.tx.oid \in Orders
      BY DEF Request, Tx
    <2> QED
      BY <1>1, <1>2, <1>4, <2>1, <2>2, <2>3, <2>4, EndsMove
  <1>6. ASSUME NEW p \in Payers, ReadOrder(p) \/ Auth(p) \/ ReadNonce(p)
        PROVE  Ends'
    <2>1. PICK r \in Request, l \in {"auth", "nonce", "send", "refused"} :
             /\ GotoWith(p, l, r) /\ pc[p] \in {"getOrder", "auth", "nonce"}
             /\ r.tx.id = req[p].tx.id /\ r.tx.oid = req[p].tx.oid
             /\ \/ r.snap = req[p].snap /\ r.resets = req[p].resets
                \/ r.snap = order[r.tx.oid] /\ r.resets = resets[r.tx.oid]
             /\ UNCHANGED <<now, chainVars, asked, promised, visit>>
      BY <1>1, <1>6, Prepares
    <2>2. UNCHANGED <<order, resets, mined, visit, promised>>
      BY <2>1 DEF chainVars
    <2>3. ~Taken(r.tx)
      <3>1. \A t \in Sent : t.id # r.tx.id
        BY <1>1, <2>1 DEF Sound, Ledger, Before
      <3> QED
        BY <3>1, TakenIsSent
    <2>4. r.tx.oid \in Orders
      BY DEF Request, Tx
    <2>5. /\ r.resets <= resets[r.tx.oid]
          /\ r.resets = resets[r.tx.oid] => TrueEnd(r.snap) <= TrueEnd(order[r.tx.oid])
      BY <1>2, <1>3, <2>1, <2>4 DEF Renews
    <2> QED
      BY <1>1, <1>2, <2>1, <2>2, <2>3, <2>5, EndsMove
  <1>7. ASSUME NEW p \in Payers, NEW l \in Busy, GotoWith(p, l, req[p]), pc[p] # "idle",
               UNCHANGED <<order, resets, mined, visit>>,
               \A o \in Orders : promised'[o] <= TrueEnd(order[o])
        PROVE  Ends'
    BY <1>1, <1>3, <1>7, PayerTypes, EndsMove DEF Renews
  <1>8. ASSUME NEW p \in Payers, Send(p)
        PROVE  Ends'
    <2>1. PICK l \in {"checkTx", "fail"} :
             /\ GotoWith(p, l, req[p]) /\ pc[p] = "send"
             /\ UNCHANGED <<now, order, resets, mined, nonce, asked, promised, visit>>
      BY <1>1, <1>8, Sends
    <2>2. l \in Busy
      BY DEF Busy
    <2> QED
      BY <1>2, <1>7, <2>1, <2>2
  <1>9. ASSUME NEW p \in Payers, CheckTx(p) \/ Reread(p)
        PROVE  Ends'
    <2>1. PICK l \in {"reread", "ack", "fail"} :
             /\ GotoWith(p, l, req[p]) /\ pc[p] \in {"checkTx", "reread"}
             /\ l # "fail" => pc[p] = "reread" \/ Taken(req[p].tx)
             /\ UNCHANGED promised \/ (l = "ack" /\ promised' = Raised(p))
             /\ UNCHANGED <<now, chainVars, asked, visit>>
      BY <1>1, <1>9, Confirms
    <2>2. l \in Busy /\ UNCHANGED <<order, resets, mined, visit>>
      BY <2>1 DEF Busy, chainVars
    <2>3. CASE UNCHANGED promised
      BY <1>2, <1>7, <2>1, <2>2, <2>3
    <2>4. CASE l = "ack" /\ promised' = Raised(p)
      <3> DEFINE o == req[p].tx.oid
      <3>1. Taken(req[p].tx)
        BY <1>1, <2>1, <2>4 DEF Sound, Ledger
      <3>2. o \in Orders
        BY <1>1, PayerTypes
      <3>3. PromisedBy(req[p]) <= TrueEnd(order[o])
        BY <1>2, <1>3, <2>1, <3>1, <3>2 DEF Renews, PromisedBy
      <3>4. \A x \in Orders : promised'[x] = promised[x]
                              \/ (x = o /\ promised'[x] = PromisedBy(req[p]))
        BY <1>1, <2>4, <3>2 DEF Raised, TypeOK
      <3>5. \A x \in Orders : promised'[x] <= TrueEnd(order[x])
        BY <1>2, <3>3, <3>4
      <3> QED
        BY <1>7, <2>1, <2>2, <3>5
    <2> QED
      BY <2>1, <2>3, <2>4
  <1>10. ASSUME NEW p \in Payers, Reply(p)
         PROVE  Ends'
    <2>1. NoRequest \in Request
      BY MarketAssumption DEF NoRequest, NoTx, NoOrder, Request, Tx, Order, Ops
    <2>2. /\ NoRequest.resets = 0 /\ NoRequest.snap = NoOrder
          /\ NoRequest.tx.oid \in Orders
      BY MarketAssumption DEF NoRequest, NoTx
    <2>3. GotoWith(p, "idle", NoRequest) /\ UNCHANGED <<order, resets, mined, visit, promised>>
      BY <1>10 DEF Reply, chainVars
    <2> QED
      BY <1>1, <1>2, <1>4, <2>1, <2>2, <2>3, EndsMove
  <1>11. ASSUME NEW t \in pool, Mine(t)
         PROVE  Ends'
    <2>1. /\ \E b \in BOOLEAN :
                /\ mined' = mined \cup {[tx |-> t, taken |-> b]}
                /\ b /\ t.op = "extend" =>
                    TrueEnd(order[t.oid]) + t.dur <= TrueEnd(order'[t.oid])
          /\ \A o \in Orders :
                \/ /\ resets'[o] = resets[o] /\ promised'[o] = promised[o]
                   /\ TrueEnd(order[o]) <= TrueEnd(order'[o])
                \/ resets'[o] = resets[o] + 1 /\ promised'[o] = 0
          /\ UNCHANGED <<now, pc, req, asked, visit>>
      BY <1>1, <1>11, Mines
    <2>2. ASSUME NEW x, Taken(x)', ~Taken(x), x.op = "extend"
          PROVE  TrueEnd(order[x.oid]) + x.dur <= TrueEnd(order'[x.oid])
      BY <2>1, <2>2 DEF Taken
    <2> QED
      BY <1>1, <2>1, <2>2, EndsAfter
  <1>12. ASSUME NEW o \in Orders, Cancel(o)
         PROVE  Ends'
    <2>1. /\ order' = [order EXCEPT ![o].status = 3]
          /\ UNCHANGED <<resets, mined, promised, pc, req, visit>>
      BY <1>12 DEF Cancel, payerVars
    <2>2. \A x \in Orders : TrueEnd(order'[x]) = TrueEnd(order[x])
      BY <1>1, <2>1 DEF TypeOK, Order, TrueEnd
    <2>3. \A t : Taken(t)' <=> Taken(t)
      BY <2>1 DEF Taken
    <2> QED
      BY <1>1, <1>2, <2>1, <2>2, <2>3, EndsAfter
  <1>13. ASSUME NEW v \in Visitors, Arrive(v) \/ VisitReads(v) \/ VisitChecks(v)
         PROVE  Ends'
    <2>1. UNCHANGED <<order, resets, mined, promised, pc, req>>
      BY <1>13 DEF Arrive, VisitReads, VisitChecks, chainVars, payerVars
    <2>2. \A p \in Payers : Renews(p)'
      BY <1>3, <2>1 DEF Renews, Taken
    <2>3. Due(v)'
      BY <1>1, <1>13, VisitDue
    <2>4. ASSUME NEW w \in Visitors \ {v} PROVE Due(w)'
      <3>1. visit'[w] = visit[w]
        BY <1>1, <1>13 DEF Arrive, VisitReads, VisitChecks, TypeOK
      <3> QED
        BY <1>1, <2>1, <3>1 DEF Due, Ends
    <2> QED
      BY <1>2, <2>1, <2>2, <2>3, <2>4 DEF Ends
  <1>14. CASE Tick \/ UNCHANGED vars
    <2>1. UNCHANGED <<order, resets, mined, promised, pc, req, visit>>
      BY <1>14 DEF Tick, vars, chainVars, payerVars
    <2> QED
      BY <1>1, <2>1 DEF Ends, Renews, Due, Taken
  <1> QED
    BY <1>5, <1>6, <1>8, <1>9, <1>10, <1>11, <1>12, <1>13, <1>14 DEF Next, Pay

-----------------------------------------------------------------------------
(* The invariant and what follows from it. *)

LEMMA InitInv == Init => IInv
  <1> SUFFICES ASSUME Init PROVE IInv
    OBVIOUS
  <1>1. TypeOK
    BY InitTypes
  <1>2. Sent = {} /\ mined = {} /\ pool = {}
    BY DEF Init, Sent
  <1>3. Numbered /\ Sound
    BY <1>2 DEF Init, Numbered, Sound, Ledger
  <1>4. \A o \in Orders : TrueEnd(order[o]) \in Nat /\ promised[o] = 0 /\ resets[o] = 0
    BY <1>1, EndIsNat DEF TypeOK, Init
  <1>5. 0 \in Orders /\ TrueEnd(NoOrder) = 0
    BY MarketAssumption DEF TrueEnd, NoOrder
  <1>6. \A p \in Payers : Renews(p)
    BY <1>4, <1>5 DEF Init, Renews, NoRequest, NoTx
  <1>7. \A v \in Visitors : Due(v)
    BY <1>4, <1>5 DEF Init, Due, NoVisit
  <1> QED
    BY <1>1, <1>2, <1>3, <1>4, <1>6, <1>7, FS_EmptySet DEF IInv, Ends

LEMMA Invariance == IInv /\ [Next]_vars => IInv'
  <1> SUFFICES ASSUME IInv, [Next]_vars PROVE IInv'
    OBVIOUS
  <1>1. TypeOK' /\ IsFiniteSet(pool')
    BY TypeStep, FiniteStep DEF IInv
  <1>2. Numbered' /\ Sound'
    BY LedgerStep DEF IInv
  <1>3. Ends'
    BY <1>1, EndsStep
  <1> QED
    BY <1>1, <1>2, <1>3 DEF IInv

LEMMA Inductive == Spec => []IInv
  BY InitInv, Invariance, PTL DEF Spec

\* Numbers stay natural numbers and requests keep their shape, however transactions,
\* renewals and resets interleave.
THEOREM MarketTypes == Spec => []TypeOK
  <1>1. IInv => TypeOK
    BY DEF IInv
  <1> QED
    BY <1>1, Inductive, PTL

LEMMA LedgerImplies == IInv => OneTransaction /\ WaitsForItsOwn
  <1> SUFFICES ASSUME IInv PROVE OneTransaction /\ WaitsForItsOwn
    OBVIOUS
  <1>1. ASSUME NEW p \in Payers
        PROVE  Ledger(p)
    BY DEF IInv, Sound
  <1>2. ASSUME NEW p \in Payers, pc[p] # "idle"
        PROVE  /\ Cardinality(SentFor(p)) <= 1
               /\ pc[p] = "ack" => \E m \in mined : m.tx = req[p].tx /\ m.taken
               /\ pc[p] = "refused" => SentFor(p) = {}
    <2>1. SentFor(p) = {} \/ SentFor(p) = {req[p].tx}
      BY <1>1, <1>2 DEF Ledger, SentFor
    <2>2. Cardinality(SentFor(p)) <= 1
      <3>1. CASE SentFor(p) = {}
        BY <3>1, FS_EmptySet
      <3>2. CASE SentFor(p) = {req[p].tx}
        <4>1. Cardinality({req[p].tx}) = 1
          BY FS_Singleton
        <4> QED
          BY <3>2, <4>1
      <3> QED
        BY <2>1, <3>1, <3>2
    <2>3. pc[p] = "refused" => SentFor(p) = {}
      BY <1>1, <1>2 DEF Ledger, SentFor, Before
    <2> QED
      BY <1>1, <2>2, <2>3 DEF Ledger, Taken
  <1> QED
    BY <1>1, <1>2 DEF OneTransaction, WaitsForItsOwn, Ledger

\* A request pays for one transaction at most, is acknowledged only for one the contract
\* took, and is refused only if none was sent.
THEOREM OneTransactionPerRequest == Spec => []OneTransaction
  BY LedgerImplies, Inductive, PTL

\* No request waits for a transaction that another request's has taken the place of.
THEOREM NoTransactionReplaced == Spec => []WaitsForItsOwn
  BY LedgerImplies, Inductive, PTL

\* Who changes a visitor from checkOrder to a verdict is VisitChecks of that visitor.
LEMMA OnlyChecks ==
    ASSUME IInv, [Next]_vars, NEW v \in Visitors, NEW verdict \in {"admitted", "expired"},
           Becomes(v, verdict)
    PROVE  /\ Verdict(visit[v].snap) = verdict
           /\ visit[v].snap \in Order /\ Due(v) /\ now \in Nat
  <1>1. visit \in [Visitors -> Visit] /\ visit[v].pc = "checkOrder" /\ visit'[v] # visit[v]
    BY DEF IInv, TypeOK, Becomes
  <1>2. \E w \in Visitors : Arrive(w) \/ VisitReads(w) \/ VisitChecks(w)
    <2>1. visit' # visit
      BY <1>1
    <2>2. ASSUME NEW p \in Payers, Ask(p) \/ Pay(p) PROVE visit' = visit
      BY <2>2 DEF Ask, Pay, ReadOrder, Auth, ReadNonce, Send, CheckTx, Reread, Reply
    <2>3. ASSUME NEW t \in pool, Mine(t) PROVE visit' = visit
      BY <2>3 DEF Mine
    <2>4. Tick \/ UNCHANGED vars \/ (\E o \in Orders : Cancel(o)) => visit' = visit
      BY DEF Tick, vars, Cancel
    <2> QED
      BY <2>1, <2>2, <2>3, <2>4 DEF Next
  <1>3. PICK w \in Visitors : Arrive(w) \/ VisitReads(w) \/ VisitChecks(w)
    BY <1>2
  <1>4. w = v
    BY <1>1, <1>3 DEF Arrive, VisitReads, VisitChecks
  <1>5. VisitChecks(v)
    BY <1>1, <1>3, <1>4 DEF Arrive, VisitReads
  <1>6. visit'[v] = [NoVisit EXCEPT !.pc = Verdict(visit[v].snap)]
    BY <1>1, <1>5 DEF VisitChecks
  <1>7. Verdict(visit[v].snap) = verdict
    BY <1>6 DEF Becomes, NoVisit
  <1>8. visit[v].snap \in Order /\ Due(v) /\ now \in Nat
    BY <1>1, MarketAssumption DEF Visit, IInv, Ends, TypeOK
  <1> QED
    BY <1>7, <1>8

LEMMA OrderOnChain ==
    ASSUME NEW o \in Order, NEW t \in Int
    PROVE  /\ ExpireCheck(o, t) => t <= TrueEnd(o)
           /\ TrueEnd(o) < Limit => (ExpireCheck(o, t) <=> t <= TrueEnd(o))
  <1> DEFINE x == [act |-> o.act, prob |-> o.prob, dur |-> o.dur]
  <1>1. x \in OnChain
    BY DEF Order, OnChain
  <1>2. TrueEnd(x) = TrueEnd(o) /\ (ExpireCheck(x, t) <=> ExpireCheck(o, t))
    BY DEF TrueEnd, ExpireCheck, Overflows, End
  <1> HIDE DEF x
  <1> QED
    BY <1>1, <1>2, ExpireCheckNeverLate, ExpireCheckExact

\* No order is used after its end, for all numbers a contract may hold, all widths of
\* the integers it is read into, and all moments at which it is read and checked.
THEOREM AdmittedInTime == Spec => NeverLate
  <1>1. IInv /\ [Next]_vars => [InTime]_vars
    <2> SUFFICES ASSUME IInv, [Next]_vars, NEW v \in Visitors, Becomes(v, "admitted")
                 PROVE  now <= TrueEnd(visit[v].snap)
      BY DEF InTime
    <2>1. Verdict(visit[v].snap) = "admitted" /\ visit[v].snap \in Order /\ now \in Nat
      BY OnlyChecks
    <2>2. ExpireCheck(visit[v].snap, now)
      BY <2>1 DEF Verdict
    <2> QED
      BY <2>1, <2>2, OrderOnChain
  <1> QED
    BY <1>1, Inductive, PTL DEF Spec, NeverLate

\* What an acknowledged renewal promises is kept: for any number of renewals, resets,
\* settlements and visits in any order, failed and late transactions included.
THEOREM RenewalsHold == Spec => RenewalHolds
  <1>1. IInv /\ [Next]_vars => [Renewed]_vars
    <2> SUFFICES ASSUME IInv, [Next]_vars, NEW v \in Visitors, Becomes(v, "expired"),
                        visit[v].due > 0, visit[v].resets = visit[v].dueResets,
                        TrueEnd(visit[v].snap) < Limit
                 PROVE  now > visit[v].due
      BY DEF Renewed
    <2>1. /\ Verdict(visit[v].snap) = "expired" /\ visit[v].snap \in Order
          /\ Due(v) /\ now \in Nat
      BY OnlyChecks
    <2>2. ~ExpireCheck(visit[v].snap, now)
      BY <2>1 DEF Verdict
    <2>3. visit[v].due <= TrueEnd(visit[v].snap)
      BY <2>1 DEF Due, Becomes
    <2>4. TrueEnd(visit[v].snap) \in Nat /\ visit[v].due \in Nat
      BY <2>1, EndIsNat DEF IInv, TypeOK, Visit
    <2>5. now > TrueEnd(visit[v].snap)
      BY <2>1, <2>2, <2>4, OrderOnChain
    <2> QED
      BY <2>1, <2>3, <2>4, <2>5
  <1> QED
    BY <1>1, Inductive, PTL DEF Spec, RenewalHolds
=============================================================================
