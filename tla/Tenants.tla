------------------------------ MODULE Tenants ------------------------------
(***************************************************************************)
(* What the gateway promises the accounts that share its cluster: each has  *)
(* apps of its own, node ports the cluster leases to them, entrances that   *)
(* lead to such ports and orders that name such apps, and only an account   *)
(* that is being served changes any of it, one thing at a time.             *)
(*                                                                          *)
(* There are no goroutines here, no calls, no errors and no cleanup: a      *)
(* deploy is whatever sequence of changes to the account's own things its   *)
(* calls amount to.  Module GatewayTenants shows that Gateway implements    *)
(* this.                                                                    *)
(***************************************************************************)
EXTENDS Naturals

CONSTANTS
    Apps, Accounts, Ports, Users, Orders,
    Lower,          \* [Users -> Accounts], whose entrance a user's is
    OrdersOf,       \* [Users -> SUBSET Orders]
    None

VARIABLES
    active,     \* accounts that are being served
    app,        \* each app of each account: "absent", "progressing" or "available"
    port,       \* the node port in front of it, or None
    had,        \* the ports it ever had
    entrance,   \* the port a user is forwarded to, or None
    named       \* the app an order names, or None

vars == <<active, app, port, had, entrance, named>>

Owned == Apps \X Accounts
Owner(d) == d[2]

Init ==
    /\ active = {}
    /\ app = [d \in Owned |-> "absent"]
    /\ port = [d \in Owned |-> None]
    /\ had = {}
    /\ entrance = [u \in Users |-> None]
    /\ named = [o \in Orders |-> None]

\* Requests of an account arrive, are answered, or end with the daemon.
Traffic ==
    /\ active' \in SUBSET Accounts
    /\ UNCHANGED <<app, port, had, entrance, named>>

Launch(d) ==
    /\ app[d] = "absent"
    /\ app' = [app EXCEPT ![d] = "progressing"]
    /\ UNCHANGED <<active, port, had, entrance, named>>

Remove(d) ==
    /\ app[d] # "absent"
    /\ app' = [app EXCEPT ![d] = "absent"]
    /\ UNCHANGED <<active, port, had, entrance, named>>

\* A port leads to one app at a time.
Lease(d, p) ==
    /\ port[d] = None
    /\ \A e \in Owned : port[e] # p
    /\ port' = [port EXCEPT ![d] = p]
    /\ had' = had \cup {<<d, p>>}
    /\ UNCHANGED <<active, app, entrance, named>>

Release(d) ==
    /\ port[d] # None
    /\ port' = [port EXCEPT ![d] = None]
    /\ UNCHANGED <<active, app, had, entrance, named>>

\* A user is forwarded only to a port that an app of the account has had.
Point(u, p) ==
    /\ \E d \in Owned : Owner(d) = Lower[u] /\ <<d, p>> \in had
    /\ entrance' = [entrance EXCEPT ![u] = p]
    /\ UNCHANGED <<active, app, port, had, named>>

\* An order names only an app of the account it belongs to, and one that had a port.
Assign(o, d) ==
    /\ \E u \in Users : o \in OrdersOf[u] /\ Lower[u] = Owner(d)
    /\ \E p \in Ports : <<d, p>> \in had
    /\ named' = [named EXCEPT ![o] = d]
    /\ UNCHANGED <<active, app, port, had, entrance>>

\* What an account that is being served does, to what is its own.
Act(a) ==
    \/ \E d \in Owned :
        /\ Owner(d) = a
        /\ \/ Launch(d) \/ Remove(d) \/ Release(d)
           \/ \E p \in Ports : Lease(d, p)
           \/ \E o \in Orders : Assign(o, d)
    \/ \E u \in Users, p \in Ports : Lower[u] = a /\ Point(u, p)

\* The containers of an app come up by themselves.
ComeUp(d) ==
    /\ app[d] = "progressing"
    /\ app' = [app EXCEPT ![d] = "available"]
    /\ UNCHANGED <<active, port, had, entrance, named>>

Next ==
    \/ Traffic
    \/ \E a \in active : Act(a)
    \/ \E d \in Owned : ComeUp(d)

Spec == Init /\ [][Next]_vars
=============================================================================
