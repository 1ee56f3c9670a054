--------------------------- MODULE GatewayTenants ---------------------------
(***************************************************************************)
(* The gateway implements Tenants: seen from outside, the interleaved calls *)
(* of its requests are steps of accounts that are being served, each on     *)
(* what is that account's own.                                              *)
(***************************************************************************)
EXTENDS Gateway

\* An account is being served while a goroutine works on a request of it.
Served == {Account(req[p]) : p \in {q \in Procs : pc[q] # "idle"}}

T == INSTANCE Tenants WITH
        active <- Served,
        app <- deployment,
        port <- npSvc,
        had <- leased,
        named <- [o \in Orders |-> order[o].app]

\* No interleaving of deploys, cleans, failing calls, cleanups and kills is seen by an
\* account as anything but its own requests at work: whatever is launched, removed,
\* leased, released, pointed to or named is, in one step, one thing of one account that
\* has a request under way (the suffix of Deploy, the order read by handlerClean, the
\* port carried from CreateNodePortSvc to DB.Put, the name handed to SetApp).
ImplementsTenants == T!Spec
=============================================================================
