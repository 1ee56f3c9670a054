----------------------------- MODULE MCGateway -----------------------------
(* Small instances of Gateway for TLC. *)
EXTENDS GatewayTenants, TLC

CONSTANTS p1, p2, portA, portB, Hello, Nginx, Tomcat, Site

\* Two accounts; "0xA" and "0xa" are two spellings of one address.
MCLower == ("0xA" :> "a") @@ ("0xa" :> "a") @@ ("0xB" :> "b")
MCUsers == {"0xA", "0xB"}
MCUsersLower == [u \in MCUsers |-> MCLower[u]]
MCAllUsers == {"0xA", "0xa", "0xB"}
MCSpellings == {"0xA", "0xa"}
MCSpellingsLower == [u \in MCSpellings |-> MCLower[u]]
MCOneUser == {"0xA"}
MCOneUserLower == [u \in MCOneUser |-> MCLower[u]]

\* bin/yamls: hello-world and nginx have one Deployment (only nginx has a nodeSelector),
\* tomcat-dm has two and brings Services; Site has one and brings a Service.  The first
\* Deployment is called "web" in all of them, so that they get in each other's way.
MCDeps == (Hello :> <<"web">>) @@ (Nginx :> <<"web">>)
          @@ (Tomcat :> <<"web", "db">>) @@ (Site :> <<"web">>)
MCSvcs == (Hello :> <<>>) @@ (Nginx :> <<>>)
          @@ (Tomcat :> <<"dbsvc">>) @@ (Site :> <<"websvc">>)
MCNginx == [y \in {Nginx} |-> MCDeps[y]]
MCNginxSvcs == [y \in {Nginx} |-> MCSvcs[y]]
MCHello == [y \in {Hello} |-> MCDeps[y]]
MCHelloSvcs == [y \in {Hello} |-> MCSvcs[y]]
MCTomcat == [y \in {Tomcat} |-> MCDeps[y]]
MCTomcatSvcs == [y \in {Tomcat} |-> MCSvcs[y]]
MCSite == [y \in {Site} |-> MCDeps[y]]
MCSiteSvcs == [y \in {Site} |-> MCSvcs[y]]

\* Each account has an order of its own.
MCOrdersOf == [u \in MCUsers |-> IF u = "0xA" THEN {1} ELSE {2}]
MCAllOrdersOf == [u \in MCAllUsers |-> IF u = "0xB" THEN {2} ELSE {1}]
MCSpellingsOrdersOf == [u \in MCSpellings |-> {1}]
MCOneOrdersOf == [u \in MCOneUser |-> {1}]

Symmetry == Permutations({p1, p2}) \cup Permutations({portA, portB})

NotDelSvc == (Labels \ {"idle", "delSvc"})
NotDeletes == Calls \ {"delDep", "delSvc"}
=============================================================================
