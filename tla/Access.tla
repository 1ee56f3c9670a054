------------------------------- MODULE Access -------------------------------
(***************************************************************************)
(* Who is served, and until when: the cookie a user signs in for, its       *)
(* check before every deploy and forward, the order that must not have      *)
(* ended, and the pooled proxy that carries the request                     *)
(* (computing/server/httpserver/cookie.go and handler.go, lib/auth/hmac.go, *)
(* CheckAuthInfo of computing/gateway/local/local.go).                      *)
(*                                                                          *)
(* A visitor is a goroutine that serves a request, its label names what it  *)
(* does next; the clock is read once by each of the actions that look at    *)
(* `now', and runs on in between.  Orders do not move here (Market) and a   *)
(* deploy is one write (Gateway).  The cryptography is symbolic: a tag is   *)
(* what it signs.  Browsers are external.                                   *)
(***************************************************************************)
EXTENDS Expiry, Sequences, FiniteSets

CONSTANTS
    Visitors,       \* goroutines
    Clients,        \* browsers
    Users,          \* addresses as they are spelled in requests
    Accounts,       \* the addresses byte by byte
    Account,        \* [Users -> Accounts], HexDecode
    Wallet,         \* [Clients -> SUBSET Accounts], the keys a client signs with
    Terms,          \* [Clients -> times of the order it names]
    Foreign,        \* the name of another site's cookie
    Cheat,          \* the time stamp of testWhitelistMsg
    Proxies,        \* reverse proxies, as many as are ever in use
    SignExpire, CookieExpire,
    Slow,           \* seconds a request takes at most before it is forwarded
    Age,            \* how old a time stamp is at most when a client uses it
    MaxSignIns,     \* bound: requests for a cookie
    FirstJar,       \* [Clients -> cookies of other sites]
    Horizon,        \* bound: the last second
    None

VARIABLES
    now,        \* time.Now().Unix()
    signIns,    \* requests for a cookie so far
    jar,        \* each client's cookies of this site, in the order it sends them
    until,      \* history: how long the cookies a client was given are good for
    names,      \* history: the users a client has signed in as
    entrance,   \* the database: whose app a user is forwarded to, or None
    pool,       \* proxies in sync.Pool
    director,   \* the entrance a proxy's director leads to
    pc, req     \* label and request of each visitor

clientVars == <<jar, until, names>>
proxyVars == <<pool, director>>
vars == <<now, signIns, clientVars, entrance, proxyVars, pc, req>>

\* value and tag of a cookie, and the history of how it was made: the time stamp it
\* was asked for with, and when.
Cookie == [name : Users \cup {Foreign}, exp : Int, tag : (Users \X Int) \cup {None},
           stamp : Int, made : Nat]

ForeignCookie == [name |-> Foreign, exp |-> 0, tag |-> None, stamp |-> 0, made |-> 0]

ASSUME AccessAssumption ==
    /\ Account \in [Users -> Accounts]
    /\ Wallet \in [Clients -> SUBSET Accounts]
    /\ Terms \in [Clients -> [act : Nat, prob : Nat, dur : Nat]]
    /\ Foreign \notin Users
    /\ SignExpire \in Nat /\ CookieExpire \in Nat
    /\ Slow \in Nat /\ Age \in Nat /\ MaxSignIns \in Nat /\ Horizon \in Nat
    /\ Cheat \in Int /\ Cheat < 0
    /\ FirstJar \in [Clients -> {<<>>, <<ForeignCookie>>}]
    /\ None \notin Proxies \cup Accounts

Labels == {"idle", "auth", "makeCookie", "setCookie", "find", "deploy", "checkOrder",
           "getEntrance", "getProxy", "direct", "serve", "relay"}

Request == [client : Clients, since : Nat, user : Users \cup {None},
            signer : Accounts \cup {None}, stamp : Int, deploys : BOOLEAN,
            sent : Seq(Cookie), ck : Cookie \cup {None}, ent : Accounts \cup {None},
            proxy : Proxies \cup {None}]

ASSUME NoneIsNoRequest == None \notin Request

NoRequest(c) == [client |-> c, since |-> now, user |-> None, signer |-> None, stamp |-> 0,
                 deploys |-> FALSE, sent |-> <<>>, ck |-> None, ent |-> None, proxy |-> None]

Init ==
    /\ now = 0
    /\ signIns = 0
    /\ jar = FirstJar
    /\ until = [c \in Clients |-> 0]
    /\ names = [c \in Clients |-> {}]
    /\ entrance = [u \in Users |-> None]
    /\ pool = {}
    /\ director = [x \in Proxies |-> None]
    /\ pc = [v \in Visitors |-> "idle"]
    /\ req = [v \in Visitors |-> None]

Goto(v, l, r) == pc' = [pc EXCEPT ![v] = l] /\ req' = [req EXCEPT ![v] = r]

\* A handler returns; what it answers is in the cookie jar or does not matter.
Return(v) == Goto(v, "idle", None)

-----------------------------------------------------------------------------
(* handlerCookie. *)

Recent(t) == {s \in t - Age .. t : s >= 0}

SignIn(v, c) ==
    /\ pc[v] = "idle" /\ signIns < MaxSignIns
    /\ signIns' = signIns + 1
    /\ \E u \in Users, a \in Wallet[c], stamp \in Recent(now) \cup {Cheat} :
        Goto(v, "auth", [NoRequest(c) EXCEPT !.user = u, !.signer = a, !.stamp = stamp])
    /\ UNCHANGED <<now, clientVars, entrance, proxyVars>>

\* CheckAuthInfo: recent, and signed by the address byte by byte; or the code for tests.
Authentic(r) ==
    \/ r.stamp = Cheat
    \/ CheckExpire(r.stamp, SignExpire, now) /\ r.signer = Account[r.user]

\* Mutant: how old the time stamp is does not matter.
CheckAuthInfoAnyAge(v) ==
    LET r == req[v] IN
    /\ pc[v] = "auth"
    /\ IF r.stamp = Cheat \/ r.signer = Account[r.user] THEN Goto(v, "makeCookie", r)
       ELSE Return(v)
    /\ UNCHANGED <<now, signIns, clientVars, entrance, proxyVars>>

CheckAuthInfo(v) ==
    /\ pc[v] = "auth"
    /\ IF Authentic(req[v]) THEN Goto(v, "makeCookie", [req[v] EXCEPT !.signer = None])
       ELSE Return(v)
    /\ UNCHANGED <<now, signIns, clientVars, entrance, proxyVars>>

\* SignToken; VerifyToken makes the tag once more and compares.
Tag(u, expire) == <<u, expire>>

CookieOf(r, expire) ==
    [name |-> r.user, exp |-> expire, tag |-> Tag(r.user, expire),
     stamp |-> r.stamp, made |-> now]

MakeCookie(v) ==
    /\ pc[v] = "makeCookie"
    /\ Goto(v, "setCookie", [req[v] EXCEPT !.ck = CookieOf(req[v], now + CookieExpire)])
    /\ UNCHANGED <<now, signIns, clientVars, entrance, proxyVars>>

\* MaxAge is 0 in SetCookie: a cookie for the session, which stays when it has expired
\* and until one of its name takes its place.
Stored(cks, ck) ==
    IF \E i \in DOMAIN cks : cks[i].name = ck.name
    THEN [i \in DOMAIN cks |-> IF cks[i].name = ck.name THEN ck ELSE cks[i]]
    ELSE Append(cks, ck)

Later(s, t) == IF s > t THEN s ELSE t

\* The answer reaches the client or is lost.
SetCookie(v) ==
    LET c == req[v].client
        ck == req[v].ck
    IN  /\ pc[v] = "setCookie"
        /\ \/ /\ jar' = [jar EXCEPT ![c] = Stored(@, ck)]
              /\ until' = [until EXCEPT ![c] = Later(@, ck.made + CookieExpire)]
              /\ names' = [names EXCEPT ![c] = @ \cup {ck.name}]
           \/ UNCHANGED clientVars
        /\ Return(v)
        /\ UNCHANGED <<now, signIns, entrance, proxyVars>>

\* The cookies of the session go, those of other sites stay.
CloseBrowser(c) ==
    /\ jar' = [jar EXCEPT ![c] = FirstJar[c]]
    /\ until' = [until EXCEPT ![c] = 0]
    /\ names' = [names EXCEPT ![c] = {}]
    /\ UNCHANGED <<now, signIns, entrance, proxyVars, pc, req>>

-----------------------------------------------------------------------------
(* handlerDeployUrl and handlerCompute. *)

\* Mutant: other sites' cookies are looked at too.
OwnCookiesAny(cks) == DOMAIN cks

\* Cookies of other names are skipped.
OwnCookies(cks) == {i \in DOMAIN cks : cks[i].name # Foreign}

\* The Cookie header; or, for deployurl, an Authorization header instead: injectCookie
\* takes a cookie that came as Bearer, and any other one hides the cookies.
SentWith(c, deploys) ==
    {jar[c]} \cup (IF deploys THEN {<<>>} \cup {<<jar[c][i]>> : i \in OwnCookies(jar[c])}
                  ELSE {})

Visit(v, c) ==
    /\ pc[v] = "idle"
    /\ \E deploys \in BOOLEAN : \E cks \in SentWith(c, deploys) :
        Goto(v, "find", [NoRequest(c) EXCEPT !.sent = cks, !.deploys = deploys])
    /\ UNCHANGED <<now, signIns, clientVars, entrance, proxyVars>>

\* VerifyToken, then the time.
Good(ck) == ck.tag = Tag(ck.name, ck.exp) /\ now < ck.exp

\* The first cookie of the gateway's kind decides, good or bad.
FindCookie(v) ==
    LET r == req[v]
        own == OwnCookies(r.sent)
    IN  /\ pc[v] = "find"
        /\ IF \E i \in own : (\A j \in own : i <= j) /\ Good(r.sent[i])
           THEN \E i \in own :
                  /\ \A j \in own : i <= j
                  /\ Goto(v, IF r.deploys THEN "deploy" ELSE "checkOrder",
                          [r EXCEPT !.ck = r.sent[i], !.sent = <<>>])
           ELSE Return(v)
        /\ UNCHANGED <<now, signIns, clientVars, entrance, proxyVars>>

\* The entrance is that of an app of the account (Gateway).
Deploy(v) ==
    LET u == req[v].ck.name IN
    /\ pc[v] = "deploy"
    /\ entrance' = [entrance EXCEPT ![u] = Account[u]]
    /\ Return(v)
    /\ UNCHANGED <<now, signIns, clientVars, proxyVars>>

CheckOrder(v) ==
    /\ pc[v] = "checkOrder"
    /\ \/ /\ ExpireCheck(Terms[req[v].client], now)
          /\ Goto(v, "getEntrance", req[v])
       \/ ~ExpireCheck(Terms[req[v].client], now) /\ Return(v)
    /\ UNCHANGED <<now, signIns, clientVars, entrance, proxyVars>>

\* Mutant: the error of GetEntrance is dropped.
GetEntranceDropsError(v) ==
    /\ pc[v] = "getEntrance"
    /\ Goto(v, "getProxy", [req[v] EXCEPT !.ent = entrance[req[v].ck.name]])
    /\ UNCHANGED <<now, signIns, clientVars, entrance, proxyVars>>

GetEntrance(v) ==
    LET e == entrance[req[v].ck.name] IN
    /\ pc[v] = "getEntrance"
    /\ IF e # None THEN Goto(v, "getProxy", [req[v] EXCEPT !.ent = e]) ELSE Return(v)
    /\ UNCHANGED <<now, signIns, clientVars, entrance, proxyVars>>

Held == {req[v].proxy : v \in {w \in Visitors : pc[w] # "idle"}}

\* Mutant: the proxy goes back to the pool before it is used (Put without defer).
GetProxyPutsBack(v) ==
    /\ pc[v] = "getProxy"
    /\ \E x \in Proxies :
        /\ x \in pool \/ x \notin Held
        /\ pool' = pool \cup {x}
        /\ Goto(v, "direct", [req[v] EXCEPT !.proxy = x])
    /\ UNCHANGED <<now, signIns, clientVars, entrance, director>>

\* sync.Pool.Get: one from the pool, or a new one, which has no director yet.
GetProxy(v) ==
    /\ pc[v] = "getProxy"
    /\ \E x \in Proxies \ Held :
        /\ pool' = pool \ {x}
        /\ Goto(v, "direct", [req[v] EXCEPT !.proxy = x])
    /\ UNCHANGED <<now, signIns, clientVars, entrance, director>>

\* proxy.Director = director
Direct(v) ==
    /\ pc[v] = "direct"
    /\ director' = [director EXCEPT ![req[v].proxy] = req[v].ent]
    /\ Goto(v, "serve", req[v])
    /\ UNCHANGED <<now, signIns, clientVars, entrance, pool>>

\* ServeHTTP asks the director and relays for as long as it takes.
Serve(v) ==
    /\ pc[v] = "serve"
    /\ Goto(v, "relay", [req[v] EXCEPT !.ent = director[req[v].proxy], !.ck = None, !.since = 0])
    /\ UNCHANGED <<now, signIns, clientVars, entrance, proxyVars>>

\* The deferred Put.
PutProxy(v) ==
    /\ pc[v] = "relay"
    /\ pool' = pool \cup {req[v].proxy}
    /\ Return(v)
    /\ UNCHANGED <<now, signIns, clientVars, entrance, director>>

-----------------------------------------------------------------------------
(* The clock and the garbage collector. *)

Tick ==
    /\ now < Horizon
    /\ \A v \in Visitors : pc[v] \notin {"idle", "relay"} => now - req[v].since < Slow
    /\ now' = now + 1
    /\ UNCHANGED <<signIns, clientVars, entrance, proxyVars, pc, req>>

\* sync.Pool lets go of what it holds.
Collect ==
    /\ \E x \in pool : pool' = pool \ {x} /\ director' = [director EXCEPT ![x] = None]
    /\ UNCHANGED <<now, signIns, clientVars, entrance, pc, req>>

Step(v) ==
    \/ CheckAuthInfo(v) \/ MakeCookie(v) \/ SetCookie(v)
    \/ FindCookie(v) \/ Deploy(v) \/ CheckOrder(v) \/ GetEntrance(v)
    \/ GetProxy(v) \/ Direct(v) \/ Serve(v) \/ PutProxy(v)

Next ==
    \/ \E v \in Visitors : Step(v) \/ \E c \in Clients : SignIn(v, c) \/ Visit(v, c)
    \/ \E c \in Clients : CloseBrowser(c)
    \/ Tick \/ Collect

Spec == Init /\ [][Next]_vars

-----------------------------------------------------------------------------
(* Properties. *)

\* Types; a request that is past GetEntrance has an entrance.
TypeOK ==
    /\ now \in 0 .. Horizon /\ signIns \in 0 .. MaxSignIns
    /\ jar \in [Clients -> Seq(Cookie)]
    /\ until \in [Clients -> Nat] /\ names \in [Clients -> SUBSET Users]
    /\ entrance \in [Users -> Accounts \cup {None}]
    /\ pool \subseteq Proxies /\ director \in [Proxies -> Accounts \cup {None}]
    /\ pc \in [Visitors -> Labels]
    /\ req \in [Visitors -> Request \cup {None}]
    /\ \A v \in Visitors :
        /\ pc[v] = "idle" <=> req[v] = None
        /\ pc[v] \in {"getProxy", "direct", "serve"} => req[v].ent \in Accounts

Forwards(v) == pc[v] = "serve" /\ pc'[v] = "relay"

\* No request is forwarded longer than the periods of the configuration add up to: its
\* cookie was made from a time stamp that was recent but for one slow request, and
\* expired at most one slow request ago, and so did the order.  A client is served only
\* as an account it holds the key of.  (But for the code for tests of computing/README.)
Served == \A v \in Visitors : Forwards(v) =>
    LET ck == req[v].ck
        c == req[v].client
    IN  /\ now < ck.made + CookieExpire + Slow
        /\ now <= TrueEnd(Terms[c]) + Slow
        /\ ck.stamp # Cheat =>
             ck.made < ck.stamp + SignExpire + Slow /\ Account[ck.name] \in Wallet[c]

ServiceEnds == [][Served]_vars

\* A request is forwarded to an entrance of the account its cookie names, however many
\* requests share the pool of proxies (handlerCompute: Get, Director, ServeHTTP, Put).
Directed == \A v \in Visitors : Forwards(v) => req'[v].ent = Account[req[v].ck.name]

OwnEntrance == [][Directed]_vars

\* A client that signs in as one user, and is told so, is let in until the latest of its
\* cookies expires, but for one slow request: signing in twice at once may leave it with
\* the older of two cookies.  Cookies of other sites do not get in its way.
LetIn == \A v \in Visitors :
    LET c == req[v].client IN
    (/\ pc[v] = "find" /\ ~req[v].deploys /\ pc'[v] = "idle"
     /\ Cardinality(names[c]) = 1
     /\ req[v].sent = jar[c])
    => now + Slow >= until[c]

LoginLasts == [][LetIn]_vars
=============================================================================
