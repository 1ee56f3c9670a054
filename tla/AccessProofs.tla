---------------------------- MODULE AccessProofs ----------------------------
(***************************************************************************)
(* Proofs about module Access, for any number of visitors, clients, users   *)
(* and proxies and any periods.  IInv says what a visitor at a label knows  *)
(* of its request, that a cookie stands for the sign-in it was made in,     *)
(* that nobody shares a proxy, and that the last cookie a client was given  *)
(* for its only name is in its jar.                                         *)
(***************************************************************************)
EXTENDS Access, ExpiryProofs, FiniteSetTheorems, SequenceTheorems

\* What the history of a cookie of the gateway says of a client that has it.
Genuine(c, ck) ==
    ck.name # Foreign =>
        /\ ck.name \in Users /\ ck.tag = Tag(ck.name, ck.exp)
        /\ ck.exp = ck.made + CookieExpire /\ ck.made <= now
        /\ ck.stamp # Cheat =>
            ck.made < ck.stamp + SignExpire + Slow /\ Account[ck.name] \in Wallet[c]

Found == {"deploy", "checkOrder", "getEntrance", "getProxy", "direct", "serve"}
Holding == {"direct", "serve", "relay"}

\* What a visitor knows at its label.
Timely(v) ==
    LET r == req[v] IN
    pc[v] \notin {"idle", "relay"} => r.since <= now /\ now <= r.since + Slow

Signs(v) ==
    LET r == req[v] IN
    /\ pc[v] = "auth" =>
        /\ r.user \in Users /\ r.signer \in Wallet[r.client]
        /\ r.stamp = Cheat \/ r.stamp \in Nat
    /\ pc[v] = "makeCookie" =>
        /\ r.user \in Users
        /\ r.stamp # Cheat =>
            r.since < r.stamp + SignExpire /\ Account[r.user] \in Wallet[r.client]
    /\ pc[v] = "setCookie" =>
        /\ r.ck \in Cookie /\ r.ck.name # Foreign
        /\ Genuine(r.client, r.ck) /\ r.since <= r.ck.made

Visits(v) ==
    LET r == req[v] IN
    /\ pc[v] = "find" => \A i \in DOMAIN r.sent : Genuine(r.client, r.sent[i])
    /\ pc[v] \in Found =>
        /\ r.ck \in Cookie /\ r.ck.name # Foreign
        /\ Genuine(r.client, r.ck) /\ r.since < r.ck.exp
    /\ pc[v] \in {"getEntrance", "getProxy", "direct", "serve"} =>
        r.since <= TrueEnd(Terms[r.client])
    /\ pc[v] \in {"getProxy", "direct", "serve"} => r.ent = Account[r.ck.name]
    /\ pc[v] \in Holding => r.proxy \in Proxies
    /\ pc[v] = "serve" => director[r.proxy] = r.ent

Known == \A v \in Visitors : Timely(v) /\ Signs(v) /\ Visits(v)

Entrances == \A u \in Users : entrance[u] \in {None, Account[u]}

\* A proxy that is held is held by one visitor, and is not in the pool.
Unshared ==
    /\ \A v \in Visitors : pc[v] \in Holding => req[v].proxy \notin pool
    /\ \A v, w \in Visitors :
        v # w /\ pc[v] \in Holding /\ pc[w] \in Holding => req[v].proxy # req[w].proxy

\* No two cookies of one name.
Distinct(cks) ==
    \A i, j \in OwnCookies(cks) : cks[i].name = cks[j].name => i = j

Jar(c) ==
    /\ \A i \in DOMAIN jar[c] : Genuine(c, jar[c][i])
    /\ Distinct(jar[c])
    /\ \A i \in OwnCookies(jar[c]) : jar[c][i].name \in names[c]
    /\ IsFiniteSet(names[c])
    /\ until[c] <= now + CookieExpire
    /\ \A u \in Users : names[c] = {u} =>
        \E i \in OwnCookies(jar[c]) : until[c] <= jar[c][i].made + CookieExpire + Slow

Jars == \A c \in Clients : Jar(c)

IInv == TypeOK /\ Known /\ Entrances /\ Unshared /\ Jars

-----------------------------------------------------------------------------
(* The types, in two halves, and how a step moves one visitor. *)

StoresOK ==
    /\ now \in 0 .. Horizon /\ signIns \in 0 .. MaxSignIns
    /\ jar \in [Clients -> Seq(Cookie)]
    /\ until \in [Clients -> Nat] /\ names \in [Clients -> SUBSET Users]
    /\ entrance \in [Users -> Accounts \cup {None}]
    /\ pool \subseteq Proxies /\ director \in [Proxies -> Accounts \cup {None}]

VisitorsOK ==
    /\ pc \in [Visitors -> Labels]
    /\ req \in [Visitors -> Request \cup {None}]
    /\ \A v \in Visitors :
        /\ pc[v] = "idle" <=> req[v] = None
        /\ pc[v] \in {"getProxy", "direct", "serve"} => req[v].ent \in Accounts

LEMMA Halves == TypeOK <=> StoresOK /\ VisitorsOK
  BY Zenon DEF TypeOK, StoresOK, VisitorsOK

LEMMA HalvesNext == TypeOK' <=> StoresOK' /\ VisitorsOK'
  BY Zenon DEF TypeOK, StoresOK, VisitorsOK

LEMMA Working ==
    ASSUME VisitorsOK, NEW v \in Visitors, pc[v] # "idle"
    PROVE  req[v] \in Request
  BY DEF VisitorsOK

LEMMA MovesType ==
    ASSUME VisitorsOK, NEW v \in Visitors, NEW l \in Labels, NEW r \in Request \cup {None},
           Goto(v, l, r), l = "idle" <=> r = None,
           l \in {"getProxy", "direct", "serve"} => r.ent \in Accounts
    PROVE  /\ VisitorsOK'
           /\ pc'[v] = l /\ req'[v] = r
           /\ \A w \in Visitors \ {v} : pc'[w] = pc[w] /\ req'[w] = req[w]
  BY DEF VisitorsOK, Goto

\* The other visitors know what they knew.
LEMMA OthersKnow ==
    ASSUME Known, NEW v \in Visitors, UNCHANGED now,
           \A w \in Visitors \ {v} : pc'[w] = pc[w] /\ req'[w] = req[w],
           \A w \in Visitors \ {v} : pc[w] = "serve" =>
               director'[req[w].proxy] = director[req[w].proxy],
           (Timely(v) /\ Signs(v) /\ Visits(v))'
    PROVE  Known'
  <1>1. ASSUME NEW w \in Visitors \ {v}
        PROVE  (Timely(w) /\ Signs(w) /\ Visits(w))'
    <2>1. pc'[w] = pc[w] /\ req'[w] = req[w] /\ Timely(w) /\ Signs(w) /\ Visits(w)
      BY DEF Known
    <2>2. Timely(w)'
      BY <2>1 DEF Timely
    <2>3. Signs(w)'
      BY <2>1 DEF Signs, Genuine
    <2>4. Visits(w)'
      BY <2>1 DEF Visits, Genuine
    <2> QED
      BY <2>2, <2>3, <2>4
  <1> QED
    BY <1>1 DEF Known

LEMMA JarsStay ==
    ASSUME Jars, UNCHANGED <<now, clientVars>>
    PROVE  Jars'
  BY DEF Jars, Jar, Genuine, clientVars, Distinct

\* A visitor goes on with a request; no proxy changes hands.
LEMMA Goes ==
    ASSUME IInv, NEW v \in Visitors, NEW l \in Labels \ {"idle"}, NEW r \in Request,
           Goto(v, l, r), UNCHANGED <<now, clientVars, proxyVars, entrance>>,
           signIns' \in 0 .. MaxSignIns,
           l \in Holding => pc[v] \in Holding /\ r.proxy = req[v].proxy,
           l \in {"getProxy", "direct", "serve"} => r.ent \in Accounts,
           (Timely(v) /\ Signs(v) /\ Visits(v))'
    PROVE  IInv'
  <1>1. VisitorsOK /\ StoresOK /\ Known /\ Entrances /\ Unshared /\ Jars
    BY Halves DEF IInv
  <1>2. /\ VisitorsOK' /\ pc'[v] = l /\ req'[v] = r
        /\ \A w \in Visitors \ {v} : pc'[w] = pc[w] /\ req'[w] = req[w]
    BY <1>1, NoneIsNoRequest, MovesType
  <1>3. StoresOK'
    BY <1>1 DEF StoresOK, clientVars, proxyVars
  <1>4. Known'
    BY <1>1, <1>2, OthersKnow DEF proxyVars
  <1>5. Entrances' /\ Jars'
    BY <1>1, JarsStay DEF Entrances
  <1>6. Unshared'
    BY <1>1, <1>2 DEF Unshared, proxyVars
  <1> QED
    BY <1>2, <1>3, <1>4, <1>5, <1>6, HalvesNext DEF IInv

\* A handler returns; a proxy it held may be put back.
LEMMA Returns ==
    ASSUME IInv, NEW v \in Visitors, Return(v), UNCHANGED <<now, signIns, director>>,
           Jars', \A c \in Clients : jar'[c] \in Seq(Cookie) /\ until'[c] \in Nat
                                     /\ names'[c] \in SUBSET Users,
           jar' = [c \in Clients |-> jar'[c]], until' = [c \in Clients |-> until'[c]],
           names' = [c \in Clients |-> names'[c]],
           entrance' \in [Users -> Accounts \cup {None}], Entrances',
           pool' = pool \/ (pc[v] \in Holding /\ pool' = pool \cup {req[v].proxy})
    PROVE  IInv'
  <1>1. VisitorsOK /\ StoresOK /\ Known /\ Unshared
    BY Halves DEF IInv
  <1>2. "idle" \in Labels
    BY DEF Labels
  <1>3. /\ VisitorsOK' /\ pc'[v] = "idle" /\ req'[v] = None
        /\ \A w \in Visitors \ {v} : pc'[w] = pc[w] /\ req'[w] = req[w]
    BY <1>1, <1>2, MovesType DEF Return
  <1>4. StoresOK'
    <2>1. pc[v] \in Holding => req[v].proxy \in Proxies
      BY <1>1 DEF Known, Visits
    <2>2. pool' \subseteq Proxies
      BY <1>1, <2>1 DEF StoresOK
    <2> QED
      BY <1>1, <2>2 DEF StoresOK
  <1>5. (Timely(v) /\ Signs(v) /\ Visits(v))'
    BY <1>3 DEF Timely, Signs, Visits, Found, Holding
  <1>6. Known'
    BY <1>1, <1>3, <1>5, OthersKnow
  <1>7. Unshared'
    <2>1. ASSUME NEW w \in Visitors, pc'[w] \in Holding
          PROVE  w # v /\ pc[w] \in Holding /\ req'[w] = req[w] /\ req[w].proxy \notin pool'
      BY <1>1, <1>3, <2>1 DEF Unshared, Holding
    <2> QED
      BY <1>1, <2>1 DEF Unshared
  <1> QED
    BY <1>3, <1>4, <1>6, <1>7, HalvesNext DEF IInv

\* It returns and leaves everything as it is.
LEMMA ReturnsQuietly ==
    ASSUME IInv, NEW v \in Visitors, Return(v),
           UNCHANGED <<now, signIns, clientVars, entrance, proxyVars>>
    PROVE  IInv'
  <1>1. StoresOK /\ Jars /\ Entrances
    BY Halves DEF IInv
  <1>2. Jars' /\ Entrances'
    BY <1>1, JarsStay DEF Entrances
  <1> QED
    BY <1>1, <1>2, Returns DEF StoresOK, clientVars, proxyVars

-----------------------------------------------------------------------------
(* handlerCookie. *)

LEMMA NewRequest ==
    ASSUME StoresOK, NEW c \in Clients
    PROVE  /\ NoRequest(c) \in Request
           /\ NoRequest(c).client = c /\ NoRequest(c).since = now
  <1>1. now \in Nat
    BY AccessAssumption DEF StoresOK
  <1>2. <<>> \in Seq(Cookie)
    OBVIOUS
  <1> QED
    BY <1>1, <1>2 DEF NoRequest, Request

LEMMA SignInStep ==
    ASSUME IInv, NEW v \in Visitors, NEW c \in Clients, SignIn(v, c)
    PROVE  IInv'
  <1>1. StoresOK /\ now \in Nat /\ Slow \in Nat
    BY Halves, AccessAssumption DEF IInv, StoresOK
  <1>2. PICK u \in Users, a \in Wallet[c], stamp \in Recent(now) \cup {Cheat} :
           Goto(v, "auth", [NoRequest(c) EXCEPT !.user = u, !.signer = a, !.stamp = stamp])
    BY DEF SignIn
  <1> DEFINE r == [NoRequest(c) EXCEPT !.user = u, !.signer = a, !.stamp = stamp]
  <1>3. a \in Accounts /\ stamp \in Int /\ (stamp = Cheat \/ stamp \in Nat)
    BY <1>1, AccessAssumption DEF Recent
  <1>4. /\ r \in Request /\ r.client = c /\ r.since = now
        /\ r.user = u /\ r.signer = a /\ r.stamp = stamp
    <2>1. PICK n \in Request : n = NoRequest(c) /\ n.client = c /\ n.since = now
      BY <1>1, NewRequest
    <2>2. r = [n EXCEPT !.user = u, !.signer = a, !.stamp = stamp]
      BY <2>1
    <2> QED
      BY <1>3, <2>1, <2>2 DEF Request
  <1> HIDE DEF r
  <1>5. Goto(v, "auth", r) /\ UNCHANGED <<now, clientVars, proxyVars, entrance>>
    BY <1>2 DEF SignIn, r
  <1>6. "auth" \in Labels \ {"idle"} /\ "auth" \notin Holding
    BY DEF Labels, Holding
  <1>7. pc'[v] = "auth" /\ req'[v] = r
    BY <1>4, <1>5, <1>6, MovesType, NoneIsNoRequest, Halves DEF IInv
  <1>8. (Timely(v) /\ Signs(v) /\ Visits(v))'
    <2>1. Timely(v)'
      BY <1>1, <1>4, <1>5, <1>7 DEF Timely
    <2>2. Signs(v)'
      BY <1>3, <1>4, <1>7 DEF Signs
    <2>3. Visits(v)'
      BY <1>7 DEF Visits, Found, Holding
    <2> QED
      BY <2>1, <2>2, <2>3
  <1>9. signIns' \in 0 .. MaxSignIns
    BY <1>1, AccessAssumption DEF SignIn, StoresOK
  <1> QED
    BY <1>4, <1>5, <1>6, <1>8, <1>9, Goes

\* A time stamp that passes was younger than its validity when it was looked at.
LEMMA RecentEnough ==
    ASSUME NEW stamp \in Nat, NEW t \in Int, CheckExpire(stamp, SignExpire, t)
    PROVE  t < stamp + SignExpire
  <1>1. stamp + SignExpire \in Nat
    BY AccessAssumption
  <1>2. Int64(stamp + SignExpire) <= stamp + SignExpire /\ Int64(stamp + SignExpire) \in Int
    BY <1>1, Wrapping, ExpiryAssumption
  <1> QED
    BY <1>1, <1>2 DEF CheckExpire

LEMMA CheckAuthInfoStep ==
    ASSUME IInv, NEW v \in Visitors, CheckAuthInfo(v)
    PROVE  IInv'
  <1>1. StoresOK /\ VisitorsOK /\ Timely(v) /\ Signs(v)
    BY Halves DEF IInv, Known
  <1>2. pc[v] = "auth" /\ UNCHANGED <<now, signIns, clientVars, entrance, proxyVars>>
    BY DEF CheckAuthInfo
  <1>3. PICK r \in Request : r = req[v]
    BY <1>1, <1>2, Working
  <1>4. CASE Return(v)
    BY <1>2, <1>4, ReturnsQuietly
  <1>5. CASE Authentic(r) /\ Goto(v, "makeCookie", [r EXCEPT !.signer = None])
    <2> DEFINE x == [r EXCEPT !.signer = None]
    <2>1. /\ x \in Request /\ x.client = r.client /\ x.since = r.since
          /\ x.user = r.user /\ x.stamp = r.stamp
      BY DEF Request
    <2> HIDE DEF x
    <2>2. "makeCookie" \in Labels \ {"idle"} /\ "makeCookie" \notin Holding
      BY DEF Labels, Holding
    <2>3. Goto(v, "makeCookie", x)
      BY <1>5 DEF x
    <2>4. pc'[v] = "makeCookie" /\ req'[v] = x
      BY <1>1, <2>1, <2>2, <2>3, MovesType, NoneIsNoRequest
    <2>5. Timely(v)'
      BY <1>1, <1>2, <1>3, <2>1, <2>4 DEF Timely
    <2>6. r.stamp # Cheat => r.since < r.stamp + SignExpire /\ Account[r.user] \in Wallet[r.client]
      <3> SUFFICES ASSUME r.stamp # Cheat
                   PROVE  r.since < r.stamp + SignExpire /\ Account[r.user] \in Wallet[r.client]
        OBVIOUS
      <3>1. r.stamp \in Nat /\ r.signer \in Wallet[r.client]
        BY <1>1, <1>2, <1>3 DEF Signs
      <3>2. CheckExpire(r.stamp, SignExpire, now) /\ r.signer = Account[r.user]
        BY <1>5 DEF Authentic
      <3>3. now \in Nat /\ r.since \in Nat /\ r.since <= now /\ SignExpire \in Nat
        BY <1>1, <1>2, <1>3, AccessAssumption DEF StoresOK, Timely, Request
      <3>4. now < r.stamp + SignExpire
        BY <3>1, <3>2, <3>3, RecentEnough
      <3> QED
        BY <3>1, <3>2, <3>3, <3>4
    <2>7. Signs(v)'
      BY <1>1, <1>2, <1>3, <2>1, <2>4, <2>6 DEF Signs
    <2>8. Visits(v)'
      BY <2>4 DEF Visits, Found, Holding
    <2>9. signIns' \in 0 .. MaxSignIns
      BY <1>1, <1>2 DEF StoresOK
    <2> QED
      BY <1>2, <2>1, <2>2, <2>3, <2>5, <2>7, <2>8, <2>9, Goes
  <1> QED
    BY <1>3, <1>4, <1>5 DEF CheckAuthInfo

LEMMA MakeCookieStep ==
    ASSUME IInv, NEW v \in Visitors, MakeCookie(v)
    PROVE  IInv'
  <1>1. StoresOK /\ VisitorsOK /\ Timely(v) /\ Signs(v)
    BY Halves DEF IInv, Known
  <1>2. pc[v] = "makeCookie" /\ UNCHANGED <<now, signIns, clientVars, entrance, proxyVars>>
    BY DEF MakeCookie
  <1>3. PICK r \in Request : r = req[v]
    BY <1>1, <1>2, Working
  <1> DEFINE ck == CookieOf(r, now + CookieExpire)
             x == [r EXCEPT !.ck = ck]
  <1>4. /\ now \in Nat /\ r.since \in Nat /\ r.since <= now /\ now <= r.since + Slow
        /\ CookieExpire \in Nat /\ Slow \in Nat /\ SignExpire \in Nat /\ r.stamp \in Int
        /\ r.user \in Users /\ r.user # Foreign
    BY <1>1, <1>2, <1>3, AccessAssumption DEF StoresOK, Timely, Signs, Request
  <1>5. /\ ck.name = r.user /\ ck.exp = now + CookieExpire /\ ck.tag = <<r.user, now + CookieExpire>>
        /\ ck.stamp = r.stamp /\ ck.made = now
    BY DEF CookieOf, Tag
  <1>6. ck \in Cookie
    BY <1>4 DEF CookieOf, Tag, Cookie
  <1> HIDE DEF ck
  <1>7. x \in Request /\ x.client = r.client /\ x.since = r.since /\ x.ck = ck
    BY <1>6 DEF Request
  <1>8. Goto(v, "setCookie", x)
    BY <1>3 DEF MakeCookie, ck
  <1> HIDE DEF x
  <1>9. "setCookie" \in Labels \ {"idle"} /\ "setCookie" \notin Holding
    BY DEF Labels, Holding
  <1>10. pc'[v] = "setCookie" /\ req'[v] = x
    BY <1>1, <1>7, <1>8, <1>9, MovesType, NoneIsNoRequest
  <1>11. Timely(v)'
    BY <1>2, <1>4, <1>7, <1>10 DEF Timely
  <1>12. Genuine(r.client, ck)
    <2>1. r.stamp # Cheat =>
            r.since < r.stamp + SignExpire /\ Account[r.user] \in Wallet[r.client]
      BY <1>1, <1>2, <1>3 DEF Signs
    <2> QED
      BY <1>4, <1>5, <2>1 DEF Genuine, Tag
  <1>13. Signs(v)'
    BY <1>2, <1>4, <1>5, <1>6, <1>7, <1>10, <1>12 DEF Signs, Genuine
  <1>14. Visits(v)'
    BY <1>10 DEF Visits, Found, Holding
  <1>15. signIns' \in 0 .. MaxSignIns
    BY <1>1, <1>2 DEF StoresOK
  <1> QED
    BY <1>2, <1>7, <1>8, <1>9, <1>11, <1>13, <1>14, <1>15, Goes

\* A cookie takes the place of the one of its name, or comes last.
LEMMA StoredCookies ==
    ASSUME NEW cks \in Seq(Cookie), NEW ck \in Cookie, ck.name # Foreign, Distinct(cks)
    PROVE  /\ Stored(cks, ck) \in Seq(Cookie)
           /\ \E i \in DOMAIN Stored(cks, ck) : Stored(cks, ck)[i] = ck
           /\ \A i \in DOMAIN Stored(cks, ck) :
                \/ Stored(cks, ck)[i] = ck
                \/ i \in DOMAIN cks /\ Stored(cks, ck)[i] = cks[i] /\ cks[i].name # ck.name
           /\ Distinct(Stored(cks, ck))
  <1>1. CASE \E k \in DOMAIN cks : cks[k].name = ck.name
    <2> DEFINE new == [i \in DOMAIN cks |-> IF cks[i].name = ck.name THEN ck ELSE cks[i]]
    <2>1. Stored(cks, ck) = new
      BY <1>1 DEF Stored
    <2>2. DOMAIN cks = 1 .. Len(cks) /\ Len(cks) \in Nat /\ \A i \in DOMAIN cks : cks[i] \in Cookie
      BY LenProperties, ElementOfSeq
    <2>3. new \in Seq(Cookie)
      <3>1. \A i \in 1 .. Len(cks) : (IF cks[i].name = ck.name THEN ck ELSE cks[i]) \in Cookie
        BY <2>2
      <3>2. new = [i \in 1 .. Len(cks) |-> IF cks[i].name = ck.name THEN ck ELSE cks[i]]
        BY <2>2
      <3> QED
        BY <2>2, <3>1, <3>2, IsASeq
    <2>4. DOMAIN new = DOMAIN cks
      OBVIOUS
    <2>5. \A i \in DOMAIN cks : new[i] = IF cks[i].name = ck.name THEN ck ELSE cks[i]
      OBVIOUS
    <2>6. \A i \in DOMAIN cks : new[i].name = cks[i].name
      BY <2>5
    <2> HIDE DEF new
    <2>7. Distinct(new)
      BY <2>4, <2>6 DEF Distinct, OwnCookies
    <2> QED
      BY <1>1, <2>1, <2>3, <2>4, <2>5, <2>7
  <1>2. CASE \A k \in DOMAIN cks : cks[k].name # ck.name
    <2> DEFINE new == Append(cks, ck)
               n == Len(cks)
    <2>1. Stored(cks, ck) = new
      BY <1>2 DEF Stored
    <2>2. n \in Nat /\ DOMAIN cks = 1 .. n
      BY LenProperties
    <2>3. /\ new \in Seq(Cookie) /\ DOMAIN new = 1 .. n + 1
          /\ new[n + 1] = ck /\ \A i \in 1 .. n : new[i] = cks[i]
      BY <2>2
    <2> HIDE DEF new, n
    <2>4. Distinct(new)
      BY <1>2, <2>2, <2>3 DEF Distinct, OwnCookies
    <2>5. \A i \in DOMAIN new : i = n + 1 \/ i \in 1 .. n
      BY <2>2, <2>3
    <2> QED
      BY <1>2, <2>1, <2>2, <2>3, <2>4, <2>5
  <1> QED
    BY <1>1, <1>2

LEMMA SetCookieStep ==
    ASSUME IInv, NEW v \in Visitors, SetCookie(v)
    PROVE  IInv'
  <1>1. StoresOK /\ VisitorsOK /\ Timely(v) /\ Signs(v) /\ Jars
    BY Halves DEF IInv, Known
  <1>2. /\ pc[v] = "setCookie" /\ Return(v)
        /\ UNCHANGED <<now, signIns, entrance, proxyVars>>
    BY DEF SetCookie
  <1>3. CASE UNCHANGED clientVars
    BY <1>2, <1>3, ReturnsQuietly
  <1>4. PICK r \in Request : r = req[v]
    BY <1>1, <1>2, Working
  <1>5. PICK c \in Clients, ck \in Cookie : c = r.client /\ ck = r.ck
    BY <1>1, <1>2, <1>4 DEF Signs, Request
  <1>6. /\ ck.name \in Users /\ ck.name # Foreign /\ Genuine(c, ck)
        /\ now \in Nat /\ ck.made \in Nat /\ ck.made <= now /\ now <= ck.made + Slow
        /\ CookieExpire \in Nat /\ Slow \in Nat
    <2>1. ck.name # Foreign /\ Genuine(c, ck) /\ r.since <= ck.made
      BY <1>1, <1>2, <1>4, <1>5 DEF Signs
    <2>2. now <= r.since + Slow
      BY <1>1, <1>2, <1>4 DEF Timely
    <2>3. ck.made \in Nat /\ r.since \in Nat
      BY DEF Cookie, Request
    <2> QED
      BY <1>1, <2>1, <2>2, <2>3, AccessAssumption DEF StoresOK, Genuine
  <1>7. CASE /\ jar' = [jar EXCEPT ![c] = Stored(@, ck)]
             /\ until' = [until EXCEPT ![c] = Later(@, ck.made + CookieExpire)]
             /\ names' = [names EXCEPT ![c] = @ \cup {ck.name}]
    <2> DEFINE new == Stored(jar[c], ck)
    <2>1. jar[c] \in Seq(Cookie) /\ Jar(c) /\ until[c] \in Nat /\ names[c] \in SUBSET Users
      BY <1>1 DEF StoresOK, Jars
    <2>2. /\ new \in Seq(Cookie) /\ Distinct(new)
          /\ \E i \in DOMAIN new : new[i] = ck
          /\ \A i \in DOMAIN new : new[i] = ck \/ (i \in DOMAIN jar[c] /\ new[i] = jar[c][i])
      BY <1>6, <2>1, StoredCookies DEF Jar
    <2> HIDE DEF new
    <2>3. jar'[c] = new /\ until'[c] = Later(until[c], ck.made + CookieExpire)
          /\ names'[c] = names[c] \cup {ck.name}
      BY <1>1, <1>7 DEF StoresOK, new
    <2>4. ASSUME NEW d \in Clients \ {c}
          PROVE  jar'[d] = jar[d] /\ until'[d] = until[d] /\ names'[d] = names[d]
      BY <1>1, <1>7 DEF StoresOK
    <2>5. /\ until'[c] \in Nat /\ until'[c] <= now + CookieExpire
          /\ until'[c] <= ck.made + CookieExpire + Slow
      BY <1>6, <2>1, <2>3 DEF Later, Jar
    <2>6. Jar(c)'
      <3>1. \A i \in DOMAIN new : Genuine(c, new[i])
        BY <1>6, <2>1, <2>2 DEF Jar
      <3>2. \A i \in DOMAIN jar'[c] : Genuine(c, jar'[c][i])
        BY <2>3, <3>1
      <3>3. (\A i \in DOMAIN jar[c] : Genuine(c, jar[c][i]))'
        BY <1>2, <3>2 DEF Genuine
      <3>4. Distinct(jar[c])'
        BY <2>2, <2>3 DEF Distinct, OwnCookies
      <3>5. (\A i \in OwnCookies(jar[c]) : jar[c][i].name \in names[c])'
        BY <2>1, <2>2, <2>3 DEF Jar, OwnCookies
      <3>6. IsFiniteSet(names[c])'
        <4>1. IsFiniteSet(names[c])
          BY <2>1 DEF Jar
        <4>2. IsFiniteSet(names[c] \cup {ck.name})
          BY <4>1, FS_AddElement
        <4> QED
          BY <2>3, <4>2
      <3>7. (\E i \in OwnCookies(jar[c]) :
                until[c] <= jar[c][i].made + CookieExpire + Slow)'
        BY <1>6, <2>2, <2>3, <2>5 DEF OwnCookies
      <3> QED
        BY <1>2, <2>5, <3>3, <3>4, <3>5, <3>6, <3>7 DEF Jar
    <2>7. ASSUME NEW d \in Clients \ {c}
          PROVE  Jar(d)'
      BY <1>1, <1>2, <2>4 DEF Jars, Jar, Genuine, Distinct, OwnCookies
    <2>8. \A d \in Clients : /\ jar'[d] \in Seq(Cookie) /\ until'[d] \in Nat
                             /\ names'[d] \in SUBSET Users
      <3>1. ASSUME NEW d \in Clients
            PROVE  jar'[d] \in Seq(Cookie) /\ until'[d] \in Nat /\ names'[d] \in SUBSET Users
        <4>1. CASE d = c
          BY <1>6, <2>1, <2>2, <2>3, <2>5, <4>1
        <4>2. CASE d # c
          BY <1>1, <2>4, <4>2 DEF StoresOK
        <4> QED
          BY <4>1, <4>2
      <3> QED
        BY <3>1
    <2>9. /\ jar' = [d \in Clients |-> jar'[d]] /\ until' = [d \in Clients |-> until'[d]]
          /\ names' = [d \in Clients |-> names'[d]]
      BY <1>1, <1>7 DEF StoresOK
    <2>10. Entrances' /\ entrance' \in [Users -> Accounts \cup {None}]
      BY <1>1, <1>2 DEF IInv, Entrances, StoresOK
    <2>11. Jars'
      BY <2>6, <2>7 DEF Jars
    <2> QED
      BY <1>2, <2>8, <2>9, <2>10, <2>11, Returns DEF proxyVars
  <1> QED
    BY <1>3, <1>4, <1>5, <1>7 DEF SetCookie

-----------------------------------------------------------------------------
(* handlerDeployUrl and handlerCompute. *)

LEMMA SentIsGenuine ==
    ASSUME StoresOK, Jars, NEW c \in Clients, NEW deploys \in BOOLEAN,
           NEW cks \in SentWith(c, deploys)
    PROVE  cks \in Seq(Cookie) /\ \A i \in DOMAIN cks : Genuine(c, cks[i])
  <1>1. jar[c] \in Seq(Cookie) /\ \A i \in DOMAIN jar[c] : Genuine(c, jar[c][i])
    BY DEF StoresOK, Jars, Jar
  <1>2. CASE cks = jar[c]
    BY <1>1, <1>2
  <1>3. CASE cks = <<>>
    BY <1>3
  <1>4. CASE \E i \in OwnCookies(jar[c]) : cks = <<jar[c][i]>>
    <2>1. PICK i \in DOMAIN jar[c] : cks = <<jar[c][i]>>
      BY <1>4 DEF OwnCookies
    <2>2. PICK ck \in Cookie : ck = jar[c][i]
      BY <1>1, ElementOfSeq, LenProperties
    <2>3. Genuine(c, ck)
      BY <1>1, <2>2
    <2>4. cks = <<ck>>
      BY <2>1, <2>2
    <2>5. cks \in Seq(Cookie) /\ DOMAIN cks = {1} /\ cks[1] = ck
      BY <2>4
    <2> QED
      BY <2>3, <2>5
  <1> QED
    BY <1>2, <1>3, <1>4 DEF SentWith

LEMMA VisitStep ==
    ASSUME IInv, NEW v \in Visitors, NEW c \in Clients, Visit(v, c)
    PROVE  IInv'
  <1>1. StoresOK /\ Jars /\ now \in Nat /\ Slow \in Nat
    BY Halves, AccessAssumption DEF IInv, StoresOK
  <1>2. UNCHANGED <<now, signIns, clientVars, entrance, proxyVars>>
    BY DEF Visit
  <1>3. PICK deploys \in BOOLEAN : \E cks \in SentWith(c, deploys) :
           Goto(v, "find", [NoRequest(c) EXCEPT !.sent = cks, !.deploys = deploys])
    BY DEF Visit
  <1>4. PICK cks \in SentWith(c, deploys) :
           Goto(v, "find", [NoRequest(c) EXCEPT !.sent = cks, !.deploys = deploys])
    BY <1>3
  <1>5. cks \in Seq(Cookie) /\ \A i \in DOMAIN cks : Genuine(c, cks[i])
    BY <1>1, SentIsGenuine
  <1>6. PICK n \in Request : n = NoRequest(c) /\ n.client = c /\ n.since = now
    BY <1>1, NewRequest
  <1> DEFINE x == [n EXCEPT !.sent = cks, !.deploys = deploys]
  <1>7. x \in Request /\ x.client = c /\ x.since = now /\ x.sent = cks
    BY <1>5, <1>6 DEF Request
  <1>8. Goto(v, "find", x)
    BY <1>4, <1>6
  <1> HIDE DEF x
  <1>9. "find" \in Labels \ {"idle"} /\ "find" \notin Holding
    BY DEF Labels, Holding
  <1>10. pc'[v] = "find" /\ req'[v] = x
    BY <1>7, <1>8, <1>9, MovesType, NoneIsNoRequest, Halves DEF IInv
  <1>11. Timely(v)'
    BY <1>1, <1>2, <1>7, <1>10 DEF Timely
  <1>12. Signs(v)'
    BY <1>10 DEF Signs
  <1>13. Visits(v)'
    <2>1. \A i \in DOMAIN x.sent : Genuine(x.client, x.sent[i])
      BY <1>5, <1>7
    <2> QED
      BY <1>2, <1>10, <2>1 DEF Visits, Genuine, Found, Holding
  <1>14. signIns' \in 0 .. MaxSignIns
    BY <1>1, <1>2 DEF StoresOK
  <1> QED
    BY <1>2, <1>7, <1>8, <1>9, <1>11, <1>12, <1>13, <1>14, Goes

LEMMA FindCookieStep ==
    ASSUME IInv, NEW v \in Visitors, FindCookie(v)
    PROVE  IInv'
  <1>1. StoresOK /\ VisitorsOK /\ Timely(v) /\ Visits(v)
    BY Halves DEF IInv, Known
  <1>2. pc[v] = "find" /\ UNCHANGED <<now, signIns, clientVars, entrance, proxyVars>>
    BY DEF FindCookie
  <1>3. PICK r \in Request : r = req[v]
    BY <1>1, <1>2, Working
  <1>4. CASE Return(v)
    BY <1>2, <1>4, ReturnsQuietly
  <1>5. CASE \E i \in OwnCookies(r.sent) :
                /\ Good(r.sent[i])
                /\ Goto(v, IF r.deploys THEN "deploy" ELSE "checkOrder",
                        [r EXCEPT !.ck = r.sent[i], !.sent = <<>>])
    <2>1. PICK i \in OwnCookies(r.sent) :
                /\ Good(r.sent[i])
                /\ Goto(v, IF r.deploys THEN "deploy" ELSE "checkOrder",
                        [r EXCEPT !.ck = r.sent[i], !.sent = <<>>])
      BY <1>5
    <2>2. r.sent \in Seq(Cookie) /\ i \in DOMAIN r.sent /\ r.sent[i].name # Foreign
      BY DEF OwnCookies, Request
    <2>3. PICK ck \in Cookie : ck = r.sent[i]
      BY <2>2, ElementOfSeq, LenProperties
    <2>4. Genuine(r.client, ck)
      BY <1>1, <1>2, <1>3, <2>2, <2>3 DEF Visits
    <2>5. ck.name # Foreign /\ now < ck.exp
      BY <2>1, <2>2, <2>3 DEF Good
    <2>6. PICK l \in {"deploy", "checkOrder"} : Goto(v, l, [r EXCEPT !.ck = ck, !.sent = <<>>])
      BY <2>1, <2>3
    <2> DEFINE x == [r EXCEPT !.ck = ck, !.sent = <<>>]
    <2>7. x \in Request /\ x.client = r.client /\ x.since = r.since /\ x.ck = ck
      <3>1. <<>> \in Seq(Cookie)
        OBVIOUS
      <3> QED
        BY <3>1 DEF Request
    <2>8. Goto(v, l, x)
      BY <2>6
    <2> HIDE DEF x
    <2>9. /\ l \in Labels \ {"idle"} /\ l \notin Holding
          /\ l \notin {"getProxy", "direct", "serve"}
      BY DEF Labels, Holding
    <2>10. pc'[v] = l /\ req'[v] = x
      BY <1>1, <2>7, <2>8, <2>9, MovesType, NoneIsNoRequest
    <2>11. Timely(v)'
      BY <1>1, <1>2, <1>3, <2>7, <2>10 DEF Timely
    <2>12. Signs(v)'
      BY <2>10 DEF Signs
    <2>13. r.since < ck.exp
      <3>1. /\ r.since \in Nat /\ now \in Nat /\ r.since <= now
            /\ ck.exp \in Int
        BY <1>1, <1>2, <1>3, AccessAssumption DEF StoresOK, Timely, Request, Cookie
      <3> QED
        BY <2>5, <3>1
    <2>14. Visits(v)'
      BY <1>2, <2>4, <2>5, <2>7, <2>10, <2>13 DEF Visits, Genuine, Found, Holding
    <2>15. signIns' \in 0 .. MaxSignIns
      BY <1>1, <1>2 DEF StoresOK
    <2> QED
      BY <1>2, <2>7, <2>8, <2>9, <2>11, <2>12, <2>14, <2>15, Goes
  <1> QED
    <2>1. CASE ~ \E i \in OwnCookies(r.sent) :
                   (\A j \in OwnCookies(r.sent) : i <= j) /\ Good(r.sent[i])
      BY <1>3, <1>4, <2>1 DEF FindCookie
    <2>2. CASE \E i \in OwnCookies(r.sent) :
                   (\A j \in OwnCookies(r.sent) : i <= j) /\ Good(r.sent[i])
      <3>1. PICK i \in OwnCookies(r.sent) :
                   (\A j \in OwnCookies(r.sent) : i <= j) /\ Good(r.sent[i])
        BY <2>2
      <3>2. PICK k \in OwnCookies(r.sent) :
                /\ \A j \in OwnCookies(r.sent) : k <= j
                /\ Goto(v, IF r.deploys THEN "deploy" ELSE "checkOrder",
                        [r EXCEPT !.ck = r.sent[k], !.sent = <<>>])
        BY <1>3, <2>2 DEF FindCookie
      <3>3. OwnCookies(r.sent) \subseteq Nat
        BY LenProperties DEF OwnCookies, Request
      <3>4. i = k
        BY <3>1, <3>2, <3>3
      <3> QED
        BY <1>5, <3>1, <3>2, <3>4
    <2> QED
      BY <2>1, <2>2

LEMMA DeployStep ==
    ASSUME IInv, NEW v \in Visitors, Deploy(v)
    PROVE  IInv'
  <1>1. StoresOK /\ VisitorsOK /\ Visits(v) /\ Jars /\ Entrances
    BY Halves DEF IInv, Known
  <1>2. /\ pc[v] = "deploy" /\ Return(v)
        /\ UNCHANGED <<now, signIns, clientVars, proxyVars>>
        /\ entrance' = [entrance EXCEPT ![req[v].ck.name] = Account[req[v].ck.name]]
    BY DEF Deploy
  <1>3. PICK u \in Users : u = req[v].ck.name
    BY <1>1, <1>2 DEF Visits, Genuine, Found
  <1>4. entrance' \in [Users -> Accounts \cup {None}] /\ Entrances'
    BY <1>1, <1>2, <1>3, AccessAssumption DEF Entrances, StoresOK
  <1>5. Jars'
    BY <1>1, <1>2, JarsStay
  <1> QED
    BY <1>1, <1>2, <1>4, <1>5, Returns DEF StoresOK, clientVars, proxyVars

LEMMA CheckOrderStep ==
    ASSUME IInv, NEW v \in Visitors, CheckOrder(v)
    PROVE  IInv'
  <1>1. StoresOK /\ VisitorsOK /\ Timely(v) /\ Visits(v)
    BY Halves DEF IInv, Known
  <1>2. pc[v] = "checkOrder" /\ UNCHANGED <<now, signIns, clientVars, entrance, proxyVars>>
    BY DEF CheckOrder
  <1>3. PICK r \in Request : r = req[v]
    BY <1>1, <1>2, Working
  <1>4. CASE Return(v)
    BY <1>2, <1>4, ReturnsQuietly
  <1>5. CASE ExpireCheck(Terms[r.client], now) /\ Goto(v, "getEntrance", r)
    <2>1. "getEntrance" \in Labels \ {"idle"} /\ "getEntrance" \notin Holding
      BY DEF Labels, Holding
    <2>2. pc'[v] = "getEntrance" /\ req'[v] = r
      BY <1>1, <1>5, <2>1, MovesType, NoneIsNoRequest
    <2>3. r.since <= TrueEnd(Terms[r.client])
      <3>1. PICK o \in [act : Nat, prob : Nat, dur : Nat] : o = Terms[r.client]
        BY AccessAssumption DEF Request
      <3>2. now \in Nat /\ r.since \in Nat /\ r.since <= now
        BY <1>1, <1>2, <1>3, AccessAssumption DEF StoresOK, Timely, Request
      <3>3. now <= TrueEnd(o)
        BY <1>5, <3>1, <3>2, ExpireCheckNeverLate DEF OnChain
      <3>4. TrueEnd(o) \in Nat
        BY DEF TrueEnd
      <3> QED
        BY <3>1, <3>2, <3>3, <3>4
    <2>4. Timely(v)'
      BY <1>1, <1>2, <1>3, <2>2 DEF Timely
    <2>5. Signs(v)'
      BY <2>2 DEF Signs
    <2>6. Visits(v)'
      BY <1>1, <1>2, <1>3, <2>2, <2>3 DEF Visits, Genuine, Found, Holding
    <2>7. signIns' \in 0 .. MaxSignIns
      BY <1>1, <1>2 DEF StoresOK
    <2> QED
      BY <1>2, <1>5, <2>1, <2>4, <2>5, <2>6, <2>7, Goes
  <1> QED
    BY <1>3, <1>4, <1>5 DEF CheckOrder

LEMMA GetEntranceStep ==
    ASSUME IInv, NEW v \in Visitors, GetEntrance(v)
    PROVE  IInv'
  <1>1. StoresOK /\ VisitorsOK /\ Timely(v) /\ Visits(v) /\ Entrances
    BY Halves DEF IInv, Known
  <1>2. pc[v] = "getEntrance" /\ UNCHANGED <<now, signIns, clientVars, entrance, proxyVars>>
    BY DEF GetEntrance
  <1>3. PICK r \in Request : r = req[v]
    BY <1>1, <1>2, Working
  <1>4. CASE Return(v)
    BY <1>2, <1>4, ReturnsQuietly
  <1>5. CASE /\ entrance[r.ck.name] # None
             /\ Goto(v, "getProxy", [r EXCEPT !.ent = entrance[r.ck.name]])
    <2>1. r.ck.name \in Users
      BY <1>1, <1>2, <1>3 DEF Visits, Genuine, Found
    <2>2. PICK e \in Accounts : e = entrance[r.ck.name] /\ e = Account[r.ck.name]
      BY <1>1, <1>5, <2>1, AccessAssumption DEF Entrances
    <2> DEFINE x == [r EXCEPT !.ent = e]
    <2>3. /\ x \in Request /\ x.client = r.client /\ x.since = r.since /\ x.ck = r.ck
          /\ x.ent = e
      BY DEF Request
    <2>4. Goto(v, "getProxy", x)
      BY <1>5, <2>2
    <2> HIDE DEF x
    <2>5. "getProxy" \in Labels \ {"idle"} /\ "getProxy" \notin Holding
      BY DEF Labels, Holding
    <2>6. pc'[v] = "getProxy" /\ req'[v] = x
      BY <1>1, <2>3, <2>4, <2>5, MovesType, NoneIsNoRequest
    <2>7. Timely(v)'
      BY <1>1, <1>2, <1>3, <2>3, <2>6 DEF Timely
    <2>8. Signs(v)'
      BY <2>6 DEF Signs
    <2>9. Visits(v)'
      BY <1>1, <1>2, <1>3, <2>2, <2>3, <2>6 DEF Visits, Genuine, Found, Holding
    <2>10. signIns' \in 0 .. MaxSignIns
      BY <1>1, <1>2 DEF StoresOK
    <2> QED
      BY <1>2, <2>3, <2>4, <2>5, <2>7, <2>8, <2>9, <2>10, Goes
  <1> QED
    BY <1>3, <1>4, <1>5 DEF GetEntrance

LEMMA GetProxyStep ==
    ASSUME IInv, NEW v \in Visitors, GetProxy(v)
    PROVE  IInv'
  <1>1. /\ StoresOK /\ VisitorsOK /\ Known /\ Timely(v) /\ Visits(v) /\ Entrances
        /\ Unshared /\ Jars
    BY Halves DEF IInv, Known
  <1>2. pc[v] = "getProxy" /\ UNCHANGED <<now, signIns, clientVars, entrance, director>>
    BY DEF GetProxy
  <1>3. PICK r \in Request : r = req[v]
    BY <1>1, <1>2, Working
  <1>4. PICK p \in Proxies \ Held :
            pool' = pool \ {p} /\ Goto(v, "direct", [r EXCEPT !.proxy = p])
    BY <1>3 DEF GetProxy
  <1> DEFINE x == [r EXCEPT !.proxy = p]
  <1>5. /\ x \in Request /\ x.client = r.client /\ x.since = r.since /\ x.ck = r.ck
        /\ x.ent = r.ent /\ x.proxy = p
    BY DEF Request
  <1>6. Goto(v, "direct", x)
    BY <1>4
  <1> HIDE DEF x
  <1>7. "direct" \in Labels \ {"idle"} /\ x.ent \in Accounts
    BY <1>1, <1>2, <1>3, <1>5 DEF Labels, VisitorsOK
  <1>8. /\ VisitorsOK' /\ pc'[v] = "direct" /\ req'[v] = x
        /\ \A w \in Visitors \ {v} : pc'[w] = pc[w] /\ req'[w] = req[w]
    BY <1>1, <1>5, <1>6, <1>7, MovesType, NoneIsNoRequest
  <1>9. StoresOK'
    BY <1>1, <1>2, <1>4 DEF StoresOK, clientVars
  <1>10. Known'
    <2>1. Timely(v)'
      BY <1>1, <1>2, <1>3, <1>5, <1>8 DEF Timely
    <2>2. Signs(v)'
      BY <1>8 DEF Signs
    <2>3. Visits(v)'
      BY <1>1, <1>2, <1>3, <1>5, <1>8 DEF Visits, Genuine, Found, Holding
    <2> QED
      BY <1>1, <1>2, <1>8, <2>1, <2>2, <2>3, OthersKnow
  <1>11. Unshared'
    <2>1. \A w \in Visitors \ {v} : pc[w] \in Holding => req[w].proxy # p
      BY <1>4 DEF Held, Holding
    <2> QED
      BY <1>1, <1>4, <1>5, <1>8, <2>1 DEF Unshared
  <1>12. Entrances' /\ Jars'
    BY <1>1, <1>2, JarsStay DEF Entrances
  <1> QED
    BY <1>8, <1>9, <1>10, <1>11, <1>12, HalvesNext DEF IInv

LEMMA DirectStep ==
    ASSUME IInv, NEW v \in Visitors, Direct(v)
    PROVE  IInv'
  <1>1. /\ StoresOK /\ VisitorsOK /\ Known /\ Timely(v) /\ Visits(v) /\ Entrances
        /\ Unshared /\ Jars
    BY Halves DEF IInv, Known
  <1>2. pc[v] = "direct" /\ UNCHANGED <<now, signIns, clientVars, entrance, pool>>
    BY DEF Direct
  <1>3. PICK r \in Request : r = req[v]
    BY <1>1, <1>2, Working
  <1>4. director' = [director EXCEPT ![r.proxy] = r.ent] /\ Goto(v, "serve", r)
    BY <1>3 DEF Direct
  <1>5. "serve" \in Labels \ {"idle"} /\ r.ent \in Accounts /\ r.proxy \in Proxies
    BY <1>1, <1>2, <1>3 DEF Labels, VisitorsOK, Visits, Holding
  <1>6. /\ VisitorsOK' /\ pc'[v] = "serve" /\ req'[v] = r
        /\ \A w \in Visitors \ {v} : pc'[w] = pc[w] /\ req'[w] = req[w]
    BY <1>1, <1>4, <1>5, MovesType, NoneIsNoRequest
  <1>7. StoresOK'
    BY <1>1, <1>2, <1>4, <1>5 DEF StoresOK, clientVars
  <1>8. director'[r.proxy] = r.ent
    BY <1>1, <1>4, <1>5 DEF StoresOK
  <1>9. \A w \in Visitors \ {v} : pc[w] = "serve" =>
            director'[req[w].proxy] = director[req[w].proxy]
    BY <1>1, <1>2, <1>3, <1>4 DEF StoresOK, Unshared, Holding
  <1>10. Known'
    <2>1. Timely(v)'
      BY <1>1, <1>2, <1>3, <1>6 DEF Timely
    <2>2. Signs(v)'
      BY <1>6 DEF Signs
    <2>3. Visits(v)'
      BY <1>1, <1>2, <1>3, <1>6, <1>8 DEF Visits, Genuine, Found, Holding
    <2> QED
      BY <1>1, <1>2, <1>6, <1>9, <2>1, <2>2, <2>3, OthersKnow
  <1>11. Unshared'
    BY <1>1, <1>2, <1>3, <1>6 DEF Unshared, Holding
  <1>12. Entrances' /\ Jars'
    BY <1>1, <1>2, JarsStay DEF Entrances
  <1> QED
    BY <1>6, <1>7, <1>10, <1>11, <1>12, HalvesNext DEF IInv

LEMMA ServeStep ==
    ASSUME IInv, NEW v \in Visitors, Serve(v)
    PROVE  IInv'
  <1>1. StoresOK /\ VisitorsOK /\ Visits(v)
    BY Halves DEF IInv, Known
  <1>2. pc[v] = "serve" /\ UNCHANGED <<now, signIns, clientVars, entrance, proxyVars>>
    BY DEF Serve
  <1>3. PICK r \in Request : r = req[v]
    BY <1>1, <1>2, Working
  <1>4. PICK e \in Accounts : e = director[r.proxy]
    BY <1>1, <1>2, <1>3 DEF Visits, VisitorsOK
  <1> DEFINE x == [r EXCEPT !.ent = e, !.ck = None, !.since = 0]
  <1>5. x \in Request /\ x.proxy = r.proxy
    BY DEF Request
  <1>6. Goto(v, "relay", x)
    BY <1>3, <1>4 DEF Serve
  <1> HIDE DEF x
  <1>7. /\ "relay" \in Labels \ {"idle"} /\ "relay" \in Holding /\ "serve" \in Holding
        /\ r.proxy \in Proxies
    BY <1>1, <1>2, <1>3 DEF Labels, Holding, Visits
  <1>8. pc'[v] = "relay" /\ req'[v] = x
    BY <1>1, <1>5, <1>6, <1>7, MovesType, NoneIsNoRequest
  <1>9. (Timely(v) /\ Signs(v) /\ Visits(v))'
    BY <1>5, <1>7, <1>8 DEF Timely, Signs, Visits, Found
  <1>10. signIns' \in 0 .. MaxSignIns
    BY <1>1, <1>2 DEF StoresOK
  <1> QED
    BY <1>2, <1>3, <1>5, <1>6, <1>7, <1>9, <1>10, Goes

LEMMA PutProxyStep ==
    ASSUME IInv, NEW v \in Visitors, PutProxy(v)
    PROVE  IInv'
  <1>1. StoresOK /\ Jars /\ Entrances
    BY Halves DEF IInv
  <1>2. /\ pc[v] = "relay" /\ pool' = pool \cup {req[v].proxy} /\ Return(v)
        /\ UNCHANGED <<now, signIns, clientVars, entrance, director>>
    BY DEF PutProxy
  <1>3. Jars' /\ Entrances'
    BY <1>1, <1>2, JarsStay DEF Entrances
  <1> QED
    BY <1>1, <1>2, <1>3, Returns DEF StoresOK, clientVars, Holding

-----------------------------------------------------------------------------
(* Browsers, the clock and the garbage collector. *)

\* No visitor moves.
LEMMA VisitorsStay ==
    ASSUME VisitorsOK, UNCHANGED <<pc, req>>
    PROVE  VisitorsOK'
  BY DEF VisitorsOK

LEMMA FirstJars ==
    ASSUME NEW c \in Clients
    PROVE  /\ FirstJar[c] \in Seq(Cookie) /\ OwnCookies(FirstJar[c]) = {}
           /\ \A i \in DOMAIN FirstJar[c] : FirstJar[c][i].name = Foreign
  <1>1. ForeignCookie \in Cookie /\ ForeignCookie.name = Foreign
    BY DEF ForeignCookie, Cookie
  <1> HIDE DEF ForeignCookie
  <1>2. CASE FirstJar[c] = <<>>
    BY <1>2 DEF OwnCookies
  <1>3. CASE FirstJar[c] = <<ForeignCookie>>
    <2>1. PICK ck \in Cookie : ck = ForeignCookie
      BY <1>1
    <2>2. <<ck>> \in Seq(Cookie) /\ DOMAIN <<ck>> = {1} /\ <<ck>>[1] = ck
      OBVIOUS
    <2> QED
      BY <1>1, <1>3, <2>1, <2>2 DEF OwnCookies
  <1> QED
    BY <1>2, <1>3, AccessAssumption

\* A client without a cookie of the gateway.
LEMMA NoJar ==
    ASSUME NEW c \in Clients, now \in Nat, jar[c] = FirstJar[c], until[c] = 0, names[c] = {}
    PROVE  Jar(c)
  <1>1. /\ OwnCookies(jar[c]) = {} /\ \A i \in DOMAIN jar[c] : jar[c][i].name = Foreign
    BY FirstJars
  <1>2. IsFiniteSet(names[c])
    BY FS_EmptySet
  <1>3. 0 <= now + CookieExpire
    BY AccessAssumption
  <1> QED
    BY <1>1, <1>2, <1>3 DEF Jar, Genuine, Distinct

LEMMA NoJarNext ==
    ASSUME NEW c \in Clients, now' \in Nat, jar'[c] = FirstJar[c], until'[c] = 0, names'[c] = {}
    PROVE  Jar(c)'
  <1>1. /\ OwnCookies(FirstJar[c]) = {} /\ \A i \in DOMAIN FirstJar[c] : FirstJar[c][i].name = Foreign
    BY FirstJars
  <1>2. IsFiniteSet(names'[c])
    BY FS_EmptySet
  <1>3. 0 <= now' + CookieExpire
    BY AccessAssumption
  <1>4. OwnCookies(jar[c])' = {}
    BY <1>1 DEF OwnCookies
  <1>5. Distinct(jar[c])'
    BY <1>4 DEF Distinct, OwnCookies
  <1> QED
    BY <1>1, <1>2, <1>3, <1>4, <1>5 DEF Jar, Genuine

LEMMA CloseBrowserStep ==
    ASSUME IInv, NEW c \in Clients, CloseBrowser(c)
    PROVE  IInv'
  <1>1. StoresOK /\ VisitorsOK /\ Known /\ Entrances /\ Unshared /\ Jars /\ now \in Nat
    BY Halves, AccessAssumption DEF IInv, StoresOK
  <1>2. UNCHANGED <<now, signIns, entrance, proxyVars, pc, req>>
    BY DEF CloseBrowser
  <1>3. /\ jar' = [jar EXCEPT ![c] = FirstJar[c]]
        /\ until' = [until EXCEPT ![c] = 0] /\ names' = [names EXCEPT ![c] = {}]
    BY DEF CloseBrowser
  <1>4. StoresOK'
    BY <1>1, <1>2, <1>3, FirstJars DEF StoresOK, proxyVars
  <1>5. VisitorsOK' /\ Entrances' /\ Unshared'
    BY <1>1, <1>2, VisitorsStay DEF Entrances, Unshared, proxyVars
  <1>6. Known'
    BY <1>1, <1>2 DEF Known, Timely, Signs, Visits, Genuine, proxyVars
  <1>7. Jar(c)'
    BY <1>1, <1>2, <1>3, NoJarNext DEF StoresOK
  <1>8. ASSUME NEW d \in Clients \ {c}
        PROVE  Jar(d)'
    <2>1. jar'[d] = jar[d] /\ until'[d] = until[d] /\ names'[d] = names[d]
      BY <1>1, <1>3 DEF StoresOK
    <2> QED
      BY <1>1, <1>2, <2>1 DEF Jars, Jar, Genuine, Distinct, OwnCookies
  <1> QED
    BY <1>4, <1>5, <1>6, <1>7, <1>8, HalvesNext DEF IInv, Jars

LEMMA TickStep ==
    ASSUME IInv, Tick
    PROVE  IInv'
  <1>1. StoresOK /\ VisitorsOK /\ Known /\ Entrances /\ Unshared /\ Jars /\ now \in Nat
    BY Halves, AccessAssumption DEF IInv, StoresOK
  <1>2. now' = now + 1 /\ UNCHANGED <<signIns, clientVars, entrance, proxyVars, pc, req>>
    BY DEF Tick
  <1>3. StoresOK'
    BY <1>1, <1>2, AccessAssumption DEF Tick, StoresOK, clientVars, proxyVars
  <1>4. VisitorsOK' /\ Entrances' /\ Unshared'
    BY <1>1, <1>2, VisitorsStay DEF Entrances, Unshared, proxyVars
  <1>5. ASSUME NEW v \in Visitors
        PROVE  (Timely(v) /\ Signs(v) /\ Visits(v))'
    <2>1. Timely(v) /\ Signs(v) /\ Visits(v)
      BY <1>1 DEF Known
    <2>2. Timely(v)'
      <3> SUFFICES ASSUME pc[v] \notin {"idle", "relay"}
                   PROVE  req[v].since <= now' /\ now' <= req[v].since + Slow
        BY <1>2 DEF Timely
      <3>1. PICK r \in Request : r = req[v]
        BY <1>1, Working
      <3>2. r.since \in Nat /\ Slow \in Nat /\ now - r.since < Slow /\ r.since <= now
        BY <2>1, <3>1, AccessAssumption DEF Tick, Timely, Request
      <3> QED
        BY <1>1, <1>2, <3>1, <3>2
    <2>3. Signs(v)'
      <3>1. pc[v] = "setCookie" => req[v].ck.made \in Nat
        BY <2>1 DEF Signs, Cookie
      <3> QED
        BY <1>1, <1>2, <2>1, <3>1 DEF Signs, Genuine
    <2>4. Visits(v)'
      <3>1. pc[v] \in Found => req[v].ck.made \in Nat
        BY <2>1 DEF Visits, Cookie
      <3>2. pc[v] = "find" => \A i \in DOMAIN req[v].sent : req[v].sent[i].made \in Nat
        <4> SUFFICES ASSUME pc[v] = "find", NEW i \in DOMAIN req[v].sent
                     PROVE  req[v].sent[i].made \in Nat
          OBVIOUS
        <4>1. PICK r \in Request : r = req[v]
          BY <1>1, Working
        <4>2. r.sent \in Seq(Cookie)
          BY DEF Request
        <4>3. r.sent[i] \in Cookie
          BY <4>1, <4>2, ElementOfSeq, LenProperties
        <4> QED
          BY <4>1, <4>3 DEF Cookie
      <3> QED
        BY <1>1, <1>2, <2>1, <3>1, <3>2 DEF Visits, Genuine, proxyVars
    <2> QED
      BY <2>2, <2>3, <2>4
  <1>6. ASSUME NEW c \in Clients
        PROVE  Jar(c)'
    <2>1. Jar(c) /\ jar[c] \in Seq(Cookie) /\ until[c] \in Nat
      BY <1>1 DEF Jars, StoresOK
    <2>2. \A i \in DOMAIN jar[c] : jar[c][i].made \in Nat
      <3> SUFFICES ASSUME NEW i \in DOMAIN jar[c]
                   PROVE  jar[c][i].made \in Nat
        OBVIOUS
      <3>1. jar[c][i] \in Cookie
        BY <2>1, ElementOfSeq, LenProperties
      <3> QED
        BY <3>1 DEF Cookie
    <2>3. (\A i \in DOMAIN jar[c] : Genuine(c, jar[c][i]))'
      BY <1>1, <1>2, <2>1, <2>2 DEF Jar, Genuine, clientVars
    <2>4. until'[c] <= now' + CookieExpire
      BY <1>1, <1>2, <2>1, AccessAssumption DEF Jar, clientVars
    <2> QED
      BY <1>2, <2>1, <2>3, <2>4 DEF Jar, clientVars, Distinct, OwnCookies
  <1> QED
    BY <1>3, <1>4, <1>5, <1>6, HalvesNext DEF IInv, Jars, Known

LEMMA CollectStep ==
    ASSUME IInv, Collect
    PROVE  IInv'
  <1>1. StoresOK /\ VisitorsOK /\ Known /\ Entrances /\ Unshared /\ Jars
    BY Halves DEF IInv
  <1>2. UNCHANGED <<now, signIns, clientVars, entrance, pc, req>>
    BY DEF Collect
  <1>3. PICK x \in pool : pool' = pool \ {x} /\ director' = [director EXCEPT ![x] = None]
    BY DEF Collect
  <1>4. StoresOK'
    BY <1>1, <1>2, <1>3 DEF StoresOK, clientVars
  <1>5. VisitorsOK' /\ Entrances' /\ Unshared' /\ Jars'
    BY <1>1, <1>2, <1>3, VisitorsStay, JarsStay DEF Entrances, Unshared
  <1>6. \A v \in Visitors : pc[v] = "serve" => director'[req[v].proxy] = director[req[v].proxy]
    BY <1>1, <1>3 DEF StoresOK, Unshared, Holding
  <1>7. Known'
    BY <1>1, <1>2, <1>6 DEF Known, Timely, Signs, Visits, Genuine
  <1> QED
    BY <1>4, <1>5, <1>7, HalvesNext DEF IInv

-----------------------------------------------------------------------------
(* The invariant. *)

LEMMA InitInv == Init => IInv
  <1> SUFFICES ASSUME Init
               PROVE  IInv
    OBVIOUS
  <1>1. /\ now = 0 /\ signIns = 0 /\ jar = FirstJar /\ pool = {}
        /\ until = [c \in Clients |-> 0] /\ names = [c \in Clients |-> {}]
        /\ entrance = [u \in Users |-> None] /\ director = [x \in Proxies |-> None]
        /\ pc = [v \in Visitors |-> "idle"] /\ req = [v \in Visitors |-> None]
    BY DEF Init
  <1>2. StoresOK
    <2>1. FirstJar \in [Clients -> Seq(Cookie)]
      BY FirstJars, AccessAssumption
    <2> QED
      BY <1>1, <2>1, AccessAssumption DEF StoresOK
  <1>3. VisitorsOK
    BY <1>1 DEF VisitorsOK, Labels
  <1>4. Known
    BY <1>1 DEF Known, Timely, Signs, Visits, Found, Holding
  <1>5. Entrances /\ Unshared
    BY <1>1 DEF Entrances, Unshared, Holding
  <1>6. Jars
    BY <1>1, NoJar DEF Jars
  <1> QED
    BY <1>2, <1>3, <1>4, <1>5, <1>6, Halves DEF IInv

LEMMA Invariance == IInv /\ [Next]_vars => IInv'
  <1> SUFFICES ASSUME IInv, [Next]_vars
               PROVE  IInv'
    OBVIOUS
  <1>1. CASE UNCHANGED vars
    <2>1. StoresOK /\ VisitorsOK /\ Known /\ Entrances /\ Unshared /\ Jars
      BY Halves DEF IInv
    <2>2. UNCHANGED <<now, signIns, clientVars, entrance, proxyVars, pc, req>>
      BY <1>1 DEF vars
    <2>3. StoresOK' /\ VisitorsOK'
      BY <2>1, <2>2, VisitorsStay DEF StoresOK, clientVars, proxyVars
    <2>4. Entrances' /\ Unshared' /\ Jars'
      BY <2>1, <2>2, JarsStay DEF Entrances, Unshared, proxyVars
    <2>5. Known'
      BY <2>1, <2>2 DEF Known, Timely, Signs, Visits, Genuine, proxyVars
    <2> QED
      BY <2>3, <2>4, <2>5, HalvesNext DEF IInv
  <1>2. CASE Tick
    BY <1>2, TickStep
  <1>3. CASE Collect
    BY <1>3, CollectStep
  <1>4. CASE \E c \in Clients : CloseBrowser(c)
    BY <1>4, CloseBrowserStep
  <1>5. CASE \E v \in Visitors : \E c \in Clients : SignIn(v, c) \/ Visit(v, c)
    BY <1>5, SignInStep, VisitStep
  <1>6. CASE \E v \in Visitors : Step(v)
    <2>1. PICK v \in Visitors : Step(v)
      BY <1>6
    <2>2. CASE CheckAuthInfo(v) \/ MakeCookie(v) \/ SetCookie(v)
      BY <2>2, CheckAuthInfoStep, MakeCookieStep, SetCookieStep
    <2>3. CASE FindCookie(v) \/ Deploy(v) \/ CheckOrder(v) \/ GetEntrance(v)
      BY <2>3, FindCookieStep, DeployStep, CheckOrderStep, GetEntranceStep
    <2>4. CASE GetProxy(v) \/ Direct(v) \/ Serve(v) \/ PutProxy(v)
      BY <2>4, GetProxyStep, DirectStep, ServeStep, PutProxyStep
    <2> QED
      BY <2>1, <2>2, <2>3, <2>4 DEF Step
  <1> QED
    BY <1>1, <1>2, <1>3, <1>4, <1>5, <1>6 DEF Next

LEMMA Inductive == Spec => []IInv
  BY InitInv, Invariance, PTL DEF Spec

\* Every variable has its type, and a request that is past GetEntrance has an entrance.
THEOREM AccessTypes == Spec => []TypeOK
  <1>1. IInv => TypeOK
    BY DEF IInv
  <1> QED
    BY <1>1, Inductive, PTL

\* A visitor is moved by its own steps only.
LEMMA StepGoes ==
    ASSUME NEW v \in Visitors, Step(v) \/ \E c \in Clients : SignIn(v, c) \/ Visit(v, c)
    PROVE  \E l, r : Goto(v, l, r)
  <1>1. CASE \E c \in Clients : SignIn(v, c) \/ Visit(v, c)
    BY <1>1 DEF SignIn, Visit
  <1>2. CASE CheckAuthInfo(v) \/ MakeCookie(v) \/ SetCookie(v)
    BY <1>2 DEF CheckAuthInfo, MakeCookie, SetCookie, Return
  <1>3. CASE FindCookie(v)
    BY <1>3 DEF FindCookie, Return
  <1>4. CASE Deploy(v) \/ CheckOrder(v) \/ GetEntrance(v)
    BY <1>4 DEF Deploy, CheckOrder, GetEntrance, Return
  <1>5. CASE GetProxy(v) \/ Direct(v) \/ Serve(v) \/ PutProxy(v)
    BY <1>5 DEF GetProxy, Direct, Serve, PutProxy, Return
  <1> QED
    BY <1>1, <1>2, <1>3, <1>4, <1>5 DEF Step

LEMMA OnlyItsOwn ==
    ASSUME VisitorsOK, [Next]_vars, NEW v \in Visitors, pc'[v] # pc[v]
    PROVE  Step(v) \/ \E c \in Clients : SignIn(v, c) \/ Visit(v, c)
  <1>1. PICK w \in Visitors : Step(w) \/ \E c \in Clients : SignIn(w, c) \/ Visit(w, c)
    BY DEF Next, vars, CloseBrowser, Tick, Collect
  <1>2. PICK l, r : Goto(w, l, r)
    BY <1>1, StepGoes
  <1>3. w = v
    BY <1>2 DEF Goto, VisitorsOK
  <1> QED
    BY <1>1, <1>3

LEMMA Forwarding ==
    ASSUME VisitorsOK, [Next]_vars, NEW v \in Visitors, Forwards(v)
    PROVE  Serve(v)
  <1>1. pc[v] = "serve" /\ pc'[v] # pc[v]
    BY DEF Forwards
  <1>2. Step(v) \/ \E c \in Clients : SignIn(v, c) \/ Visit(v, c)
    BY <1>1, OnlyItsOwn
  <1> QED
    BY <1>1, <1>2 DEF Step, SignIn, Visit, CheckAuthInfo, MakeCookie, SetCookie,
       FindCookie, Deploy, CheckOrder, GetEntrance, GetProxy, Direct, PutProxy

\* A request is forwarded to an entrance of the account its cookie names, however many
\* requests share the pool of proxies.
THEOREM EverybodysOwnEntrance == Spec => OwnEntrance
  <1>1. IInv /\ [Next]_vars => Directed
    <2> SUFFICES ASSUME IInv, [Next]_vars, NEW v \in Visitors, Forwards(v)
                 PROVE  req'[v].ent = Account[req[v].ck.name]
      BY DEF Directed
    <2>1. VisitorsOK /\ Visits(v) /\ pc[v] = "serve"
      BY Halves DEF IInv, Known, Forwards
    <2>2. PICK r \in Request : r = req[v]
      BY <2>1, Working
    <2>3. req'[v] = [r EXCEPT !.ent = director[r.proxy], !.ck = None, !.since = 0]
      BY <2>1, <2>2, Forwarding DEF Serve, Goto, VisitorsOK
    <2>4. director[r.proxy] = Account[r.ck.name]
      BY <2>1, <2>2 DEF Visits
    <2>5. req'[v].ent = director[r.proxy]
      BY <2>3 DEF Request
    <2> QED
      BY <2>2, <2>4, <2>5
  <1>2. UNCHANGED vars => Directed
    BY DEF Directed, Forwards, vars
  <1> QED
    BY <1>1, <1>2, Inductive, PTL DEF Spec, OwnEntrance

\* No request is forwarded longer than the periods of the configuration add up to, and
\* a client is served only as an account it holds the key of.
THEOREM ServiceEndsInTime == Spec => ServiceEnds
  <1>1. IInv /\ [Next]_vars => Served
    <2> SUFFICES ASSUME IInv, [Next]_vars, NEW v \in Visitors, Forwards(v)
                 PROVE  /\ now < req[v].ck.made + CookieExpire + Slow
                        /\ now <= TrueEnd(Terms[req[v].client]) + Slow
                        /\ req[v].ck.stamp # Cheat =>
                             /\ req[v].ck.made < req[v].ck.stamp + SignExpire + Slow
                             /\ Account[req[v].ck.name] \in Wallet[req[v].client]
      BY DEF Served
    <2>1. pc[v] = "serve" /\ VisitorsOK /\ StoresOK /\ Timely(v) /\ Visits(v)
      BY Halves DEF IInv, Known, Forwards
    <2>2. PICK r \in Request : r = req[v]
      BY <2>1, Working
    <2>3. PICK ck \in Cookie : ck = r.ck /\ Genuine(r.client, ck) /\ ck.name # Foreign
                               /\ r.since < ck.exp
      BY <2>1, <2>2 DEF Visits, Found
    <2>4. /\ now \in Nat /\ r.since \in Nat /\ now <= r.since + Slow /\ Slow \in Nat
          /\ CookieExpire \in Nat /\ ck.made \in Nat /\ ck.exp = ck.made + CookieExpire
      BY <2>1, <2>2, <2>3, AccessAssumption DEF StoresOK, Timely, Request, Cookie, Genuine
    <2>5. now < ck.made + CookieExpire + Slow
      BY <2>3, <2>4
    <2>6. now <= TrueEnd(Terms[r.client]) + Slow
      <3>1. PICK o \in [act : Nat, prob : Nat, dur : Nat] : o = Terms[r.client]
        BY AccessAssumption DEF Request
      <3>2. TrueEnd(o) \in Nat /\ r.since <= TrueEnd(o)
        BY <2>1, <2>2, <3>1 DEF Visits, TrueEnd
      <3> QED
        BY <2>4, <3>1, <3>2
    <2>7. ck.stamp # Cheat =>
            ck.made < ck.stamp + SignExpire + Slow /\ Account[ck.name] \in Wallet[r.client]
      BY <2>3 DEF Genuine
    <2> QED
      BY <2>2, <2>3, <2>5, <2>6, <2>7
  <1>2. UNCHANGED vars => Served
    BY DEF Served, Forwards, vars
  <1> QED
    BY <1>1, <1>2, Inductive, PTL DEF Spec, ServiceEnds

\* A client that signs in as one user, and is told so, is let in until the latest of its
\* cookies expires, but for one slow request.
THEOREM LoginsLast == Spec => LoginLasts
  <1>1. IInv /\ [Next]_vars => LetIn
    <2> SUFFICES ASSUME IInv, [Next]_vars, NEW v \in Visitors,
                        pc[v] = "find", ~req[v].deploys, pc'[v] = "idle",
                        Cardinality(names[req[v].client]) = 1,
                        req[v].sent = jar[req[v].client]
                 PROVE  now + Slow >= until[req[v].client]
      BY DEF LetIn
    <2>1. VisitorsOK /\ StoresOK /\ Jars
      BY Halves DEF IInv
    <2>2. PICK r \in Request : r = req[v]
      BY <2>1, Working
    <2>3. PICK c \in Clients : c = r.client
      BY DEF Request
    <2>4. Jar(c) /\ r.sent = jar[c] /\ jar[c] \in Seq(Cookie)
      BY <2>1, <2>2, <2>3 DEF Jars, StoresOK
    <2>5. PICK u \in Users : names[c] = {u}
      <3>1. IsFiniteSet(names[c])
        BY <2>4 DEF Jar
      <3>2. Cardinality(names[c]) = 1
        BY <2>2, <2>3
      <3>3. \E u : names[c] = {u}
        <4>1. \A S : IsFiniteSet(S) => (Cardinality(S) = 1 <=> \E u : S = {u})
          BY FS_Singleton
        <4> QED
          BY <3>1, <3>2, <4>1
      <3> QED
        BY <2>1, <3>3 DEF StoresOK
    <2>6. PICK i \in OwnCookies(jar[c]) :
              until[c] <= jar[c][i].made + CookieExpire + Slow
      BY <2>4, <2>5 DEF Jar
    <2>7. \A j \in OwnCookies(jar[c]) : j = i
      BY <2>4, <2>5, <2>6 DEF Jar, Distinct
    <2>8. PICK ck \in Cookie : ck = jar[c][i]
      BY <2>4, <2>6, ElementOfSeq, LenProperties DEF OwnCookies
    <2>9. /\ ck.tag = Tag(ck.name, ck.exp) /\ ck.exp = ck.made + CookieExpire
          /\ now \in Nat /\ Slow \in Nat /\ CookieExpire \in Nat /\ ck.made \in Nat
          /\ until[c] \in Nat
      <3>1. Genuine(c, ck) /\ ck.name # Foreign
        BY <2>4, <2>6, <2>8 DEF Jar, OwnCookies
      <3>2. ck.made \in Nat
        BY DEF Cookie
      <3> QED
        BY <2>1, <3>1, <3>2, AccessAssumption DEF Genuine, StoresOK
    <2>10. ~Good(ck)
      <3>1. FindCookie(v)
        <4>1. Step(v) \/ \E d \in Clients : SignIn(v, d) \/ Visit(v, d)
          BY <2>1, OnlyItsOwn
        <4> QED
          BY <4>1 DEF Step, SignIn, Visit, CheckAuthInfo, MakeCookie, SetCookie,
             Deploy, CheckOrder, GetEntrance, GetProxy, Direct, Serve, PutProxy
      <3>2. CASE \E k \in OwnCookies(r.sent) : \E l \in {"deploy", "checkOrder"} : \E x : Goto(v, l, x)
        BY <2>1, <3>2 DEF Goto, VisitorsOK
      <3>3. CASE ~ \E k \in OwnCookies(r.sent) :
                     (\A j \in OwnCookies(r.sent) : k <= j) /\ Good(r.sent[k])
        <4>1. i \in Nat
          BY <2>4, <2>6, LenProperties DEF OwnCookies
        <4>2. \A j \in OwnCookies(r.sent) : i <= j
          BY <2>4, <2>7, <4>1
        <4> QED
          BY <2>4, <2>6, <2>8, <3>3, <4>2
      <3> QED
        BY <2>2, <3>1, <3>2, <3>3 DEF FindCookie
    <2> QED
      BY <2>2, <2>3, <2>6, <2>8, <2>9, <2>10 DEF Good
  <1>2. UNCHANGED vars => LetIn
    BY DEF LetIn, vars
  <1> QED
    BY <1>1, <1>2, Inductive, PTL DEF Spec, LoginLasts
=============================================================================
