------------------------------ MODULE MCAccess ------------------------------
(* Access for TLC: a browser with a cookie of another site, whose wallet has the key of *)
(* one account; with the code for tests it signs in as another one, too.                *)
EXTENDS Access, TLC

CONSTANTS v1, v2, x1, x2, c1

MCAccount == ("0xA" :> "a") @@ ("0xB" :> "b")
MCWallet == c1 :> {"a"}
MCTerms == c1 :> [act |-> 0, prob |-> 1, dur |-> 1]
MCFirstJar == c1 :> <<ForeignCookie>>
MCCheat == -9

Symmetry == Permutations({v1, v2}) \cup Permutations({x1, x2})
=============================================================================
