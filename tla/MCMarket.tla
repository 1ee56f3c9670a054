------------------------------ MODULE MCMarket ------------------------------
(* Market for TLC: an int64 of three bits. *)
EXTENDS Market, TLC

CONSTANTS p1, p2

\* Orders that end at 2, and at 4, which does not fit, after two renewals.
MCTerms == {[act |-> 0, prob |-> 1, dur |-> 1]}

Symmetry == Permutations({p1, p2})
=============================================================================
