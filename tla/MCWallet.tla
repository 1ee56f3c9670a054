------------------------------ MODULE MCWallet ------------------------------
(* Wallet for TLC.  Processes, passwords and keys but the shipped one are       *)
(* interchangeable; the properties are invariants and action properties.        *)
EXTENDS Wallet, TLC

Symmetry ==
    Permutations(Procs) \cup Permutations(Passwords) \cup Permutations(Keys \ {Shipped})
=============================================================================
