------------------------------ MODULE MCProver ------------------------------
(* Prover for TLC: started at every second of one cycle. *)
EXTENDS Prover

AnySecond == (Prove + 2) * Cycle .. (Prove + 3) * Cycle - 1
=============================================================================
