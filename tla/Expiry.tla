------------------------------- MODULE Expiry -------------------------------
(***************************************************************************)
(* The arithmetic of validity periods: the end of an order, whose times are *)
(* 256-bit numbers on chain and read as int64 (ExpireCheck of               *)
(* computing/gateway/remote/remote.go), and the age of a signed time stamp  *)
(* (checkExpire of computing/gateway/local/auxiliary.go).  Seconds.         *)
(***************************************************************************)
EXTENDS Integers

CONSTANT Limit      \* 2^63: the first number an int64 does not hold

ASSUME ExpiryAssumption == Limit \in Nat \ {0}

\* big.Int.Int64 keeps the low 64 bits; so does the sum of two int64.
Int64(x) ==
    LET low == x % (2 * Limit)
    IN  IF low < Limit THEN low ELSE low - 2 * Limit

\* When an order ends by what the contract holds, and by what the gateway computes.
TrueEnd(o) == o.act + o.prob + o.dur
End(o) == Int64(Int64(o.act) + Int64(o.prob) + Int64(o.dur))

\* The upper half of each overflow check compares an int64 with the largest one.
Overflows(o) == Int64(o.act) < 0 \/ Int64(o.prob) < 0 \/ Int64(o.dur) < 0

\* Mutant: the last second of an order is refused.
ExpireCheckStrict(o, t) == ~Overflows(o) /\ t < End(o)

\* Mutant: the probation is granted on top of an end that contains it.
ExpireCheckLate(o, t) == ~Overflows(o) /\ t - Int64(o.prob) <= End(o)

\* Whether an order may be used at second t.
ExpireCheck(o, t) == ~Overflows(o) /\ t <= End(o)

\* Whether a time stamp is recent enough at second t.  One from the future is.
CheckExpire(stamp, within, t) == Int64(stamp + within) > t
=============================================================================
