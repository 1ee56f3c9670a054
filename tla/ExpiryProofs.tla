---------------------------- MODULE ExpiryProofs ----------------------------
(***************************************************************************)
(* What the wrapping arithmetic of Expiry does to the end of an order and    *)
(* to the age of a time stamp, for integers of every width and every number  *)
(* that the contract or a request may hold.                                  *)
(***************************************************************************)
EXTENDS Expiry, TLAPS

\* The times of an order as the contract holds them, whatever their width.
OnChain == [act : Nat, prob : Nat, dur : Nat]

LEMMA ModBounds ==
    ASSUME NEW x \in Nat, NEW m \in Nat \ {0}
    PROVE  x % m \in 0 .. m - 1 /\ x % m <= x /\ (x < m => x % m = x)
  OBVIOUS

\* Wrapping never makes a natural number larger, and keeps the small ones.
LEMMA Wrapping ==
    ASSUME NEW x \in Nat
    PROVE  /\ Int64(x) \in -Limit .. Limit - 1
           /\ Int64(x) <= x
           /\ x < Limit => Int64(x) = x
  <1> DEFINE m == 2 * Limit
             low == x % m
  <1>1. m \in Nat \ {0} /\ Limit \in Nat \ {0}
    BY ExpiryAssumption
  <1>2. low \in 0 .. m - 1 /\ low <= x /\ (x < m => low = x)
    BY <1>1, ModBounds
  <1>3. Int64(x) = IF low < Limit THEN low ELSE low - m
    BY DEF Int64
  <1> QED
    BY <1>1, <1>2, <1>3

\* A negative number that fits stays as it is, too.
LEMMA WrappingNegative ==
    ASSUME NEW x \in -Limit .. -1
    PROVE  Int64(x) = x
  <1>1. Limit \in Nat \ {0}
    BY ExpiryAssumption
  <1>2. x % (2 * Limit) = x + 2 * Limit
    BY <1>1
  <1> QED
    BY <1>1, <1>2 DEF Int64

LEMMA ReadTimes ==
    ASSUME NEW o \in OnChain, ~Overflows(o)
    PROVE  /\ Int64(o.act) \in Nat /\ Int64(o.act) <= o.act
           /\ Int64(o.prob) \in Nat /\ Int64(o.prob) <= o.prob
           /\ Int64(o.dur) \in Nat /\ Int64(o.dur) <= o.dur
  <1>1. o.act \in Nat /\ o.prob \in Nat /\ o.dur \in Nat
    BY DEF OnChain
  <1>2. Limit \in Nat \ {0}
    BY ExpiryAssumption
  <1> QED
    BY <1>1, <1>2, Wrapping DEF Overflows

\* ExpireCheck admits nothing after the true end of an order, however its times wrap
\* when they are read (remote.go, GetOrder and ExpireCheck).
THEOREM ExpireCheckNeverLate ==
    ASSUME NEW o \in OnChain, NEW t \in Int, ExpireCheck(o, t)
    PROVE  t <= TrueEnd(o)
  <1> DEFINE s == Int64(o.act) + Int64(o.prob) + Int64(o.dur)
  <1>1. ~Overflows(o) /\ t <= Int64(s)
    BY DEF ExpireCheck, End
  <1>2. o.act \in Nat /\ o.prob \in Nat /\ o.dur \in Nat
    BY DEF OnChain
  <1>3. s \in Nat /\ s <= TrueEnd(o) /\ TrueEnd(o) \in Nat
    BY <1>1, <1>2, ReadTimes DEF TrueEnd
  <1> HIDE DEF s
  <1>4. Int64(s) <= s /\ Int64(s) \in Int
    BY <1>3, Wrapping
  <1> QED
    BY <1>1, <1>3, <1>4

\* An order whose end fits an int64 is admitted up to that end and no longer.
THEOREM ExpireCheckExact ==
    ASSUME NEW o \in OnChain, NEW t \in Int, TrueEnd(o) < Limit
    PROVE  ExpireCheck(o, t) <=> t <= TrueEnd(o)
  <1>1. o.act \in Nat /\ o.prob \in Nat /\ o.dur \in Nat /\ Limit \in Nat
    BY ExpiryAssumption DEF OnChain
  <1>2. o.act < Limit /\ o.prob < Limit /\ o.dur < Limit /\ TrueEnd(o) \in Nat
    BY <1>1 DEF TrueEnd
  <1>3. Int64(o.act) = o.act /\ Int64(o.prob) = o.prob /\ Int64(o.dur) = o.dur
    BY <1>1, <1>2, Wrapping
  <1>4. ~Overflows(o)
    BY <1>1, <1>3 DEF Overflows
  <1>5. End(o) = TrueEnd(o)
    <2>1. End(o) = Int64(TrueEnd(o))
      BY <1>3 DEF End, TrueEnd
    <2> QED
      BY <1>2, <2>1, Wrapping
  <1> QED
    BY <1>4, <1>5 DEF ExpireCheck

\* A time stamp passes only while it is younger than the validity, even if the sum of
\* the two wraps; and passes for that long if it does not (auxiliary.go, checkExpire).
THEOREM CheckExpireExact ==
    ASSUME NEW stamp \in -Limit .. Limit - 1, NEW within \in 0 .. Limit - 1, NEW t \in Int
    PROVE  /\ CheckExpire(stamp, within, t) => t < stamp + within
           /\ stamp + within < Limit => (CheckExpire(stamp, within, t) <=> t < stamp + within)
  <1> DEFINE s == stamp + within
  <1>1. Limit \in Nat \ {0}
    BY ExpiryAssumption
  <1>2. s \in Int /\ -Limit <= s
    BY <1>1
  <1> HIDE DEF s
  <1>3. Int64(s) \in Int /\ Int64(s) <= s /\ (s < Limit => Int64(s) = s)
    <2>1. CASE s >= 0
      BY <1>1, <1>2, <2>1, Wrapping
    <2>2. CASE s < 0
      BY <1>1, <1>2, <2>2, WrappingNegative
    <2> QED
      BY <1>2, <2>1, <2>2
  <1> QED
    BY <1>1, <1>2, <1>3 DEF CheckExpire, s
=============================================================================
