---------------------------- MODULE ProverProofs ----------------------------
(***************************************************************************)
(* Proofs about module Prover, for cycles of any length, started at any     *)
(* second, with any number of late wake-ups, slow calls and failing ones.   *)
(* Time is reckoned from the start of the cycle it lies in, its base: the   *)
(* remainders of the code are distances from one base or from the next.     *)
(***************************************************************************)
EXTENDS Prover, SequenceTheorems, TLAPS

\* The start of a cycle, and the cycle a second lies in.
Aligned(b) == b \in Nat /\ b % Cycle = 0
Base(x) == x - (x % Cycle)
Within(x, b) == b <= x /\ x < b + Cycle

-----------------------------------------------------------------------------
(* Arithmetic. *)

LEMMA CycleFacts ==
    /\ Cycle \in Nat /\ Cycle = Prep + Prove + Wait /\ Prep < Cycle
    /\ Prep \in Nat \ {0} /\ Prove \in Nat /\ Wait \in Nat
  BY ProverAssumption DEF Cycle

LEMMA Division ==
    ASSUME NEW x \in Nat, NEW c \in Nat \ {0}
    PROVE  /\ x % c \in 0 .. c - 1 /\ x \div c \in Nat
           /\ x = c * (x \div c) + (x % c)
  OBVIOUS

LEMMA Multiples ==
    ASSUME NEW c \in Nat \ {0}, NEW p \in Nat, NEW q \in Nat, p < q
    PROVE  c * p + c <= c * q
  <1>1. PICK d \in Nat : q = p + 1 + d
    <2>1. q - p - 1 \in Nat /\ q = p + 1 + (q - p - 1)
      OBVIOUS
    <2> QED
      BY <2>1
  <1>2. c * q = c * p + c + c * d
    BY <1>1
  <1>3. c * d >= 0
    OBVIOUS
  <1> QED
    BY <1>2, <1>3

LEMMA Unique ==
    ASSUME NEW c \in Nat \ {0}, NEW q \in Nat, NEW r \in 0 .. c - 1, NEW x \in Nat, x = c * q + r
    PROVE  x % c = r /\ x \div c = q
  <1> DEFINE d == x \div c
             e == x % c
  <1>1. d \in Nat /\ e \in 0 .. c - 1 /\ x = c * d + e
    BY Division
  <1> HIDE DEF d, e
  <1>2. ~ d < q
    <2> SUFFICES ASSUME d < q PROVE FALSE
      OBVIOUS
    <2>1. c * d + c <= c * q
      BY <1>1, Multiples
    <2>2. c * d \in Nat /\ c * q \in Nat
      BY <1>1
    <2> QED
      BY <1>1, <2>1, <2>2
  <1>3. ~ q < d
    <2> SUFFICES ASSUME q < d PROVE FALSE
      OBVIOUS
    <2>1. c * q + c <= c * d
      BY <1>1, Multiples
    <2>2. c * d \in Nat /\ c * q \in Nat
      BY <1>1
    <2> QED
      BY <1>1, <2>1, <2>2
  <1>4. d = q
    BY <1>1, <1>2, <1>3
  <1>5. e = r
    <2>1. c * q \in Nat
      OBVIOUS
    <2> QED
      BY <1>1, <1>4, <2>1
  <1> QED
    BY <1>4, <1>5 DEF d, e

\* A start of a cycle is so many whole cycles after the first.
LEMMA AlignedTimes ==
    ASSUME NEW b, Aligned(b)
    PROVE  b \div Cycle \in Nat /\ b = Cycle * (b \div Cycle)
  <1>1. Cycle \in Nat \ {0}
    BY CycleFacts
  <1> QED
    BY <1>1, Division DEF Aligned

\* The remainder and the quotient of a second in the cycle that starts at b.
LEMMA InCycle ==
    ASSUME NEW b, Aligned(b), NEW x \in Nat, Within(x, b)
    PROVE  x % Cycle = x - b /\ x \div Cycle = b \div Cycle /\ Base(x) = b
  <1>1. Cycle \in Nat \ {0} /\ b \in Nat
    BY CycleFacts DEF Aligned
  <1>2. b \div Cycle \in Nat /\ b = Cycle * (b \div Cycle)
    BY AlignedTimes
  <1>3. x - b \in 0 .. Cycle - 1 /\ x = Cycle * (b \div Cycle) + (x - b)
    BY <1>1, <1>2 DEF Within
  <1>4. x % Cycle = x - b /\ x \div Cycle = b \div Cycle
    BY <1>1, <1>2, <1>3, Unique
  <1> QED
    BY <1>1, <1>4 DEF Base

LEMMA BaseIsAligned ==
    ASSUME NEW x \in Nat
    PROVE  Aligned(Base(x)) /\ Within(x, Base(x)) /\ x \div Cycle = Base(x) \div Cycle
  <1>1. Cycle \in Nat \ {0}
    BY CycleFacts
  <1>2. x % Cycle \in 0 .. Cycle - 1 /\ x \div Cycle \in Nat /\ x = Cycle * (x \div Cycle) + (x % Cycle)
    BY <1>1, Division
  <1>3. Base(x) \in Nat /\ Base(x) = Cycle * (x \div Cycle) + 0
    <2>1. Cycle * (x \div Cycle) \in Nat
      BY <1>1, <1>2
    <2> QED
      BY <1>2, <2>1 DEF Base
  <1>4. Base(x) % Cycle = 0 /\ Base(x) \div Cycle = x \div Cycle
    <2>1. 0 \in 0 .. Cycle - 1
      BY <1>1
    <2> QED
      BY <1>1, <1>2, <1>3, <2>1, Unique
  <1> QED
    BY <1>1, <1>2, <1>3, <1>4 DEF Aligned, Within, Base

LEMMA NextAligned ==
    ASSUME NEW b, Aligned(b)
    PROVE  Aligned(b + Cycle)
  <1>1. Cycle \in Nat \ {0} /\ b \in Nat
    BY CycleFacts DEF Aligned
  <1>2. PICK q \in Nat : b = Cycle * q
    BY AlignedTimes
  <1>3. PICK n \in Nat : n = q + 1
    OBVIOUS
  <1>4. PICK x \in Nat : x = b + Cycle
    BY <1>1
  <1>5. x = Cycle * n + 0
    <2>1. \A i \in Nat, c \in Nat : c * (i + 1) = c * i + c
      OBVIOUS
    <2>2. \A i \in Nat, c \in Nat : c * i \in Nat
      OBVIOUS
    <2> QED
      BY <1>1, <1>2, <1>3, <1>4, <2>1, <2>2
  <1>6. 0 \in 0 .. Cycle - 1
    BY <1>1
  <1>7. x % Cycle = 0
    BY <1>1, <1>5, <1>6, Unique
  <1> QED
    BY <1>4, <1>7 DEF Aligned

\* Two starts of cycles are a whole cycle apart.
LEMMA Apart ==
    ASSUME NEW a, NEW b, Aligned(a), Aligned(b), a < b
    PROVE  a + Cycle <= b
  <1>1. a \in Nat /\ b \in Nat /\ Cycle \in Nat \ {0}
    BY CycleFacts DEF Aligned
  <1>2. CASE b < a + Cycle
    <2>1. Base(b) = a /\ b % Cycle = b - a
      BY <1>1, <1>2, InCycle DEF Within
    <2>2. b % Cycle = 0
      BY DEF Aligned
    <2> QED
      BY <1>1, <2>1, <2>2
  <1> QED
    BY <1>1, <1>2

LEMMA Difference ==
    ASSUME NEW a, NEW b, Aligned(a), Aligned(b), a <= b
    PROVE  Aligned(b - a)
  <1>1. Cycle \in Nat \ {0} /\ a \in Nat /\ b \in Nat
    BY CycleFacts DEF Aligned
  <1>2. PICK p \in Nat : a = Cycle * p
    BY AlignedTimes
  <1>3. PICK q \in Nat : b = Cycle * q
    BY AlignedTimes
  <1>4. p <= q
    <2> SUFFICES ASSUME q < p PROVE FALSE
      BY <1>2, <1>3
    <2>1. Cycle * q + Cycle <= Cycle * p
      BY <1>1, Multiples
    <2> QED
      BY <1>1, <1>2, <1>3, <2>1
  <1>5. PICK d \in Nat : d = q - p
    BY <1>4
  <1>6. PICK x \in Nat : x = b - a
    BY <1>1
  <1>7. x = Cycle * d + 0
    <2>1. q = p + d
      BY <1>4, <1>5
    <2>2. \A i \in Nat, j \in Nat, c \in Nat : c * (i + j) = c * i + c * j /\ c * i \in Nat
      OBVIOUS
    <2>3. Cycle * (p + d) = Cycle * p + Cycle * d /\ Cycle * d \in Nat
      BY <1>1, <2>2
    <2> QED
      BY <1>1, <1>2, <1>3, <1>6, <2>1, <2>3
  <1>8. 0 \in 0 .. Cycle - 1
    BY <1>1
  <1>9. x % Cycle = 0
    BY <1>1, <1>7, <1>8, Unique
  <1> QED
    BY <1>6, <1>9 DEF Aligned

-----------------------------------------------------------------------------
(* CalculateWatingTime. *)

\* How far into its cycle a second is, from that cycle's start or from the next one's.
LEMMA OverIs ==
    ASSUME NEW t \in Nat, Aligned(last)
    PROVE  \/ Over(t) = t - Base(t) /\ (last <= t \/ t = Base(t))
           \/ Over(t) = t - Base(t) - Cycle /\ t < last /\ t # Base(t)
  <1>1. PICK b \in Nat : b = Base(t) /\ Aligned(b) /\ b <= t /\ t < b + Cycle
    BY BaseIsAligned DEF Aligned, Within
  <1>2. last \in Nat /\ Cycle \in Nat \ {0} /\ Aligned(b + Cycle)
    BY <1>1, CycleFacts, NextAligned DEF Aligned
  <1>3. CASE last <= t
    <2>1. last <= b
      <3> SUFFICES ASSUME b < last PROVE FALSE
        BY <1>1, <1>2
      <3>1. b + Cycle <= last
        BY <1>1, Apart
      <3> QED
        BY <1>1, <1>2, <1>3, <3>1
    <2>2. PICK a \in Nat : a = b - last /\ Aligned(a)
      BY <1>1, <1>2, <2>1, Difference
    <2>3. PICK x \in Nat : x = t - last
      BY <1>2, <1>3
    <2>4. Within(x, a)
      BY <1>1, <1>2, <2>2, <2>3 DEF Within
    <2>5. x % Cycle = x - a
      BY <2>2, <2>4, InCycle
    <2>6. Over(t) = t - b
      BY <1>1, <1>2, <1>3, <2>2, <2>3, <2>5 DEF Over, Rem
    <2> QED
      BY <1>1, <1>3, <2>6
  <1>4. CASE t < last
    <2>1. b + Cycle <= last
      <3>1. b < last
        BY <1>1, <1>2, <1>4
      <3> QED
        BY <1>1, <3>1, Apart
    <2>2. PICK x \in Nat : x = last - t
      BY <1>2, <1>4
    <2>3. Over(t) = -(x % Cycle)
      BY <1>2, <1>4, <2>2 DEF Over, Rem
    <2>4. CASE t = b
      <3>1. Aligned(x)
        BY <1>1, <1>2, <1>4, <2>2, <2>4, Difference
      <3> QED
        BY <1>1, <2>3, <2>4, <3>1 DEF Aligned
    <2>5. CASE t # b
      <3>1. PICK a \in Nat : a = last - (b + Cycle) /\ Aligned(a)
        BY <1>1, <1>2, <2>1, Difference
      <3>2. Within(x, a)
        <4>1. b < t
          BY <1>1, <2>5
        <4> QED
          BY <1>1, <1>2, <2>2, <3>1, <4>1 DEF Within
      <3>3. x % Cycle = x - a
        BY <3>1, <3>2, InCycle
      <3> QED
        BY <1>1, <1>2, <1>4, <2>2, <2>3, <2>5, <3>1, <3>3
    <2> QED
      BY <2>4, <2>5
  <1> QED
    BY <1>1, <1>2, <1>3, <1>4

\* Either the present second lies in a window that last has reached, or the wait ends
\* when the window of the cycle that last is set to begins.
LEMMA Calculated ==
    ASSUME NEW t \in Nat, Aligned(last)
    PROVE  /\ Aligned(LastAt(t)) /\ Waiting(t) \in Nat
           /\ \/ /\ LastAt(t) = last /\ Waiting(t) = 0 /\ last <= t
                 /\ Base(t) + Prep <= t /\ t <= Base(t) + Prep + Prove
              \/ /\ t + Waiting(t) = LastAt(t) + Prep
                 /\ \/ LastAt(t) = Base(t) /\ t < Base(t) + Prep
                    \/ LastAt(t) = Base(t) + Cycle /\ (t < last \/ Base(t) + Prep + Prove < t)
  <1>1. PICK b \in Nat : b = Base(t) /\ Aligned(b) /\ b <= t /\ t < b + Cycle
    BY BaseIsAligned DEF Aligned, Within
  <1>2. /\ last \in Nat /\ Aligned(b + Cycle)
        /\ Cycle \in Nat /\ Cycle = Prep + Prove + Wait /\ Prep < Cycle
        /\ Prep \in Nat \ {0} /\ Prove \in Nat /\ Wait \in Nat
    BY <1>1, CycleFacts, NextAligned DEF Aligned
  <1>3. CASE Over(t) = t - b - Cycle /\ t < last /\ t # b
    <2>1. Over(t) < Prep /\ Over(t) \in Int
      BY <1>1, <1>2, <1>3
    <2>2. LastAt(t) = b + Cycle /\ Waiting(t) = Prep + b + Cycle - t
      BY <1>1, <1>2, <1>3, <2>1 DEF LastAt, Waiting
    <2> QED
      BY <1>1, <1>2, <1>3, <2>2
  <1>4. CASE Over(t) = t - b /\ (last <= t \/ t = b)
    <2>1. CASE Over(t) < Prep
      <3>1. LastAt(t) = b /\ Waiting(t) = Prep + b - t
        BY <1>1, <1>2, <1>4, <2>1 DEF LastAt, Waiting
      <3> QED
        BY <1>1, <1>2, <1>4, <2>1, <3>1
    <2>2. CASE Over(t) > Prep + Prove
      <3>1. LastAt(t) = b + Cycle /\ Waiting(t) = Cycle + Prep + b - t
        BY <1>1, <1>2, <1>4, <2>2 DEF LastAt, Waiting
      <3> QED
        BY <1>1, <1>2, <1>4, <2>2, <3>1
    <2>3. CASE Over(t) >= Prep /\ Over(t) <= Prep + Prove
      <3>1. LastAt(t) = last /\ Waiting(t) = 0
        BY <1>1, <1>2, <1>4, <2>3 DEF LastAt, Waiting
      <3> QED
        BY <1>1, <1>2, <1>4, <2>3, <3>1
    <2> QED
      BY <1>1, <1>2, <1>4, <2>1, <2>2, <2>3
  <1> QED
    BY <1>1, <1>3, <1>4, OverIs

-----------------------------------------------------------------------------
(* Types and windows. *)

WindowInv == TypeOK /\ WokenInWindow

LEMMA WindowStart == Init => WindowInv
  <1> SUFFICES ASSUME Init PROVE WindowInv
    OBVIOUS
  <1>1. now \in Nat /\ wake \in Nat /\ Failures \in Nat /\ Cycle \in Nat \ {0}
    BY ProverAssumption, CycleFacts DEF Init
  <1>2. 0 % Cycle = 0
    BY <1>1
  <1>3. handed \in Seq(Nat)
    BY EmptySeq DEF Init
  <1>4. last \in Nat /\ next \in Nat /\ last % Cycle = 0 /\ next % Cycle = 0
    BY <1>2 DEF Init
  <1>5. drawn \in Nat /\ done \in Nat /\ failures \in 0 .. Failures
    BY <1>1 DEF Init
  <1>6. pc \in Labels /\ doned \in BOOLEAN /\ stopper \in {"no", "waits", "returned"}
    BY DEF Init, Labels, Calls
  <1>7. TypeOK
    BY <1>1, <1>3, <1>4, <1>5, <1>6 DEF TypeOK
  <1> QED
    BY <1>7 DEF Init, WindowInv, WokenInWindow

\* The wait that Calculate works out ends in a window, and last and next stay starts of cycles.
LEMMA CalculateWindow == WindowInv /\ Calculate => WindowInv'
  <1> SUFFICES ASSUME WindowInv, Calculate PROVE WindowInv'
    OBVIOUS
  <1>1. now \in Nat /\ Aligned(last)
    BY DEF WindowInv, TypeOK, Aligned
  <1>2. PICK b \in Nat : b = Base(now) /\ Aligned(b) /\ b <= now /\ now < b + Cycle
    BY <1>1, BaseIsAligned DEF Aligned, Within
  <1>3. PICK l \in Nat : l = LastAt(now) /\ Aligned(l)
    BY <1>1, Calculated DEF Aligned
  <1>4. PICK w \in Nat : w = now + Waiting(now)
    BY <1>1, Calculated
  <1>5. Aligned(l + Cycle) /\ l + Cycle \in Nat
    BY <1>3, NextAligned DEF Aligned
  <1>6. w % Cycle \in Prep .. Prep + Prove
    <2>1. CASE Waiting(now) = 0 /\ b + Prep <= now /\ now <= b + Prep + Prove
      <3>1. w = now /\ now % Cycle = now - b
        BY <1>1, <1>2, <1>4, <2>1, InCycle DEF Within
      <3> QED
        BY <1>1, <1>2, <2>1, <3>1, CycleFacts
    <2>2. CASE w = l + Prep
      <3>1. Within(w, l)
        BY <1>3, <2>2, CycleFacts DEF Within
      <3>2. w % Cycle = w - l
        BY <1>3, <3>1, InCycle
      <3> QED
        BY <1>3, <1>4, <2>2, <3>2, CycleFacts
    <2> QED
      BY <1>1, <1>2, <1>3, <1>4, <2>1, <2>2, Calculated
  <1>7. wake' = w /\ last' = l /\ next' = l + Cycle
    BY <1>3, <1>4 DEF Calculate
  <1>8. TypeOK'
    BY <1>3, <1>4, <1>5, <1>7 DEF WindowInv, TypeOK, Calculate, Labels, Aligned
  <1> QED
    BY <1>6, <1>7, <1>8 DEF WindowInv, WokenInWindow, Cycle

LEMMA AgainTypes ==
    ASSUME TypeOK, Again
    PROVE  /\ wake' \in Nat /\ next' = 0 /\ next' % Cycle = 0 /\ drawn' = 0 /\ pc' = "sleep"
  BY CycleFacts DEF TypeOK, Again

LEMMA FailsTypes ==
    ASSUME TypeOK, Fails
    PROVE  failures' \in 0 .. Failures
  BY ProverAssumption DEF TypeOK, Fails

\* The other steps of the loop do not reach select, and take last from next.
LEMMA RoundWindow ==
    WindowInv /\ (Done \/ Timer \/ Count \/ GetRND \/ GenerateProof \/ Submit) => WindowInv'
  <1> SUFFICES ASSUME WindowInv, Done \/ Timer \/ Count \/ GetRND \/ GenerateProof \/ Submit
               PROVE  WindowInv'
    OBVIOUS
  <1>1. TypeOK
    BY DEF WindowInv
  <1>2. CASE Done
    BY <1>1, <1>2 DEF Done, WindowInv, TypeOK, WokenInWindow, Labels, Cycle
  <1>3. CASE Timer
    BY <1>1, <1>3 DEF Timer, Begin, WindowInv, TypeOK, WokenInWindow, Labels, Calls, Cycle
  <1>4. CASE Count
    <2>1. CASE Begin("rnd") /\ UNCHANGED <<next, drawn, failures>>
      BY <1>1, <1>4, <2>1 DEF Count, Begin, WindowInv, TypeOK, WokenInWindow, Labels, Calls, Cycle
    <2>2. CASE Fails /\ Again
      BY <1>1, <1>4, <2>2, AgainTypes, FailsTypes
         DEF Count, WindowInv, TypeOK, WokenInWindow, Labels, Cycle
    <2> QED
      BY <1>4, <2>1, <2>2 DEF Count
  <1>5. CASE GetRND
    <2>1. CASE Begin("pow") /\ drawn' = now /\ UNCHANGED <<next, failures>>
      BY <1>1, <1>5, <2>1 DEF GetRND, Begin, WindowInv, TypeOK, WokenInWindow, Labels, Calls, Cycle
    <2>2. CASE Fails /\ Again
      BY <1>1, <1>5, <2>2, AgainTypes, FailsTypes
         DEF GetRND, WindowInv, TypeOK, WokenInWindow, Labels, Cycle
    <2> QED
      BY <1>5, <2>1, <2>2 DEF GetRND
  <1>6. CASE GenerateProof
    <2>1. CASE Begin("submit") /\ UNCHANGED <<next, drawn, failures>>
      BY <1>1, <1>6, <2>1
         DEF GenerateProof, Begin, WindowInv, TypeOK, WokenInWindow, Labels, Calls, Cycle
    <2>2. CASE Fails /\ Again
      BY <1>1, <1>6, <2>2, AgainTypes, FailsTypes
         DEF GenerateProof, WindowInv, TypeOK, WokenInWindow, Labels, Cycle
    <2> QED
      BY <1>6, <2>1, <2>2 DEF GenerateProof
  <1>7. CASE Submit
    <2>1. handed' \in Seq(Nat)
      BY <1>1, <1>7, AppendProperties DEF Submit, TypeOK
    <2> QED
      BY <1>1, <1>7, <2>1, AgainTypes
         DEF Submit, Again, WindowInv, TypeOK, WokenInWindow, Labels, Cycle
  <1> QED
    BY <1>2, <1>3, <1>4, <1>5, <1>6, <1>7

LEMMA WindowStep == WindowInv /\ [Next]_vars => WindowInv'
  <1> SUFFICES ASSUME WindowInv, [Next]_vars PROVE WindowInv'
    OBVIOUS
  <1>1. CASE Calculate
    BY <1>1, CalculateWindow
  <1>2. CASE Done \/ Timer \/ Count \/ GetRND \/ GenerateProof \/ Submit
    BY <1>2, RoundWindow
  <1>3. CASE Stop
    BY <1>3 DEF Stop, loopVars, WindowInv, TypeOK, WokenInWindow, Cycle
  <1>4. CASE Stopped
    BY <1>4 DEF Stopped, loopVars, WindowInv, TypeOK, WokenInWindow, Cycle
  <1>5. CASE Tick
    <2>1. now' \in Nat /\ UNCHANGED <<loopVars, done, stopper, failures, handed>>
      BY <1>5 DEF Tick, WindowInv, TypeOK
    <2> QED
      BY <2>1 DEF loopVars, WindowInv, TypeOK, WokenInWindow, Cycle
  <1>6. CASE UNCHANGED vars
    BY <1>6 DEF vars, WindowInv, TypeOK, WokenInWindow, Cycle
  <1> QED
    BY <1>1, <1>2, <1>3, <1>4, <1>5, <1>6 DEF Next, Loop

\* Every state of the prover is well formed; the starts of cycles it works with are multiples
\* of the cycle, however late a round begins (CalculateWatingTime).
THEOREM ProverTypes == Spec => []TypeOK
  <1>1. WindowInv => TypeOK
    BY DEF WindowInv
  <1> QED
    BY <1>1, WindowStart, WindowStep, PTL DEF Spec

\* The timer of a round fires inside a prove window, also right after a proof, when last lies
\* ahead of the clock and Go's remainder is negative (CalculateWatingTime).
THEOREM WakesInWindow == Spec => []WokenInWindow
  <1>1. WindowInv => WokenInWindow
    BY DEF WindowInv
  <1> QED
    BY <1>1, WindowStart, WindowStep, PTL DEF Spec

-----------------------------------------------------------------------------
(* One proof in a cycle: a round ends before the window after its own opens. *)

\* What the code relies on when it takes a late or a slow round to be over before the next window:
\* the random value is read before its cycle ends, and the next round looks at the clock in time.
RoundFits ==
    /\ Late + 2 * Slow < Wait
    /\ 1 + 2 * Late + 4 * Slow < Wait + Prep

\* The round proves for the cycle that starts at b: no proof was handed in for it, or all of them were.
Covers(b) ==
    \/ last = b /\ \A i \in DOMAIN handed : handed[i] < b
    \/ \A i \in DOMAIN handed : Within(handed[i], b)

\* x lies in the window of the cycle that starts at b, or up to d seconds after it.
Opened(x, b, d) == b + Prep <= x /\ x <= b + Prep + Prove + d

Begun(b) ==
    /\ pc = "select" => Opened(wake, b, 0)
    /\ pc = "count" => Opened(wake, b, Late)
    /\ pc = "rnd" => Opened(wake, b, Late + Slow)
    /\ pc = "pow" => Opened(wake, b, Late + 2 * Slow)
    /\ pc = "submit" => Opened(wake, b, Late + 3 * Slow)
    /\ pc \in {"pow", "submit"} => Opened(drawn, b, Late + 2 * Slow) /\ drawn <= wake

Past == \A i \in DOMAIN handed : handed[i] <= now /\ handed[i] % Cycle >= Prep

Timed ==
    /\ pc \in {"sleep", "select"} => now <= wake + Late
    /\ pc \in Calls => wake <= now /\ now <= wake + Slow

InRound ==
    pc \in Calls \cup {"select"} =>
        next = last + Cycle /\ \E b \in Nat : Aligned(b) /\ Covers(b) /\ Begun(b)

\* Between two rounds the first of them is over soon enough after its window.
Rested ==
    pc = "sleep" /\ handed # <<>> =>
        \E b \in Nat : /\ Aligned(b) /\ b <= now
                       /\ wake <= b + Prep + Prove + Late + 4 * Slow + 1
                       /\ (Covers(b) \/ last = b + Cycle)

RoundInv == Past /\ Timed /\ InRound /\ Rested /\ OnePerCycle

LEMMA Bounds ==
    /\ Late \in Nat /\ Slow \in Nat /\ Prep \in Nat \ {0} /\ Prove \in Nat /\ Wait \in Nat
    /\ Cycle \in Nat /\ Cycle = Prep + Prove + Wait
  BY ProverAssumption, CycleFacts

LEMMA HandedTimes ==
    ASSUME TypeOK
    PROVE  \A i \in DOMAIN handed : handed[i] \in Nat
  BY ElementOfSeq, LenProperties DEF TypeOK

\* A second before the start of a cycle lies in another cycle.
LEMMA EarlierCycle ==
    ASSUME NEW b, Aligned(b), NEW x \in Nat, x < b
    PROVE  x \div Cycle # b \div Cycle
  <1>1. PICK a \in Nat : a = Base(x) /\ Aligned(a) /\ a <= x /\ x \div Cycle = a \div Cycle
    BY BaseIsAligned DEF Aligned, Within
  <1>2. a < b
    BY <1>1 DEF Aligned
  <1>3. a = Cycle * (a \div Cycle) /\ b = Cycle * (b \div Cycle)
    BY <1>1, AlignedTimes
  <1>4. a \div Cycle # b \div Cycle
    BY <1>1, <1>2, <1>3 DEF Aligned
  <1> QED
    BY <1>1, <1>4

LEMMA RoundStart == Init => RoundInv
  <1> SUFFICES ASSUME Init PROVE RoundInv
    OBVIOUS
  <1>1. now \in Nat /\ wake = now + 1 /\ Late \in Nat
    BY ProverAssumption DEF Init
  <1>2. handed = <<>> /\ DOMAIN handed = {} /\ pc = "sleep"
    BY EmptySeq, LenProperties DEF Init
  <1> QED
    BY <1>1, <1>2 DEF RoundInv, Past, Timed, InRound, Rested, OnePerCycle, Calls

-----------------------------------------------------------------------------

\* A round that finds a window open keeps its cycle: the round before was over before another opened.
LEMMA KeptCovers ==
    ASSUME RoundFits, TypeOK, RoundInv, pc = "sleep",
           NEW b \in Nat, Aligned(b), b + Prep <= now, now <= b + Prep + Prove, last <= now
    PROVE  Covers(b)
  <1>1. CASE handed = <<>>
    <2>1. DOMAIN handed = {}
      BY <1>1
    <2> QED
      BY <2>1 DEF Covers
  <1>2. CASE handed # <<>>
    <2>1. PICK a \in Nat : /\ Aligned(a) /\ a <= now
                           /\ wake <= a + Prep + Prove + Late + 4 * Slow + 1
                           /\ (Covers(a) \/ last = a + Cycle)
      BY <1>2 DEF RoundInv, Rested
    <2>2. now \in Nat /\ wake \in Nat /\ now <= wake + Late
      BY DEF TypeOK, RoundInv, Timed
    <2>3. now < a + Cycle + Prep
      BY <2>1, <2>2, Bounds DEF RoundFits
    <2>4. ~ a < b
      <3> SUFFICES ASSUME a < b PROVE FALSE
        OBVIOUS
      <3>1. a + Cycle <= b
        BY <2>1, Apart
      <3> QED
        BY <2>2, <2>3, <3>1, Bounds
    <2>5. ~ b < a
      <3> SUFFICES ASSUME b < a PROVE FALSE
        OBVIOUS
      <3>1. b + Cycle <= a
        BY <2>1, Apart
      <3>2. b + Prep + Prove >= b + Cycle
        BY <2>1, <2>2, <3>1, Bounds
      <3>3. Wait = 0
        BY <3>2, Bounds
      <3> QED
        BY <3>3, Bounds DEF RoundFits
    <2>6. a = b
      BY <2>4, <2>5
    <2>7. last # a + Cycle
      <3>1. 0 < Wait
        BY Bounds DEF RoundFits
      <3> QED
        BY <2>2, <2>6, <3>1, Bounds
    <2> QED
      BY <2>1, <2>6, <2>7
  <1> QED
    BY <1>1, <1>2

\* A round that waits for a window waits for one that no proof was handed in for.
LEMMA NothingHanded ==
    ASSUME TypeOK, Past, NEW b \in Nat, b = Base(now), NEW l \in Nat,
           \/ l = b /\ now < b + Prep
           \/ l = b + Cycle
    PROVE  \A i \in DOMAIN handed : handed[i] < l
  <1> SUFFICES ASSUME NEW i \in DOMAIN handed PROVE handed[i] < l
    OBVIOUS
  <1>1. now \in Nat /\ Aligned(b) /\ b <= now /\ now < b + Cycle
    BY BaseIsAligned DEF TypeOK, Within
  <1>2. PICK x \in Nat : x = handed[i] /\ x <= now /\ x % Cycle >= Prep
    BY HandedTimes DEF Past
  <1>3. CASE l = b /\ now < b + Prep
    <2> SUFFICES ASSUME b <= x PROVE FALSE
      BY <1>2, <1>3
    <2>1. x % Cycle = x - b
      BY <1>1, <1>2, InCycle, Bounds DEF Within
    <2> QED
      BY <1>1, <1>2, <1>3, <2>1, Bounds
  <1>4. CASE l = b + Cycle
    BY <1>1, <1>2, <1>4, Bounds
  <1> QED
    BY <1>3, <1>4

LEMMA CalculateRound ==
    ASSUME RoundFits, TypeOK, TypeOK', RoundInv, Calculate
    PROVE  RoundInv'
  <1>1. now \in Nat /\ Aligned(last) /\ last \in Nat
    BY DEF TypeOK, Aligned
  <1>2. PICK b \in Nat : b = Base(now) /\ Aligned(b) /\ b <= now /\ now < b + Cycle
    BY <1>1, BaseIsAligned DEF Aligned, Within
  <1>3. PICK l \in Nat : l = LastAt(now) /\ Aligned(l)
    BY <1>1, Calculated DEF Aligned
  <1>4. PICK w \in Nat : w = now + Waiting(now) /\ now <= w
    BY <1>1, Calculated
  <1>5. wake' = w /\ last' = l /\ next' = l + Cycle /\ pc' = "select" /\ now' = now /\ handed' = handed
    BY <1>3, <1>4 DEF Calculate
  <1>6. \/ /\ l = last /\ w = now /\ last <= now /\ b + Prep <= now /\ now <= b + Prep + Prove
        \/ /\ w = l + Prep
           /\ (l = b /\ now < b + Prep) \/ l = b + Cycle
    BY <1>1, <1>2, <1>3, <1>4, Calculated
  <1>7. \E c \in Nat : Aligned(c) /\ Covers(c)' /\ Opened(w, c, 0)
    <2>1. CASE l = last /\ w = now /\ last <= now /\ b + Prep <= now /\ now <= b + Prep + Prove
      <3>1. Covers(b)
        BY <1>2, <2>1, KeptCovers DEF Calculate
      <3>2. Covers(b)'
        BY <1>5, <2>1, <3>1 DEF Covers, Within, Cycle
      <3>3. Opened(w, b, 0)
        BY <1>1, <2>1, Bounds DEF Opened
      <3> QED
        BY <1>2, <3>2, <3>3
    <2>2. CASE w = l + Prep /\ ((l = b /\ now < b + Prep) \/ l = b + Cycle)
      <3>1. \A i \in DOMAIN handed : handed[i] < l
        BY <1>2, <2>2, NothingHanded DEF RoundInv
      <3>2. Covers(l)'
        BY <1>5, <3>1 DEF Covers
      <3>3. Opened(w, l, 0)
        BY <2>2, Bounds DEF Opened
      <3> QED
        BY <1>3, <3>2, <3>3
    <2> QED
      BY <1>6, <2>1, <2>2
  <1>8. InRound'
    <2>1. PICK c \in Nat : Aligned(c) /\ Covers(c)' /\ Opened(w, c, 0)
      BY <1>7
    <2>2. Begun(c)' /\ Aligned(c)'
      BY <1>5, <2>1 DEF Begun, Opened, Aligned, Cycle
    <2> QED
      BY <1>5, <2>1, <2>2 DEF InRound, Cycle
  <1>9. Past' /\ OnePerCycle'
    BY <1>5 DEF RoundInv, Past, OnePerCycle, Cycle
  <1>10. Timed'
    BY <1>1, <1>4, <1>5, Bounds DEF Timed, Calls
  <1> QED
    BY <1>5, <1>8, <1>9, <1>10 DEF RoundInv, Rested

-----------------------------------------------------------------------------

\* During a call the present second lies soon after the window of the round.
LEMMA CallTimes ==
    ASSUME TypeOK, RoundInv, pc \in Calls
    PROVE  /\ next = last + Cycle
           /\ \E b \in Nat : /\ Aligned(b) /\ Covers(b) /\ Begun(b)
                             /\ b + Prep <= now /\ now <= b + Prep + Prove + Late + 4 * Slow
  <1>1. PICK b \in Nat : Aligned(b) /\ Covers(b) /\ Begun(b)
    BY DEF RoundInv, InRound
  <1>2. now \in Nat /\ wake \in Nat /\ wake <= now /\ now <= wake + Slow
    BY DEF RoundInv, Timed, TypeOK
  <1>3. b + Prep <= wake /\ wake <= b + Prep + Prove + Late + 3 * Slow
    BY <1>1, <1>2, Bounds DEF Begun, Opened, Calls
  <1>4. b + Prep <= now /\ now <= b + Prep + Prove + Late + 4 * Slow
    BY <1>2, <1>3, Bounds
  <1> QED
    BY <1>1, <1>4 DEF RoundInv, InRound

\* A call that fails ends the round in time, and leaves its cycle as it was.
LEMMA FailedCall ==
    ASSUME TypeOK, RoundInv, pc \in Calls, Again, UNCHANGED <<now, last, handed>>
    PROVE  RoundInv'
  <1>1. PICK b \in Nat : /\ Aligned(b) /\ Covers(b)
                         /\ b + Prep <= now /\ now <= b + Prep + Prove + Late + 4 * Slow
    BY CallTimes
  <1>2. now \in Nat /\ now' = now /\ last' = last /\ handed' = handed /\ pc' = "sleep" /\ wake' = now + 1
    BY DEF TypeOK, Again
  <1>3. Covers(b)' /\ Aligned(b)'
    BY <1>1, <1>2 DEF Covers, Within, Cycle, Aligned
  <1>4. b <= now' /\ wake' <= b + Prep + Prove + Late + 4 * Slow + 1
    BY <1>1, <1>2, Bounds
  <1>5. Rested'
    BY <1>3, <1>4 DEF Rested
  <1>6. Timed' /\ InRound'
    BY <1>2, Bounds DEF Timed, InRound, Calls
  <1>7. Past' /\ OnePerCycle'
    BY <1>2 DEF RoundInv, Past, OnePerCycle, Cycle
  <1> QED
    BY <1>5, <1>6, <1>7 DEF RoundInv

\* The next call of a round begins as soon as the one before has returned.
LEMMA NextCall ==
    ASSUME RoundInv, TypeOK, NEW c \in Calls, Begin(c), UNCHANGED <<now, last, next, handed>>,
           next = last + Cycle, NEW b \in Nat, Aligned(b), Covers(b), Begun(b)'
    PROVE  RoundInv'
  <1>1. now \in Nat /\ pc' = c /\ wake' = now /\ now' = now /\ last' = last /\ next' = next /\ handed' = handed
    BY DEF TypeOK, Begin
  <1>2. Covers(b)' /\ Aligned(b)' /\ next' = last' + Cycle'
    BY <1>1 DEF Covers, Within, Cycle, Aligned
  <1>3. InRound' /\ Rested'
    BY <1>1, <1>2 DEF InRound, Rested, Calls
  <1>4. Timed'
    BY <1>1, Bounds DEF Timed, Calls
  <1>5. Past' /\ OnePerCycle'
    BY <1>1 DEF RoundInv, Past, OnePerCycle, Cycle
  <1> QED
    BY <1>3, <1>4, <1>5 DEF RoundInv

LEMMA TimerRound ==
    ASSUME TypeOK, RoundInv, Timer
    PROVE  RoundInv'
  <1>1. pc = "select" /\ wake <= now /\ Begin("count") /\ UNCHANGED <<now, last, next, drawn, handed>>
    BY DEF Timer, TypeOK
  <1>2. PICK b \in Nat : Aligned(b) /\ Covers(b) /\ Begun(b)
    BY <1>1 DEF RoundInv, InRound
  <1>3. now \in Nat /\ wake \in Nat /\ now <= wake + Late /\ Opened(wake, b, 0)
    BY <1>1, <1>2 DEF TypeOK, RoundInv, Timed, Begun
  <1>4. Opened(now, b, Late)
    BY <1>1, <1>3, Bounds DEF Opened
  <1>5. Begun(b)'
    BY <1>1, <1>4 DEF Begun, Begin, Opened
  <1>6. next = last + Cycle /\ "count" \in Calls
    BY <1>1 DEF RoundInv, InRound, Calls
  <1> QED
    BY <1>1, <1>2, <1>5, <1>6, NextCall

LEMMA CountRound ==
    ASSUME TypeOK, RoundInv, Count
    PROVE  RoundInv'
  <1>1. pc = "count" /\ pc \in Calls /\ UNCHANGED <<now, last, handed>>
    BY DEF Count, Calls
  <1>2. CASE Fails /\ Again
    BY <1>1, <1>2, FailedCall
  <1>3. CASE Begin("rnd") /\ UNCHANGED <<next, drawn, failures>>
    <2>1. PICK b \in Nat : Aligned(b) /\ Covers(b) /\ Begun(b)
      BY <1>1, CallTimes
    <2>2. now \in Nat /\ wake \in Nat /\ wake <= now /\ now <= wake + Slow /\ Opened(wake, b, Late)
      BY <1>1, <2>1 DEF TypeOK, RoundInv, Timed, Begun
    <2>3. Opened(now, b, Late + Slow)
      BY <2>2, Bounds DEF Opened
    <2>4. Begun(b)'
      BY <1>3, <2>3 DEF Begun, Begin, Opened
    <2>5. "rnd" \in Calls /\ next = last + Cycle
      BY <1>1, CallTimes DEF Calls
    <2> QED
      BY <1>1, <1>3, <2>1, <2>4, <2>5, NextCall
  <1> QED
    BY <1>2, <1>3 DEF Count

LEMMA GetRNDRound ==
    ASSUME TypeOK, RoundInv, GetRND
    PROVE  RoundInv'
  <1>1. pc = "rnd" /\ pc \in Calls /\ UNCHANGED <<now, last, handed>>
    BY DEF GetRND, Calls
  <1>2. CASE Fails /\ Again
    BY <1>1, <1>2, FailedCall
  <1>3. CASE Begin("pow") /\ drawn' = now /\ UNCHANGED <<next, failures>>
    <2>1. PICK b \in Nat : Aligned(b) /\ Covers(b) /\ Begun(b)
      BY <1>1, CallTimes
    <2>2. now \in Nat /\ wake \in Nat /\ wake <= now /\ now <= wake + Slow /\ Opened(wake, b, Late + Slow)
      BY <1>1, <2>1 DEF TypeOK, RoundInv, Timed, Begun
    <2>3. Opened(now, b, Late + 2 * Slow)
      BY <2>2, Bounds DEF Opened
    <2>4. Begun(b)'
      BY <1>3, <2>2, <2>3 DEF Begun, Begin, Opened
    <2>5. "pow" \in Calls /\ next = last + Cycle
      BY <1>1, CallTimes DEF Calls
    <2> QED
      BY <1>1, <1>3, <2>1, <2>4, <2>5, NextCall
  <1> QED
    BY <1>2, <1>3 DEF GetRND

LEMMA GenerateProofRound ==
    ASSUME TypeOK, RoundInv, GenerateProof
    PROVE  RoundInv'
  <1>1. pc = "pow" /\ pc \in Calls /\ UNCHANGED <<now, last, handed>>
    BY DEF GenerateProof, Calls
  <1>2. CASE Fails /\ Again
    BY <1>1, <1>2, FailedCall
  <1>3. CASE Begin("submit") /\ UNCHANGED <<next, drawn, failures>>
    <2>1. PICK b \in Nat : Aligned(b) /\ Covers(b) /\ Begun(b)
      BY <1>1, CallTimes
    <2>2. /\ now \in Nat /\ wake \in Nat /\ drawn \in Nat /\ wake <= now /\ now <= wake + Slow
          /\ Opened(wake, b, Late + 2 * Slow) /\ Opened(drawn, b, Late + 2 * Slow) /\ drawn <= wake
      BY <1>1, <2>1 DEF TypeOK, RoundInv, Timed, Begun
    <2>3. Opened(now, b, Late + 3 * Slow) /\ drawn <= now
      BY <2>2, Bounds DEF Opened
    <2>4. Begun(b)'
      BY <1>3, <2>2, <2>3 DEF Begun, Begin, Opened
    <2>5. "submit" \in Calls /\ next = last + Cycle
      BY <1>1, CallTimes DEF Calls
    <2> QED
      BY <1>1, <1>3, <2>1, <2>4, <2>5, NextCall
  <1> QED
    BY <1>2, <1>3 DEF GenerateProof

-----------------------------------------------------------------------------

\* The proof of a round is the first of its cycle, or one more of the cycle the prover started in.
LEMMA SubmitRound ==
    ASSUME RoundFits, TypeOK, RoundInv, Submit
    PROVE  RoundInv'
  <1>1. /\ pc = "submit" /\ pc \in Calls /\ Again /\ now' = now /\ last' = next
        /\ handed' = Append(handed, drawn)
    BY DEF Submit, Calls
  <1>2. PICK b \in Nat : /\ Aligned(b) /\ Covers(b) /\ Begun(b)
                         /\ b + Prep <= now /\ now <= b + Prep + Prove + Late + 4 * Slow
    BY <1>1, CallTimes
  <1>3. /\ now \in Nat /\ drawn \in Nat /\ wake \in Nat
        /\ drawn <= wake /\ wake <= now /\ Opened(drawn, b, Late + 2 * Slow)
    BY <1>1, <1>2 DEF TypeOK, RoundInv, Timed, Begun
  <1>4. drawn <= now /\ b + Prep <= drawn /\ drawn < b + Cycle
    BY <1>3, Bounds DEF Opened, RoundFits
  <1>5. drawn % Cycle = drawn - b /\ drawn \div Cycle = b \div Cycle
    BY <1>2, <1>3, <1>4, InCycle, Bounds DEF Within
  <1>6. PICK n \in Nat : n = Len(handed)
    BY LenProperties DEF TypeOK
  <1>7. /\ DOMAIN handed = 1 .. n /\ DOMAIN handed' = 1 .. n + 1
        /\ handed'[n + 1] = drawn /\ \A i \in 1 .. n : handed'[i] = handed[i]
    BY <1>1, <1>3, <1>6, AppendProperties, LenProperties DEF TypeOK
  <1>8. Past'
    <2> SUFFICES ASSUME NEW i \in 1 .. n + 1 PROVE handed'[i] <= now /\ handed'[i] % Cycle >= Prep
      BY <1>1, <1>7 DEF Past, Cycle
    <2>1. CASE i = n + 1
      BY <1>2, <1>3, <1>4, <1>5, <1>7, <2>1, Bounds
    <2>2. CASE i \in 1 .. n
      BY <1>7, <2>2 DEF RoundInv, Past
    <2> QED
      BY <1>6, <2>1, <2>2
  <1>9. OnePerCycle'
    <2> SUFFICES ASSUME NEW i \in 1 .. n + 1, NEW j \in 1 .. n + 1, i < j,
                        handed'[i] \div Cycle = handed'[j] \div Cycle
                 PROVE  handed'[j] \div Cycle = handed'[1] \div Cycle
      BY <1>7 DEF OnePerCycle, Cycle
    <2>1. i \in 1 .. n /\ 1 \in 1 .. n /\ handed'[i] = handed[i] /\ handed'[1] = handed[1]
      BY <1>6, <1>7
    <2>2. CASE j \in 1 .. n
      <3>1. handed'[j] = handed[j]
        BY <1>7, <2>2
      <3> QED
        BY <1>7, <2>1, <2>2, <3>1 DEF RoundInv, OnePerCycle
    <2>3. CASE j = n + 1
      <3>1. handed'[j] \div Cycle = b \div Cycle
        BY <1>5, <1>7, <2>3
      <3>2. handed[i] \in Nat /\ handed[1] \in Nat
        BY <1>7, <2>1, HandedTimes
      <3>3. ~ handed[i] < b
        BY <1>2, <2>1, <3>1, <3>2, EarlierCycle
      <3>4. Within(handed[1], b)
        BY <1>2, <1>7, <2>1, <3>3 DEF Covers
      <3>5. handed[1] \div Cycle = b \div Cycle
        BY <1>2, <3>2, <3>4, InCycle
      <3> QED
        BY <2>1, <3>1, <3>5
    <2> QED
      BY <1>6, <2>2, <2>3
  <1>10. Covers(b)' \/ last' = b + Cycle
    <2>1. CASE last = b
      BY <1>1, <2>1, CallTimes
    <2>2. CASE \A i \in DOMAIN handed : Within(handed[i], b)
      <3>1. \A i \in 1 .. n + 1 : Within(handed'[i], b)
        <4> SUFFICES ASSUME NEW i \in 1 .. n + 1 PROVE Within(handed'[i], b)
          OBVIOUS
        <4>1. CASE i = n + 1
          BY <1>2, <1>3, <1>4, <1>7, <4>1, Bounds DEF Within
        <4>2. CASE i \in 1 .. n
          BY <1>7, <2>2, <4>2
        <4> QED
          BY <1>6, <4>1, <4>2
      <3> QED
        BY <1>7, <3>1 DEF Covers, Within, Cycle
    <2> QED
      BY <1>2, <2>1, <2>2 DEF Covers
  <1>11. Rested'
    <2>1. b <= now' /\ wake' <= b + Prep + Prove + Late + 4 * Slow + 1
      BY <1>1, <1>2, <1>3, Bounds DEF Again
    <2>2. Aligned(b)'
      BY <1>2 DEF Aligned, Cycle
    <2> QED
      BY <1>10, <2>1, <2>2 DEF Rested, Cycle
  <1>12. Timed' /\ InRound'
    BY <1>1, <1>3, Bounds DEF Again, Timed, InRound, Calls
  <1> QED
    BY <1>8, <1>9, <1>11, <1>12 DEF RoundInv

-----------------------------------------------------------------------------

LEMMA TickRound ==
    ASSUME TypeOK, RoundInv, Tick
    PROVE  RoundInv'
  <1>1. /\ now \in Nat /\ now' = now + 1 /\ wake \in Nat
        /\ last' = last /\ next' = next /\ pc' = pc /\ wake' = wake /\ drawn' = drawn /\ handed' = handed
    BY DEF Tick, loopVars, TypeOK
  <1>2. Timed'
    <2>1. CASE pc \in {"sleep", "select"}
      BY <1>1, <2>1, Bounds DEF Timed, Tick, Calls
    <2>2. CASE pc \in Calls
      BY <1>1, <2>2, Bounds DEF RoundInv, Timed, Tick, Calls
    <2>3. CASE pc = "stopped"
      BY <1>1, <2>3 DEF Timed, Calls
    <2> QED
      BY <2>1, <2>2, <2>3 DEF TypeOK, Labels
  <1>3. Past'
    <2> SUFFICES ASSUME NEW i \in DOMAIN handed PROVE handed[i] <= now + 1 /\ handed[i] % Cycle >= Prep
      BY <1>1 DEF Past, Cycle
    <2>1. handed[i] \in Nat /\ handed[i] <= now /\ handed[i] % Cycle >= Prep
      BY HandedTimes DEF RoundInv, Past
    <2> QED
      BY <1>1, <2>1
  <1>4. OnePerCycle' /\ InRound'
    BY <1>1 DEF RoundInv, OnePerCycle, InRound, Covers, Begun, Opened, Within, Aligned, Cycle
  <1>5. Rested'
    <2> SUFFICES ASSUME pc = "sleep", handed # <<>> PROVE Rested'
      BY <1>1 DEF Rested
    <2>1. PICK b \in Nat : /\ Aligned(b) /\ b <= now
                           /\ wake <= b + Prep + Prove + Late + 4 * Slow + 1
                           /\ (Covers(b) \/ last = b + Cycle)
      BY DEF RoundInv, Rested
    <2>2. b <= now + 1
      BY <1>1, <2>1
    <2>3. Aligned(b)' /\ (Covers(b)' \/ last' = b + Cycle)
      BY <1>1, <2>1 DEF Aligned, Covers, Within, Cycle
    <2> QED
      BY <1>1, <2>1, <2>2, <2>3 DEF Rested, Cycle
  <1> QED
    BY <1>2, <1>3, <1>4, <1>5 DEF RoundInv

LEMMA RoundKept ==
    ASSUME RoundInv, pc' = pc \/ pc' = "stopped",
           UNCHANGED <<now, last, next, wake, drawn, handed>>
    PROVE  RoundInv'
  <1>1. CASE pc' = pc
    BY <1>1 DEF RoundInv, Past, Timed, InRound, Rested, OnePerCycle, Covers, Begun, Opened,
                Within, Aligned, Cycle
  <1>2. CASE pc' = "stopped"
    BY <1>2 DEF RoundInv, Past, Timed, InRound, Rested, OnePerCycle, Calls, Cycle
  <1> QED
    BY <1>1, <1>2

LEMMA RoundStep == RoundFits /\ TypeOK /\ TypeOK' /\ RoundInv /\ [Next]_vars => RoundInv'
  <1> SUFFICES ASSUME RoundFits, TypeOK, TypeOK', RoundInv, [Next]_vars PROVE RoundInv'
    OBVIOUS
  <1>1. CASE Calculate
    BY <1>1, CalculateRound
  <1>2. CASE Timer
    BY <1>2, TimerRound
  <1>3. CASE Count
    BY <1>3, CountRound
  <1>4. CASE GetRND
    BY <1>4, GetRNDRound
  <1>5. CASE GenerateProof
    BY <1>5, GenerateProofRound
  <1>6. CASE Submit
    BY <1>6, SubmitRound
  <1>7. CASE Tick
    BY <1>7, TickRound
  <1>8. CASE Done
    BY <1>8, RoundKept DEF Done
  <1>9. CASE Stop \/ Stopped
    BY <1>9, RoundKept DEF Stop, Stopped, loopVars
  <1>10. CASE UNCHANGED vars
    BY <1>10, RoundKept DEF vars
  <1> QED
    BY <1>1, <1>2, <1>3, <1>4, <1>5, <1>6, <1>7, <1>8, <1>9, <1>10 DEF Next, Loop

\* No two proofs are handed in for one cycle, however often the calls fail, when rounds are short
\* enough; only the cycle the prover was started in is left out (the assignment last = nextTime).
THEOREM AtMostOneProof ==
    ASSUME RoundFits
    PROVE  Spec => []OnePerCycle
  <1>1. RoundInv => OnePerCycle
    BY DEF RoundInv
  <1>2. TypeOK /\ TypeOK' /\ RoundInv /\ [Next]_vars => RoundInv'
    BY RoundStep
  <1> QED
    BY <1>1, <1>2, ProverTypes, RoundStart, PTL DEF Spec

-----------------------------------------------------------------------------
(* No cycle without a proof: a failed call leaves time to try again. *)

\* What the code relies on when it lets a failed round be tried again: a goroutine is late by
\* less than the time to prepare, and a round is over before the cycle of its window is.
Prompt == Late < Prep /\ Late + 4 * Slow < Wait

\* The time that failed calls have cost so far, at most.
Spent == failures * RetryTime

\* Every cycle that began before b, and with the prover at work, has a proof handed in.
Served(b) ==
    \A c \in Nat : c * Cycle < b /\ (\A s \in Start : s < c * Cycle) =>
        \E i \in DOMAIN handed : handed[i] \div Cycle = c

\* x lies at most d seconds after what the failed calls have cost of the window of cycle b.
Spare(x, b, d) == x <= b + Prep + Spent + d

InTime(b) ==
    /\ pc = "select" => Spare(wake, b, 0)
    /\ pc = "count" => Spare(wake, b, Late)
    /\ pc = "rnd" => Spare(wake, b, Late + Slow)
    /\ pc = "pow" => Spare(wake, b, Late + 2 * Slow)

\* A round works for the cycle that starts at b: it is the first that may lack a proof, and
\* either it has one or the round will try in time.
Serves(b) ==
    /\ Aligned(b) /\ last <= b /\ Served(b) /\ Begun(b)
    /\ Served(b + Cycle) \/ (last = b /\ InTime(b))

\* A round is over, the next one looks at the clock before the window after b's opens, and in
\* b's if the cycle still lacks its proof.
Pauses(b) ==
    /\ Aligned(b) /\ b <= now /\ last <= b + Cycle /\ Served(b)
    /\ wake + Late < b + Cycle + Prep
    /\ Served(b + Cycle) \/ (last = b /\ b + Prep <= now /\ Spare(wake + Late, b, 0))

CycleInv ==
    Spent <= Prove =>
        /\ pc = "sleep" => \E b \in Nat : Pauses(b)
        /\ pc \in Calls \cup {"select"} => \E b \in Nat : Serves(b)

\* The loop has ended only because done was closed, and it is closed once.
StopInv == (done # 0 => stopper # "no") /\ (pc = "stopped" => done # 0)

LEMMA SpentTimes ==
    ASSUME TypeOK
    PROVE  /\ failures \in Nat /\ RetryTime \in Nat /\ RetryTime = 1 + 2 * Late + 3 * Slow
           /\ Spent \in Nat
           /\ failures' = failures + 1 => Spent' = Spent + RetryTime
  <1>1. failures \in Nat
    BY ProverAssumption DEF TypeOK
  <1>2. RetryTime \in Nat /\ RetryTime = 1 + 2 * Late + 3 * Slow /\ RetryTime' = RetryTime
    BY Bounds DEF RetryTime
  <1>3. PICK t \in Nat : t = RetryTime
    BY <1>2
  <1>4. \A f \in Nat : f * t \in Nat /\ (f + 1) * t = f * t + t
    BY <1>3
  <1> QED
    BY <1>1, <1>2, <1>3, <1>4 DEF Spent

LEMMA ServedEarlier ==
    ASSUME NEW a \in Nat, NEW b \in Nat, a <= b, Served(b)
    PROVE  Served(a)
  <1>1. \A c \in Nat : c * Cycle \in Nat
    BY CycleFacts
  <1> QED
    BY <1>1 DEF Served

LEMMA ServedStays ==
    ASSUME UNCHANGED handed, NEW b
    PROVE  Served(b)' <=> Served(b)
  BY DEF Served, Cycle

\* A proof with a random value of cycle b is the one that was wanting.
LEMMA ServedMore ==
    ASSUME TypeOK, NEW b \in Nat, Aligned(b), Served(b), Within(drawn, b),
           handed' = Append(handed, drawn)
    PROVE  Served(b + Cycle)'
  <1>1. Cycle \in Nat \ {0} /\ drawn \in Nat
    BY CycleFacts DEF TypeOK
  <1>2. drawn \div Cycle = b \div Cycle /\ b \div Cycle \in Nat /\ b = Cycle * (b \div Cycle)
    BY <1>1, InCycle, AlignedTimes
  <1>3. PICK n \in Nat : n = Len(handed)
    BY LenProperties DEF TypeOK
  <1>4. /\ DOMAIN handed = 1 .. n /\ DOMAIN handed' = 1 .. n + 1
        /\ handed'[n + 1] = drawn /\ \A i \in 1 .. n : handed'[i] = handed[i]
    BY <1>1, <1>3, AppendProperties, LenProperties DEF TypeOK
  <1>5. ASSUME NEW c \in Nat, c * Cycle < b + Cycle, \A s \in Start : s < c * Cycle
        PROVE  \E i \in DOMAIN handed' : handed'[i] \div Cycle = c
    <2>1. CASE c * Cycle < b
      <3>1. PICK i \in DOMAIN handed : handed[i] \div Cycle = c
        BY <1>5, <2>1 DEF Served
      <3> QED
        BY <1>4, <3>1
    <2>2. CASE c = b \div Cycle
      BY <1>2, <1>4, <2>2
    <2>3. c * Cycle < b \/ c = b \div Cycle
      <3> DEFINE q == b \div Cycle
      <3>1. q \in Nat /\ b = Cycle * q
        BY <1>2
      <3> HIDE DEF q
      <3>2. c * Cycle = Cycle * c /\ Cycle * c \in Nat /\ Cycle * q \in Nat
        BY <1>1, <3>1
      <3>3. ~ q < c
        <4> SUFFICES ASSUME q < c PROVE FALSE
          OBVIOUS
        <4>1. Cycle * q + Cycle <= Cycle * c
          BY <1>1, <3>1, Multiples
        <4> QED
          BY <1>1, <1>5, <3>1, <3>2, <4>1
      <3>4. CASE c < q
        <4>1. Cycle * c + Cycle <= Cycle * q
          BY <1>1, <3>1, <3>4, Multiples
        <4> QED
          BY <1>1, <3>1, <3>2, <4>1
      <3>5. CASE c = q
        BY <3>5 DEF q
      <3> QED
        BY <3>1, <3>3, <3>4, <3>5
    <2> QED
      BY <2>1, <2>2, <2>3
  <1> QED
    BY <1>5 DEF Served, Cycle

\* A cycle the prover was started in or that begins later is not asked for yet.
LEMMA ServedAtFirst ==
    ASSUME Init
    PROVE  Served(Base(now) + Cycle)
  <1>1. now \in Start /\ now \in Nat
    BY ProverAssumption DEF Init
  <1>2. PICK b \in Nat : b = Base(now) /\ Aligned(b) /\ b <= now
    BY <1>1, BaseIsAligned DEF Aligned, Within
  <1>3. ASSUME NEW c \in Nat, c * Cycle < b + Cycle
        PROVE  c * Cycle <= b
    <2>1. Cycle \in Nat \ {0} /\ b \div Cycle \in Nat /\ b = Cycle * (b \div Cycle)
      BY <1>2, CycleFacts, AlignedTimes
    <2>2. PICK q \in Nat : b = Cycle * q
      BY <2>1
    <2>3. c * Cycle = Cycle * c /\ Cycle * c \in Nat /\ Cycle * q \in Nat
      BY <2>1
    <2>4. ~ q < c
      <3> SUFFICES ASSUME q < c PROVE FALSE
        OBVIOUS
      <3>1. Cycle * q + Cycle <= Cycle * c
        BY <2>1, Multiples
      <3> QED
        BY <1>3, <2>1, <2>2, <2>3, <3>1
    <2>5. CASE c < q
      <3>1. Cycle * c + Cycle <= Cycle * q
        BY <2>1, <2>5, Multiples
      <3> QED
        BY <2>1, <2>2, <2>3, <3>1
    <2>6. CASE c = q
      BY <2>2, <2>3, <2>6
    <2> QED
      BY <2>4, <2>5, <2>6
  <1>4. ASSUME NEW c \in Nat, c * Cycle < b + Cycle
        PROVE  ~ \A s \in Start : s < c * Cycle
    <2>1. c * Cycle <= b /\ c * Cycle \in Nat
      BY <1>3, <1>4, CycleFacts
    <2>2. ~ now < c * Cycle
      BY <1>1, <1>2, <2>1
    <2> QED
      BY <1>1, <2>2
  <1> QED
    BY <1>2, <1>4 DEF Served

LEMMA CycleStart ==
    ASSUME Prompt, Init
    PROVE  CycleInv /\ StopInv
  <1>1. now \in Nat /\ wake = now + 1 /\ last = 0 /\ pc = "sleep"
    BY ProverAssumption DEF Init
  <1>2. PICK b \in Nat : b = Base(now) /\ Aligned(b) /\ b <= now /\ now < b + Cycle
    BY <1>1, BaseIsAligned DEF Aligned, Within
  <1>3. Served(b + Cycle)
    BY <1>2, ServedAtFirst
  <1>4. Served(b)
    BY <1>2, <1>3, ServedEarlier, Bounds
  <1>5. wake + Late < b + Cycle + Prep /\ last <= b + Cycle
    BY <1>1, <1>2, Bounds DEF Prompt
  <1>6. Pauses(b)
    BY <1>2, <1>3, <1>4, <1>5 DEF Pauses
  <1> QED
    BY <1>1, <1>6 DEF CycleInv, StopInv, Init, Calls

-----------------------------------------------------------------------------

\* A pause is over before the window after the next opens, and inside the window it is needed in.
LEMMA PauseTimes ==
    ASSUME Prompt, TypeOK, RoundInv, Spent <= Prove, pc = "sleep", NEW b \in Nat, Pauses(b)
    PROVE  /\ now < b + Cycle + Prep
           /\ Served(b + Cycle) \/ (/\ last = b /\ b + Prep <= now /\ now <= b + Prep + Spent
                                    /\ now <= b + Prep + Prove /\ now < b + Cycle)
  <1>1. now \in Nat /\ wake \in Nat /\ now <= wake + Late /\ Spent \in Nat
    BY SpentTimes DEF TypeOK, RoundInv, Timed
  <1>2. now < b + Cycle + Prep
    BY <1>1, Bounds DEF Pauses
  <1>3. CASE Served(b + Cycle)
    BY <1>2, <1>3
  <1>4. CASE last = b /\ b + Prep <= now /\ Spare(wake + Late, b, 0)
    <2>1. now <= b + Prep + Spent /\ now <= b + Prep + Prove
      BY <1>1, <1>4, Bounds DEF Spare
    <2>2. now < b + Cycle
      BY <1>1, <2>1, Bounds DEF Prompt
    <2> QED
      BY <1>2, <1>4, <2>1, <2>2
  <1> QED
    BY <1>3, <1>4 DEF Pauses

\* The round that begins works for the first cycle that may lack a proof, or for a later one
\* if none does.
LEMMA CalculateServes ==
    ASSUME Prompt, TypeOK, RoundInv, Spent <= Prove, NEW b \in Nat, Pauses(b), Calculate
    PROVE  \E d \in Nat : Serves(d)'
  <1>1. now \in Nat /\ Aligned(last) /\ last \in Nat /\ Aligned(b) /\ b <= now /\ last <= b + Cycle
    BY DEF TypeOK, Aligned, Pauses
  <1>2. PICK B \in Nat : B = Base(now) /\ Aligned(B) /\ B <= now /\ now < B + Cycle
    BY <1>1, BaseIsAligned DEF Aligned, Within
  <1>3. PICK l \in Nat : l = LastAt(now) /\ Aligned(l)
    BY <1>1, Calculated DEF Aligned
  <1>4. PICK w \in Nat : w = now + Waiting(now) /\ now <= w
    BY <1>1, Calculated
  <1>5. /\ wake' = w /\ last' = l /\ pc' = "select"
        /\ now' = now /\ handed' = handed /\ failures' = failures
    BY <1>3, <1>4 DEF Calculate
  <1>6. Spent \in Nat /\ Spent' = Spent
    BY <1>5, SpentTimes DEF Spent, RetryTime
  <1>7. /\ now < b + Cycle + Prep
        /\ Served(b + Cycle) \/ (/\ last = b /\ b + Prep <= now /\ now <= b + Prep + Spent
                                 /\ now <= b + Prep + Prove /\ now < b + Cycle)
    BY PauseTimes DEF Calculate
  <1>8. B = b \/ B = b + Cycle
    <2>1. ~ B < b
      <3> SUFFICES ASSUME B < b PROVE FALSE
        OBVIOUS
      <3>1. B + Cycle <= b
        BY <1>1, <1>2, Apart
      <3> QED
        BY <1>1, <1>2, <3>1, Bounds
    <2>2. ~ b + Cycle < B
      <3> SUFFICES ASSUME b + Cycle < B PROVE FALSE
        OBVIOUS
      <3>1. b + Cycle + Cycle <= B
        BY <1>1, <1>2, NextAligned, Apart
      <3> QED
        BY <1>1, <1>2, <1>7, <3>1, Bounds, CycleFacts
    <2>3. CASE b < B
      <3>1. b + Cycle <= B
        BY <1>1, <1>2, <2>3, Apart
      <3> QED
        BY <1>2, <2>2, <3>1, Bounds
    <2> QED
      BY <1>2, <2>1, <2>3
  <1>9. ASSUME NEW d \in Nat, Aligned(d), l <= d, Served(d), Opened(w, d, 0),
               Served(d + Cycle) \/ (l = d /\ w <= d + Prep + Spent)
        PROVE  Serves(d)'
    <2>1. Served(d)' /\ (Served(d + Cycle) => Served(d + Cycle)')
      BY <1>5, <1>9, ServedStays
    <2>2. Begun(d)' /\ Aligned(d)'
      BY <1>5, <1>9 DEF Begun, Opened, Aligned, Cycle
    <2>3. l = d /\ w <= d + Prep + Spent => InTime(d)'
      BY <1>5, <1>6, Bounds DEF InTime, Spare
    <2>4. Served(d + Cycle)' \/ (last' = d /\ InTime(d)')
      BY <1>5, <1>9, <2>1, <2>3
    <2> QED
      BY <1>5, <1>9, <2>1, <2>2, <2>4 DEF Serves, Cycle
  <1>10. CASE l = last /\ w = now /\ last <= now /\ B + Prep <= now /\ now <= B + Prep + Prove
    <2>1. B = b
      BY <1>1, <1>7, <1>8, <1>10, Bounds
    <2>2. l <= b
      <3> SUFFICES ASSUME b < last PROVE FALSE
        BY <1>1, <1>10
      <3>1. b + Cycle <= last
        BY <1>1, Apart
      <3> QED
        BY <1>1, <1>2, <1>10, <2>1, <3>1, Bounds
    <2>3. Opened(w, b, 0) /\ Served(b)
      BY <1>1, <1>10, <2>1, Bounds DEF Opened, Pauses
    <2> QED
      BY <1>1, <1>7, <1>9, <1>10, <2>2, <2>3
  <1>11. CASE w = l + Prep /\ l = B /\ now < B + Prep
    <2>1. Served(B)
      BY <1>1, <1>2, <1>7, <1>8 DEF Pauses
    <2>2. Opened(w, B, 0) /\ w <= B + Prep + Spent
      BY <1>6, <1>11, Bounds DEF Opened
    <2> QED
      BY <1>2, <1>9, <1>11, <2>1, <2>2
  <1>12. CASE w = l + Prep /\ l = B + Cycle /\ (now < last \/ B + Prep + Prove < now)
    <2>1. B = b
      <3> SUFFICES ASSUME B = b + Cycle PROVE FALSE
        BY <1>8
      <3> QED
        BY <1>1, <1>2, <1>7, <1>12, Bounds
    <2>2. Served(b + Cycle)
      BY <1>1, <1>2, <1>7, <1>12, <2>1, Bounds
    <2>3. Opened(w, l, 0) /\ w <= l + Prep + Spent
      BY <1>6, <1>12, Bounds DEF Opened
    <2> QED
      BY <1>3, <1>9, <1>12, <2>1, <2>2, <2>3
  <1>13. \/ l = last /\ w = now /\ last <= now /\ B + Prep <= now /\ now <= B + Prep + Prove
         \/ w = l + Prep /\ l = B /\ now < B + Prep
         \/ w = l + Prep /\ l = B + Cycle /\ (now < last \/ B + Prep + Prove < now)
    BY <1>1, <1>2, <1>3, <1>4, Calculated
  <1> QED
    BY <1>10, <1>11, <1>12, <1>13

\* When a round works for b, the present second is soon after b's window and in b's cycle.
LEMMA ServiceTimes ==
    ASSUME Prompt, TypeOK, RoundInv, pc \in Calls \cup {"select"}, NEW b \in Nat, Serves(b)
    PROVE  /\ now < b + Cycle
           /\ pc \in Calls => b + Prep <= now /\ now <= b + Prep + Prove + Late + 4 * Slow
  <1>1. now \in Nat /\ wake \in Nat
    BY DEF TypeOK
  <1>2. CASE pc = "select"
    <2>1. now <= wake + Late /\ wake <= b + Prep + Prove
      BY <1>1, <1>2, Bounds DEF RoundInv, Timed, Serves, Begun, Opened
    <2> QED
      BY <1>1, <1>2, <2>1, Bounds DEF Prompt, Calls
  <1>3. CASE pc \in Calls
    <2>1. wake <= now /\ now <= wake + Slow
      BY <1>3 DEF RoundInv, Timed
    <2>2. b + Prep <= wake /\ wake <= b + Prep + Prove + Late + 3 * Slow
      BY <1>1, <1>3, Bounds DEF Serves, Begun, Opened, Calls
    <2>3. b + Prep <= now /\ now <= b + Prep + Prove + Late + 4 * Slow
      BY <1>1, <2>1, <2>2, Bounds
    <2> QED
      BY <1>1, <2>3, Bounds DEF Prompt
  <1> QED
    BY <1>2, <1>3

\* A call that fails costs at most RetryTime.
LEMMA FailedServes ==
    ASSUME Prompt, TypeOK, RoundInv, pc \in {"count", "rnd", "pow"}, Fails, Again,
           UNCHANGED <<now, last, handed>>, NEW b \in Nat, Serves(b)
    PROVE  Pauses(b)'
  <1>1. now \in Nat /\ wake \in Nat /\ last \in Nat /\ wake <= now /\ now <= wake + Slow /\ pc \in Calls
    BY DEF TypeOK, RoundInv, Timed, Calls
  <1>2. /\ now' = now /\ last' = last /\ handed' = handed /\ pc' = "sleep" /\ wake' = now + 1
        /\ failures' = failures + 1
    BY DEF Again, Fails
  <1>3. /\ Spent \in Nat /\ Spent' = Spent + RetryTime
        /\ RetryTime \in Nat /\ RetryTime = 1 + 2 * Late + 3 * Slow
    BY <1>2, SpentTimes
  <1>4. b + Prep <= now /\ now <= b + Prep + Prove + Late + 4 * Slow
    BY <1>1, ServiceTimes
  <1>5. last <= b + Cycle /\ wake' + Late < b + Cycle + Prep /\ b <= now
    BY <1>1, <1>2, <1>4, Bounds DEF Serves, Prompt
  <1>6. InTime(b) => wake' + Late <= b + Prep + Spent'
    BY <1>1, <1>2, <1>3, Bounds DEF InTime, Spare
  <1>7. Served(b)' /\ (Served(b + Cycle) => Served(b + Cycle)') /\ Aligned(b)'
    BY <1>2, ServedStays DEF Serves, Aligned, Cycle
  <1>8. Served(b + Cycle)' \/ (last' = b /\ b + Prep <= now' /\ Spare(wake + Late, b, 0)')
    BY <1>1, <1>2, <1>3, <1>4, <1>6, <1>7, Bounds DEF Serves, Spare
  <1> QED
    BY <1>2, <1>5, <1>7, <1>8 DEF Pauses, Cycle

\* The next call begins as soon as the one before has returned.
LEMMA NextServes ==
    ASSUME UNCHANGED <<last, handed, failures>>, TypeOK, NEW b \in Nat, Serves(b),
           Begun(b)', InTime(b) => InTime(b)'
    PROVE  Serves(b)'
  <1>1. Served(b)' /\ (Served(b + Cycle) => Served(b + Cycle)') /\ Aligned(b)'
    BY ServedStays DEF Serves, Aligned, Cycle
  <1> QED
    BY <1>1 DEF Serves, Cycle

LEMMA SubmitServes ==
    ASSUME Prompt, TypeOK, RoundInv, Submit, NEW b \in Nat, Serves(b)
    PROVE  Pauses(b)'
  <1>1. /\ now \in Nat /\ drawn \in Nat /\ last \in Nat /\ wake \in Nat
        /\ pc = "submit" /\ pc \in Calls
        /\ now' = now /\ last' = last + Cycle /\ handed' = Append(handed, drawn) /\ wake' = now + 1
    BY DEF TypeOK, Submit, Again, RoundInv, InRound, Calls
  <1>2. b + Prep <= now /\ now <= b + Prep + Prove + Late + 4 * Slow
    BY <1>1, ServiceTimes
  <1>3. Within(drawn, b)
    BY <1>1, Bounds DEF Serves, Begun, Opened, Within, Prompt
  <1>4. Served(b + Cycle)'
    BY <1>1, <1>3, ServedMore DEF Serves
  <1>5. Served(b)'
    <2>1. \A c \in Nat : c * Cycle \in Nat
      BY CycleFacts
    <2> QED
      BY <1>4, <2>1, Bounds DEF Served, Cycle
  <1>6. last' <= b + Cycle /\ wake' + Late < b + Cycle + Prep /\ b <= now
    BY <1>1, <1>2, Bounds DEF Serves, Prompt
  <1> QED
    BY <1>1, <1>4, <1>5, <1>6 DEF Pauses, Serves, Aligned, Cycle

-----------------------------------------------------------------------------

\* Steps that move neither the loop nor its calls.
LEMMA CycleKept ==
    ASSUME CycleInv, TypeOK, now' \in Nat, now <= now',
           UNCHANGED <<last, next, pc, wake, drawn, failures, handed>>
    PROVE  CycleInv'
  <1>1. Spent' = Spent
    BY DEF Spent, RetryTime
  <1>2. ASSUME NEW b \in Nat, Serves(b)
        PROVE  Serves(b)'
    BY <1>1, <1>2 DEF Serves, Served, Begun, Opened, InTime, Spare, Aligned, Cycle
  <1>3. ASSUME NEW b \in Nat, Pauses(b)
        PROVE  Pauses(b)'
    <2>1. b <= now' /\ (b + Prep <= now => b + Prep <= now')
      BY <1>3, Bounds DEF Pauses, TypeOK
    <2> QED
      BY <1>1, <1>3, <2>1 DEF Pauses, Served, Spare, Aligned, Cycle
  <1> QED
    BY <1>1, <1>2, <1>3 DEF CycleInv

LEMMA CalculateCycle ==
    ASSUME Prompt, TypeOK, RoundInv, CycleInv, Calculate
    PROVE  CycleInv'
  <1>1. Spent' = Spent /\ pc = "sleep" /\ pc' = "select"
    BY DEF Spent, RetryTime, Calculate
  <1> QED
    BY <1>1, CalculateServes DEF CycleInv

\* The calls, each with what becomes of its round.
LEMMA CallCycle ==
    ASSUME Prompt, TypeOK, RoundInv, CycleInv, Timer \/ Count \/ GetRND \/ GenerateProof
    PROVE  CycleInv'
  <1> SUFFICES ASSUME Spent' <= Prove
               PROVE  (\E b \in Nat : pc' \in Calls /\ Serves(b)') \/ (\E b \in Nat : pc' = "sleep" /\ Pauses(b)')
    BY DEF CycleInv, Calls
  <1>1. pc \in {"select", "count", "rnd", "pow"} /\ UNCHANGED <<now, last, handed>>
    BY DEF Timer, Count, GetRND, GenerateProof
  <1>2. failures' = failures \/ (Fails /\ Again /\ pc # "select" /\ failures' = failures + 1)
    BY DEF Timer, Count, GetRND, GenerateProof, Fails
  <1>3. Spent \in Nat /\ Spent <= Spent' /\ (failures' = failures => Spent' = Spent)
    <2>1. failures' = failures => Spent' = Spent
      BY DEF Spent, RetryTime
    <2> QED
      BY <1>2, <2>1, SpentTimes
  <1>4. PICK b \in Nat : Serves(b)
    <2>1. Spent <= Prove
      BY <1>2, <1>3, SpentTimes, Bounds
    <2> QED
      BY <1>1, <2>1 DEF CycleInv, Calls
  <1>5. CASE Fails /\ Again /\ pc # "select"
    BY <1>1, <1>4, <1>5, FailedServes DEF Again
  <1>6. now \in Nat /\ wake \in Nat /\ now' = now /\ Begun(b)
    BY <1>1, <1>4 DEF TypeOK, Serves
  <1>7. CASE Timer
    <2>1. /\ pc = "select" /\ wake <= now /\ now <= wake + Late /\ Begin("count")
          /\ failures' = failures
      BY <1>7 DEF Timer, RoundInv, Timed, TypeOK
    <2>2. Opened(now, b, Late) /\ (Spare(wake, b, 0) => Spare(now, b, Late))
      BY <1>3, <1>6, <2>1, Bounds DEF Begun, Opened, Spare
    <2>3. Begun(b)' /\ (InTime(b) => InTime(b)')
      BY <1>3, <1>6, <2>1, <2>2 DEF Begun, Begin, Opened, InTime, Spare
    <2> QED
      BY <1>1, <1>4, <2>1, <2>3, NextServes DEF Begin, Calls
  <1>8. CASE Count /\ Begin("rnd") /\ failures' = failures
    <2>1. pc = "count" /\ wake <= now /\ now <= wake + Slow
      BY <1>8 DEF Count, RoundInv, Timed, Calls
    <2>2. Opened(now, b, Late + Slow) /\ (Spare(wake, b, Late) => Spare(now, b, Late + Slow))
      BY <1>3, <1>6, <2>1, Bounds DEF Begun, Opened, Spare
    <2>3. Begun(b)' /\ (InTime(b) => InTime(b)')
      BY <1>3, <1>6, <1>8, <2>1, <2>2 DEF Begun, Begin, Opened, InTime, Spare
    <2> QED
      BY <1>1, <1>4, <1>8, <2>3, NextServes DEF Begin, Calls
  <1>9. CASE GetRND /\ Begin("pow") /\ drawn' = now /\ failures' = failures
    <2>1. pc = "rnd" /\ wake <= now /\ now <= wake + Slow
      BY <1>9 DEF GetRND, RoundInv, Timed, Calls
    <2>2. Opened(now, b, Late + 2 * Slow) /\ (Spare(wake, b, Late + Slow) => Spare(now, b, Late + 2 * Slow))
      BY <1>3, <1>6, <2>1, Bounds DEF Begun, Opened, Spare
    <2>3. Begun(b)' /\ (InTime(b) => InTime(b)')
      BY <1>3, <1>6, <1>9, <2>1, <2>2 DEF Begun, Begin, Opened, InTime, Spare
    <2> QED
      BY <1>1, <1>4, <1>9, <2>3, NextServes DEF Begin, Calls
  <1>10. CASE GenerateProof /\ Begin("submit") /\ drawn' = drawn /\ failures' = failures
    <2>1. pc = "pow" /\ wake <= now /\ now <= wake + Slow
      BY <1>10 DEF GenerateProof, RoundInv, Timed, Calls
    <2>2. Opened(now, b, Late + 3 * Slow) /\ drawn <= now /\ Opened(drawn, b, Late + 2 * Slow)
      BY <1>6, <2>1, Bounds DEF Begun, Opened, TypeOK
    <2>3. Begun(b)' /\ (InTime(b) => InTime(b)')
      BY <1>3, <1>6, <1>10, <2>1, <2>2 DEF Begun, Begin, Opened, InTime, Spare
    <2> QED
      BY <1>1, <1>4, <1>10, <2>3, NextServes DEF Begin, Calls
  <1> QED
    BY <1>5, <1>7, <1>8, <1>9, <1>10 DEF Count, GetRND, GenerateProof

LEMMA SubmitCycle ==
    ASSUME Prompt, TypeOK, RoundInv, CycleInv, Submit
    PROVE  CycleInv'
  <1>1. Spent' = Spent /\ pc = "submit" /\ pc' = "sleep"
    BY DEF Spent, RetryTime, Submit, Again
  <1> QED
    BY <1>1, SubmitServes DEF CycleInv, Calls

LEMMA CycleStep ==
    ASSUME Prompt, TypeOK, TypeOK', RoundInv, CycleInv, StopInv, [Next]_vars
    PROVE  CycleInv' /\ StopInv'
  <1>1. now \in Nat
    BY DEF TypeOK
  <1>2. CASE Calculate
    BY <1>2, CalculateCycle DEF Calculate, StopInv
  <1>3. CASE Timer \/ Count \/ GetRND \/ GenerateProof
    BY <1>3, CallCycle DEF Timer, Count, GetRND, GenerateProof, Begin, Again, StopInv
  <1>4. CASE Submit
    BY <1>4, SubmitCycle DEF Submit, Again, StopInv
  <1>5. CASE Done
    <2>1. UNCHANGED <<failures, done, stopper>> /\ done # 0 /\ pc' = "stopped"
      BY <1>5 DEF Done
    <2> QED
      BY <2>1 DEF CycleInv, StopInv, Calls
  <1>6. CASE Stop
    <2>1. UNCHANGED <<now, last, next, pc, wake, drawn, failures, handed>>
      BY <1>6 DEF Stop, loopVars
    <2> QED
      BY <1>1, <1>6, <2>1, CycleKept DEF Stop, StopInv
  <1>7. CASE Stopped \/ UNCHANGED vars
    <2>1. UNCHANGED <<now, last, next, pc, wake, drawn, failures, handed>>
      BY <1>7 DEF Stopped, loopVars, vars
    <2> QED
      BY <1>1, <1>7, <2>1, CycleKept DEF Stopped, loopVars, vars, StopInv
  <1>8. CASE Tick
    <2>1. /\ now' = now + 1 /\ UNCHANGED <<done, stopper>>
          /\ UNCHANGED <<last, next, pc, wake, drawn, failures, handed>>
      BY <1>8 DEF Tick, loopVars
    <2> QED
      BY <1>1, <2>1, CycleKept DEF StopInv
  <1> QED
    BY <1>2, <1>3, <1>4, <1>5, <1>6, <1>7, <1>8 DEF Next, Loop

\* Wherever the loop is, the cycles before the present one are served.
LEMMA ServedByNow ==
    ASSUME Prompt, TypeOK, RoundInv, CycleInv, StopInv, done = 0, Spent <= Prove
    PROVE  Served(Base(now))
  <1>1. now \in Nat
    BY DEF TypeOK
  <1>2. PICK B \in Nat : B = Base(now) /\ Aligned(B) /\ B <= now /\ now < B + Cycle
    BY <1>1, BaseIsAligned DEF Aligned, Within
  <1>3. ASSUME NEW b \in Nat, Aligned(b), now < b + Cycle
        PROVE  B <= b
    <2> SUFFICES ASSUME b < B PROVE FALSE
      BY <1>2
    <2>1. b + Cycle <= B
      BY <1>2, <1>3, Apart
    <2> QED
      BY <1>1, <1>2, <1>3, <2>1, Bounds
  <1>4. CASE pc = "sleep"
    <2>1. PICK b \in Nat : Pauses(b)
      BY <1>4 DEF CycleInv
    <2>2. /\ now < b + Cycle + Prep
          /\ Served(b + Cycle) \/ now < b + Cycle
      BY <1>4, <2>1, PauseTimes
    <2>3. CASE now < b + Cycle
      BY <1>2, <1>3, <2>1, <2>3, ServedEarlier DEF Pauses
    <2>4. CASE Served(b + Cycle)
      <3>1. now < b + Cycle + Cycle /\ b + Cycle \in Nat
        BY <1>1, <2>2, Bounds, CycleFacts
      <3>2. B <= b + Cycle
        BY <1>3, <2>1, <3>1, NextAligned DEF Pauses
      <3> QED
        BY <1>2, <2>4, <3>1, <3>2, ServedEarlier
    <2> QED
      BY <2>2, <2>3, <2>4
  <1>5. CASE pc \in Calls \cup {"select"}
    <2>1. PICK b \in Nat : Serves(b)
      BY <1>5 DEF CycleInv
    <2>2. now < b + Cycle
      BY <1>5, <2>1, ServiceTimes
    <2> QED
      BY <1>2, <1>3, <2>1, <2>2, ServedEarlier DEF Serves
  <1> QED
    BY <1>4, <1>5 DEF StopInv, TypeOK, Labels

LEMMA PromptFits == Prompt => RoundFits
  BY Bounds DEF Prompt, RoundFits

\* Every cycle that begins with the prover at work has a proof handed in by its end, as long as
\* the failed calls have not cost more than a window, for goroutines and calls that are prompt:
\* no second at which a round begins, and no remainder of a negative number, loses a cycle
\* (CalculateWatingTime, the continues of Start).
THEOREM EveryCycleProved ==
    ASSUME Prompt
    PROVE  Spec => []NoCycleMissed
  <1>1. TypeOK /\ RoundInv /\ CycleInv /\ StopInv => NoCycleMissed
    <2> SUFFICES ASSUME TypeOK, RoundInv, CycleInv, StopInv, done = 0, failures * RetryTime <= Prove,
                        NEW c \in 0 .. (now \div Cycle) - 1, \A s \in Start : s < c * Cycle
                 PROVE  \E i \in DOMAIN handed : handed[i] \div Cycle = c
      BY DEF NoCycleMissed
    <2>1. Served(Base(now))
      BY ServedByNow DEF Spent
    <2>2. now \in Nat /\ Cycle \in Nat \ {0}
      BY CycleFacts DEF TypeOK
    <2>3. PICK q \in Nat : q = now \div Cycle /\ Base(now) = Cycle * q
      <3>1. now \div Cycle \in Nat /\ now = Cycle * (now \div Cycle) + (now % Cycle) /\ now % Cycle \in Nat
        BY <2>2, Division
      <3>2. Cycle * (now \div Cycle) \in Nat
        BY <2>2, <3>1
      <3> QED
        BY <2>2, <3>1, <3>2 DEF Base
    <2>4. c \in Nat /\ c < q
      BY <2>3
    <2>5. Cycle * c + Cycle <= Cycle * q
      BY <2>2, <2>4, Multiples
    <2>6. c * Cycle = Cycle * c /\ Cycle * c \in Nat /\ Cycle * q \in Nat
      BY <2>2, <2>3, <2>4
    <2>7. c * Cycle < Base(now)
      BY <2>2, <2>3, <2>5, <2>6
    <2> QED
      BY <2>1, <2>4, <2>7 DEF Served
  <1>2. TypeOK /\ TypeOK' /\ RoundInv /\ [Next]_vars => RoundInv'
    BY PromptFits, RoundStep
  <1>3. TypeOK /\ TypeOK' /\ RoundInv /\ CycleInv /\ StopInv /\ [Next]_vars => CycleInv' /\ StopInv'
    BY CycleStep
  <1>4. Init => CycleInv /\ StopInv
    BY CycleStart
  <1> QED
    BY <1>1, <1>2, <1>3, <1>4, ProverTypes, RoundStart, PTL DEF Spec
=============================================================================
