------------------------------- MODULE Prover -------------------------------
(***************************************************************************)
(* The prover of a computing node (prover/prover.go): a loop that sleeps a  *)
(* second, computes how long to wait for the prove window of the challenge  *)
(* cycle, waits, asks the validator for the orders of the provider and for  *)
(* a random value, works out a proof and submits it; and Stop, called from  *)
(* another goroutine.                                                       *)
(*                                                                          *)
(* A cycle is Prep seconds to prepare, Prove seconds to prove and Wait      *)
(* seconds more.  Time is in whole seconds since some start of a cycle.     *)
(* A goroutine runs at most Late seconds after it became ready and a call   *)
(* takes at most Slow seconds.  The validator (prover/client/client.go) is  *)
(* external: a call succeeds or fails.                                      *)
(***************************************************************************)
EXTENDS Integers, Sequences

CONSTANTS
    Prep, Prove, Wait,  \* 10, 10 and 100 in the code
    Start,              \* seconds of the clock at which Start may be called
    Late, Slow,
    Failures,           \* bound: calls to the validator that fail
    Horizon,            \* bound: the last second that is looked at
    StopBy              \* bound: the last second at which Stop may be called

VARIABLES
    now,        \* time.Now().Unix()
    last,       \* GRIDProver.last
    next,       \* nextTime of the round
    pc,         \* where the loop of Start is
    wake,       \* when its timer fires; during a call, when the call began
    drawn,      \* when the random value of the round was read
    done,       \* when channel done was closed, 0 while it is open
    doned,      \* GRIDProver.doned
    stopper,    \* the caller of Stop: "no", "waits" or "returned"
    failures,   \* failed calls so far
    handed      \* history: drawn of each proof handed to the validator

loopVars == <<last, next, pc, wake, drawn, doned>>
vars == <<now, last, next, pc, wake, drawn, done, doned, stopper, failures, handed>>

Cycle == Prep + Prove + Wait

\* The code's first last, 0, lies longer ago than the loop can catch up in one window.
ASSUME ProverAssumption ==
    /\ Prep \in Nat \ {0} /\ Prove \in Nat /\ Wait \in Nat /\ Prove + Wait > 0
    /\ Start \subseteq Nat
    /\ \A s \in Start : s >= (Prove + 2) * Cycle
    /\ Late \in Nat /\ Slow \in Nat /\ Failures \in Nat
    /\ Horizon \in Nat /\ StopBy \in Nat

Calls == {"count", "rnd", "pow", "submit"}
Labels == Calls \cup {"sleep", "select", "stopped"}

Init ==
    /\ now \in Start
    /\ last = 0 /\ next = 0
    /\ pc = "sleep" /\ wake = now + 1
    /\ drawn = 0
    /\ done = 0 /\ doned = FALSE
    /\ stopper = "no"
    /\ failures = 0
    /\ handed = <<>>

-----------------------------------------------------------------------------
(* CalculateWatingTime. *)

\* Go's remainder has the sign of the dividend.
Rem(a, b) == IF a >= 0 THEN a % b ELSE -((-a) % b)

\* Mutant: the remainder is taken to be positive.
OverFloor(t) == (t - last) % Cycle

Over(t) == Rem(t - last, Cycle)

\* Mutant: a round that comes too late waits for the next cycle, not its window.
WaitingForCycle(t) ==
    IF Over(t) < Prep THEN Prep - Over(t)
    ELSE IF Over(t) > Prep + Prove THEN Cycle - Over(t)
    ELSE 0

\* How long to wait at time t.
Waiting(t) ==
    IF Over(t) < Prep THEN Prep - Over(t)
    ELSE IF Over(t) > Prep + Prove THEN Cycle + Prep - Over(t)
    ELSE 0

\* Mutant: last is set to the present.
LastNow(t) == IF Over(t) \in Prep .. Prep + Prove THEN last ELSE t

\* The start of the cycle whose window is waited for; inside a window it is kept.
LastAt(t) ==
    IF Over(t) < Prep THEN t - Over(t)
    ELSE IF Over(t) > Prep + Prove THEN t - Over(t) + Cycle
    ELSE last

-----------------------------------------------------------------------------
(* The loop of Start. *)

Begin(call) == pc' = call /\ wake' = now

\* The next round, a second later; next and drawn are locals of a round.
Again == pc' = "sleep" /\ wake' = now + 1 /\ next' = 0 /\ drawn' = 0

Fails ==
    /\ failures < Failures
    /\ failures' = failures + 1

Calculate ==
    /\ pc = "sleep" /\ now >= wake
    /\ wake' = now + Waiting(now)
    /\ last' = LastAt(now)
    /\ next' = last' + Cycle
    /\ pc' = "select"
    /\ UNCHANGED <<now, drawn, done, doned, stopper, failures, handed>>

\* Mutant: the loop ends without a word.
DoneSilently ==
    /\ pc = "select" /\ done # 0
    /\ pc' = "stopped"
    /\ UNCHANGED <<now, last, next, wake, drawn, done, doned, stopper, failures, handed>>

\* The branches of the select; either may be taken when both are ready.  The
\* context of the daemon is never cancelled.
Done ==
    /\ pc = "select" /\ done # 0
    /\ doned' = TRUE
    /\ pc' = "stopped"
    /\ UNCHANGED <<now, last, next, wake, drawn, done, stopper, failures, handed>>

Timer ==
    /\ pc = "select" /\ now >= wake
    /\ Begin("count")
    /\ UNCHANGED <<now, last, next, drawn, done, doned, stopper, failures, handed>>

\* GetV1OrderCount: an error, or no orders, ends the round.
Count ==
    /\ pc = "count"
    /\ \/ Begin("rnd") /\ UNCHANGED <<next, drawn, failures>>
       \/ Fails /\ Again
    /\ UNCHANGED <<now, last, done, doned, stopper, handed>>

\* Mutant: a round without a random value counts as done.
GetRNDGivesUp ==
    /\ pc = "rnd"
    /\ \/ Begin("pow") /\ drawn' = now /\ UNCHANGED <<last, next, failures>>
       \/ Fails /\ Again /\ last' = next
    /\ UNCHANGED <<now, done, doned, stopper, handed>>

GetRND ==
    /\ pc = "rnd"
    /\ \/ Begin("pow") /\ drawn' = now /\ UNCHANGED <<next, failures>>
       \/ Fails /\ Again
    /\ UNCHANGED <<now, last, done, doned, stopper, handed>>

GenerateProof ==
    /\ pc = "pow"
    /\ \/ Begin("submit") /\ UNCHANGED <<next, drawn, failures>>
       \/ Fails /\ Again
    /\ UNCHANGED <<now, last, done, doned, stopper, handed>>

\* ProveToValidator: an error is logged and the round is over all the same, so
\* handed holds the proofs the validator refused, too.
Submit ==
    /\ pc = "submit"
    /\ handed' = Append(handed, drawn)
    /\ last' = next
    /\ Again
    /\ UNCHANGED <<now, done, doned, stopper, failures>>

-----------------------------------------------------------------------------
(* Stop, and time. *)

\* close(p.done); nothing in the repository calls Stop twice.
Stop ==
    /\ stopper = "no" /\ now <= StopBy
    /\ done' = now
    /\ stopper' = "waits"
    /\ UNCHANGED <<now, loopVars, failures, handed>>

\* The poll that sees doned set.
Stopped ==
    /\ stopper = "waits" /\ doned
    /\ stopper' = "returned"
    /\ UNCHANGED <<now, loopVars, done, failures, handed>>

\* A second passes, unless the loop is as late, or its call as slow, as it may be.
\* A select that finds done closed does not wait.
Tick ==
    /\ IF stopper = "no" THEN now < Horizon ELSE pc # "stopped"
    /\ pc \in {"sleep", "select"} => now < wake + Late
    /\ pc = "select" /\ done # 0 => now < done + Late
    /\ pc \in Calls => now < wake + Slow
    /\ now' = now + 1
    /\ UNCHANGED <<loopVars, done, stopper, failures, handed>>

Loop == Calculate \/ Done \/ Timer \/ Count \/ GetRND \/ GenerateProof \/ Submit

Next == Loop \/ Stop \/ Stopped \/ Tick

Spec == Init /\ [][Next]_vars

\* The loop runs, calls return, the caller of Stop polls and time passes.  The
\* random choice of select is not relied on.
Fairness == WF_vars(Loop) /\ WF_vars(Stopped) /\ WF_vars(Tick)

FairSpec == Spec /\ Fairness

-----------------------------------------------------------------------------
(* Properties. *)

\* Types; last and next are starts of challenge cycles, whatever the clock
\* read when they were computed (CalculateWatingTime, and last = nextTime).
TypeOK ==
    /\ now \in Nat /\ wake \in Nat /\ drawn \in Nat /\ done \in Nat
    /\ last \in Nat /\ next \in Nat
    /\ last % Cycle = 0 /\ next % Cycle = 0
    /\ pc \in Labels
    /\ doned \in BOOLEAN
    /\ stopper \in {"no", "waits", "returned"}
    /\ failures \in 0 .. Failures
    /\ handed \in Seq(Nat)

\* Whatever second a round starts in, its timer fires inside the prove window:
\* also right after a proof, when last lies ahead of the clock.
WokenInWindow == pc = "select" => wake % Cycle \in Prep .. Prep + Prove

\* No two proofs are handed in for one cycle, although every failed round of
\* the cycle is tried again within seconds (the reason for last = nextTime).
\* The cycle in which the prover was started inside its window is an exception
\* of the code: last is still 0 there, and so every round finds the window open.
OnePerCycle ==
    \A i, j \in DOMAIN handed :
        /\ i < j
        /\ handed[i] \div Cycle = handed[j] \div Cycle
        => handed[j] \div Cycle = handed[1] \div Cycle

\* Longest time from one failed call to the next, and from the start of a cycle's
\* window to the first.
RetryTime == 1 + 2 * Late + 3 * Slow

\* A cycle that begins with the prover at work has a proof handed in by its end,
\* if no more calls failed than can be repeated inside its window: an error of
\* the validator costs a round, never the cycle (the continues of Start).
NoCycleMissed ==
    done = 0 /\ failures * RetryTime <= Prove =>
        \A c \in 0 .. (now \div Cycle) - 1 :
            (\A s \in Start : s < c * Cycle) => \E i \in DOMAIN handed : handed[i] \div Cycle = c

\* A caller of Stop does not poll for ever, at whatever point of a round it
\* closed done and although the timer may win the select again and again.
StopTerminates == stopper = "waits" ~> stopper = "returned"
=============================================================================
