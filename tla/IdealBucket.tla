---------------------------- MODULE IdealBucket ----------------------------
(***************************************************************************)
(* The bucket a token-bucket limit promises: it fills continuously, one    *)
(* capacity per window, and nothing is ever rounded away.  The balance is  *)
(* counted in 1/WindowMs of a token, so a millisecond adds exactly         *)
(* Capacity to it and a token is worth WindowMs.                           *)
(***************************************************************************)
EXTENDS Integers

CONSTANTS
    Capacity,       \* tokens of a full bucket
    WindowMs,       \* milliseconds in which an empty bucket fills
    Costs           \* the costs callers ask for

VARIABLES
    time,           \* in milliseconds
    balance,
    verdict         \* the answer given by the step just taken

idealVars == <<time, balance, verdict>>

Full == Capacity * WindowMs

Verdict(c, allowed, left, retry) ==
    [cost |-> c, allowed |-> allowed, remaining |-> left, retry |-> retry]
NoVerdict == Verdict(0, FALSE, 0, 0)

\* The least number of milliseconds that add at least n to the balance.
MsToGain(n) == (n + Capacity - 1) \div Capacity

Init ==
    /\ time = 0
    /\ balance = Full
    /\ verdict = NoVerdict

Flow ==
    /\ time' \in Nat
    /\ time' > time
    /\ LET filled == balance + Capacity * (time' - time)
       IN  balance' = IF filled < Full THEN filled ELSE Full
    /\ verdict' = NoVerdict

Take(c) ==
    /\ c * WindowMs <= balance
    /\ balance' = balance - c * WindowMs
    /\ verdict' = Verdict(c, TRUE, balance' \div WindowMs, 0)
    /\ UNCHANGED time

\* The caller is told the first millisecond at which its cost would fit.
Refuse(c) ==
    /\ c * WindowMs > balance
    /\ verdict' = Verdict(c, FALSE, balance \div WindowMs,
                          IF c > Capacity THEN -1 ELSE MsToGain(c * WindowMs - balance))
    /\ UNCHANGED <<time, balance>>

\* An operator forgives what was spent so far.
Forgive ==
    /\ balance' = Full
    /\ verdict' = NoVerdict
    /\ UNCHANGED time

Next ==
    \/ Flow
    \/ \E c \in Costs : Take(c) \/ Refuse(c)
    \/ Forgive

Spec == Init /\ [][Next]_idealVars
=============================================================================
