---------------------------- MODULE WindowQuota ----------------------------
(***************************************************************************)
(* What a fixed-window limit promises its caller, without keys, expiries   *)
(* or milliseconds: a quota that is spent by admitted requests only, that  *)
(* is never overspent, and that is whole again in every new window.        *)
(***************************************************************************)
EXTENDS Integers

CONSTANTS
    MaxRequests,    \* the quota of one window
    Costs           \* the costs callers ask for

VARIABLES
    window,         \* the current window
    used,           \* what its admitted requests have spent
    verdict         \* the answer given by the step just taken

quotaVars == <<window, used, verdict>>

NoVerdict == [cost |-> 0, allowed |-> FALSE, remaining |-> 0]

Verdict(c, allowed, left) == [cost |-> c, allowed |-> allowed, remaining |-> left]

Init ==
    /\ window = 0
    /\ used = 0
    /\ verdict = NoVerdict

Admit(c) ==
    /\ used + c <= MaxRequests
    /\ used' = used + c
    /\ verdict' = Verdict(c, TRUE, MaxRequests - used')
    /\ UNCHANGED window

Refuse(c) ==
    /\ used + c > MaxRequests
    /\ verdict' = Verdict(c, FALSE, MaxRequests - used)
    /\ UNCHANGED <<window, used>>

Roll ==
    /\ window' \in Nat
    /\ window' > window
    /\ used' = 0
    /\ verdict' = NoVerdict

\* An operator forgives what was spent so far.
Forgive ==
    /\ used' = 0
    /\ verdict' = NoVerdict
    /\ UNCHANGED window

\* Time that passes inside a window changes nothing.
Idle ==
    /\ verdict' = NoVerdict
    /\ UNCHANGED <<window, used>>

Next ==
    \/ \E c \in Costs : Admit(c) \/ Refuse(c)
    \/ Roll
    \/ Forgive
    \/ Idle

Spec == Init /\ [][Next]_quotaVars
=============================================================================
