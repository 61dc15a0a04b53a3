--------------------------- MODULE SlidingWindow ---------------------------
(***************************************************************************)
(* The sliding-window algorithm: scripts/sliding_window.lua run by Redis   *)
(* against the counters of one identity and policy.  The previous window's *)
(* counter is weighted by the permille of the window that is still to      *)
(* come.  A script is atomic, so each of its outcomes is one action;       *)
(* counter[w] = 0 means the key prefix..w does not exist.                  *)
(***************************************************************************)
EXTENDS Integers, BinarySearch

CONSTANTS
    MaxRequests,    \* capacity, in the code's scaled units
    WindowSeconds,
    MsPerSecond,    \* 1000 in the code
    Permille,       \* 1000: the scale of the weight
    Costs,          \* the costs callers ask for, in scaled units
    Horizon         \* bound: the last millisecond the model reaches

ASSUME SlidingWindowAssumption ==
    /\ MaxRequests \in Nat \ {0}
    /\ WindowSeconds \in Nat \ {0}
    /\ MsPerSecond \in Nat \ {0}
    /\ Permille \in Nat \ {0}
    /\ Costs \subseteq Nat \ {0}
    /\ Horizon \in Nat /\ WindowSeconds * MsPerSecond <= Horizon

VARIABLES
    now,            \* Redis time, in milliseconds
    counter,        \* charged cost, by window start
    expiry,         \* the key's expiry in milliseconds, or NoExpiry
    reply,          \* what the script run by this step returned
    granted         \* history: cost admitted in each window since its reset

vars == <<now, counter, expiry, reply, granted>>

NoExpiry == -1

Second(t) == t \div MsPerSecond
WindowStart(t) == Second(t) - (Second(t) % WindowSeconds)
WindowEnd(w) == w + WindowSeconds

Starts == 0..Second(Horizon)
Window == WindowStart(now)
Previous == Window - WindowSeconds

AtLeast0(n) == IF n > 0 THEN n ELSE 0
Ceiling(a, b) == (a + b - 1) \div b

Reply(c, allowed, remaining, retry, resetAt) ==
    [cost |-> c, allowed |-> allowed, remaining |-> remaining,
     retry |-> retry, resetAt |-> resetAt]
NoReply == Reply(0, FALSE, 0, 0, 0)

\* Redis time is never in the first window, so there always is a previous one.
Init ==
    /\ now = WindowSeconds * MsPerSecond
    /\ counter = [w \in Starts |-> 0]
    /\ expiry = [w \in Starts |-> NoExpiry]
    /\ reply = NoReply
    /\ granted = [w \in Starts |-> 0]

-----------------------------------------------------------------------------
\* Mutant: the weight is the part of the window that is over.
WeightElapsed(left) == ((WindowSeconds - left) * Permille) \div WindowSeconds
\* Mutant: the weight is rounded up.
WeightRoundedUp(left) == Ceiling(left * Permille, WindowSeconds)
\* The weight of a window's predecessor when `left' seconds of it are to come.
Weight(left) == (left * Permille) \div WindowSeconds
Weighted(count, left) == (count * Weight(left)) \div Permille

Estimate == counter[Window] + Weighted(counter[Previous], WindowEnd(Window) - Second(now))

\* Mutant: at the end of the window its counter disappears.
EstimateForgetful(s) ==
    IF s < WindowEnd(Window)
    THEN counter[Window] + Weighted(counter[Previous], WindowEnd(Window) - s)
    ELSE 0
\* The estimate at a later second of this window or the next one, if nothing
\* more is admitted: at the rollover the current counter becomes the previous.
EstimateIn(s) ==
    IF s < WindowEnd(Window)
    THEN counter[Window] + Weighted(counter[Previous], WindowEnd(Window) - s)
    ELSE Weighted(counter[Window], WindowEnd(Window) + WindowSeconds - s)

\* The first later second at which cost c fits.
FirstFit(c) ==
    LET last == WindowEnd(Window) + WindowSeconds
        next == Second(now) + 1
    IN  FirstIn({s \in next..last : EstimateIn(s) + c <= MaxRequests}, next, last)

\* Mutant: a counter is kept for its own window only.
KeptMsOneWindow == WindowSeconds * MsPerSecond
KeptMs == 2 * WindowSeconds * MsPerSecond

Fits(c) == Estimate + c <= MaxRequests

-----------------------------------------------------------------------------
\* Capacity can never cover the cost: answer, change nothing.
DenyOversized(c) ==
    /\ c > MaxRequests
    /\ reply' = Reply(c, FALSE, AtLeast0(MaxRequests - Estimate), -1, 0)
    /\ UNCHANGED <<now, counter, expiry, granted>>

Admit(c) ==
    /\ c <= MaxRequests
    /\ Fits(c)
    /\ counter' = [counter EXCEPT ![Window] = @ + c]
    /\ expiry' = [expiry EXCEPT ![Window] = now + KeptMs]
    /\ reply' = Reply(c, TRUE, AtLeast0(MaxRequests - (Estimate + c)), 0, WindowEnd(Window))
    /\ granted' = [granted EXCEPT ![Window] = @ + c]
    /\ UNCHANGED now

Deny(c) ==
    /\ c <= MaxRequests
    /\ ~Fits(c)
    /\ LET retry == FirstFit(c) * MsPerSecond - now
           wholeSeconds == IF retry > MsPerSecond THEN Ceiling(retry, MsPerSecond) ELSE 1
       IN  reply' = Reply(c, FALSE, AtLeast0(MaxRequests - Estimate), retry,
                          Ceiling(now + wholeSeconds * MsPerSecond, MsPerSecond))
    /\ UNCHANGED <<now, counter, expiry, granted>>

\* RedisBackend.reset: DEL of one window's key.
Reset(w) ==
    /\ counter' = [counter EXCEPT ![w] = 0]
    /\ expiry' = [expiry EXCEPT ![w] = NoExpiry]
    /\ granted' = [granted EXCEPT ![w] = 0]
    /\ reply' = NoReply
    /\ UNCHANGED now

Lapsed(w, t) == expiry[w] # NoExpiry /\ t > expiry[w]

\* Time passes; Redis drops the keys whose expiry is over.
Tick(t) ==
    /\ t > now
    /\ now' = t
    /\ counter' = [w \in Starts |-> IF Lapsed(w, t) THEN 0 ELSE counter[w]]
    /\ expiry' = [w \in Starts |-> IF Lapsed(w, t) THEN NoExpiry ELSE expiry[w]]
    /\ reply' = NoReply
    /\ UNCHANGED granted

Next ==
    \/ \E c \in Costs : DenyOversized(c) \/ Admit(c) \/ Deny(c)
    \/ \E w \in Starts : Reset(w)
    \/ \E t \in 0..Horizon : Tick(t)

Spec == Init /\ [][Next]_vars

-----------------------------------------------------------------------------
\* The state has the shape the script and Redis give it.
TypeOK ==
    /\ now \in 0..Horizon
    /\ counter \in [Starts -> 0..MaxRequests]
    /\ expiry \in [Starts -> Nat \cup {NoExpiry}]
    /\ reply \in [cost : Nat, allowed : BOOLEAN, remaining : 0..MaxRequests,
                 retry : Nat \cup {-1}, resetAt : Nat]
    /\ granted \in [Starts -> 0..MaxRequests]

\* As long as a window is the current or the previous one, its counter is what
\* was granted in it: a key never expires while it still has a weight.
WeightedCountsRetained ==
    \A w \in {Window, Previous} : counter[w] = granted[w]

\* The counters are within their ranges and are what was granted.
CountsSound == TypeOK /\ WeightedCountsRetained

\* The estimate of what was admitted recently never exceeds the capacity: not
\* after an admission, not at the rollover, not as weights and keys decay.
EstimateWithinCapacity == Estimate <= MaxRequests

\* The permille weight never counts more of the previous window than its exact
\* share, and less by no more than a thousandth of it and one unit.
RoundingBounded ==
    LET left == WindowEnd(Window) - Second(now)
        share == counter[Previous] * left
        counted == WindowSeconds * Weighted(counter[Previous], left)
    IN  /\ counted <= share
        /\ Permille * (share - counted) < WindowSeconds * (counter[Previous] + Permille)

\* What a decision is made on is within the quota and honestly rounded.
EstimateSound == EstimateWithinCapacity /\ RoundingBounded

\* "Without intervening admissions the estimate is monotone": no time, denial,
\* expiry or reset ever raises it, on which the search for a deadline relies.
EstimateDecays == [][~reply'.allowed => Estimate' <= Estimate]_vars

\* What a check at time t would find if nothing were admitted until then.
Retained(w, t) == IF w \notin Starts \/ Lapsed(w, t) THEN 0 ELSE counter[w]
EstimateAt(t) ==
    LET w == WindowStart(t)
    IN  Retained(w, t) + Weighted(Retained(w - WindowSeconds, t), WindowEnd(w) - Second(t))

\* A denial's Retry-After is the first millisecond at which the cost fits, in
\* this window, after the rollover or after both counters aged out; and its
\* reset_at does not call the caller back earlier.
RetryIsFirstFit ==
    reply.cost > 0 /\ ~reply.allowed /\ reply.retry # -1 =>
        /\ EstimateAt(now + reply.retry) + reply.cost <= MaxRequests
        /\ \A t \in now..(now + reply.retry - 1) : EstimateAt(t) + reply.cost > MaxRequests
        /\ now + reply.retry <= reply.resetAt * MsPerSecond
=============================================================================
