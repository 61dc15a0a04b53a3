---------------------------- MODULE FixedWindow ----------------------------
(***************************************************************************)
(* The fixed-window algorithm: scripts/fixed_window.lua run by Redis       *)
(* against the counters of one identity and policy.  A script is atomic,   *)
(* so each of its outcomes is one action.  A counter is the Redis key      *)
(* prefix..window_start; counter[w] = 0 means the key does not exist (a    *)
(* key is created by INCRBY with a positive cost and never decreases).     *)
(*                                                                         *)
(* All amounts of the code carry the same factor 1000, which is dropped.   *)
(***************************************************************************)
EXTENDS Integers

CONSTANTS
    MaxRequests,    \* capacity of a window
    WindowSeconds,  \* its length
    MsPerSecond,    \* 1000 in the code
    Costs,          \* the costs callers ask for
    Horizon         \* bound: the last millisecond the model reaches

ASSUME FixedWindowAssumption ==
    /\ MaxRequests \in Nat \ {0}
    /\ WindowSeconds \in Nat \ {0}
    /\ MsPerSecond \in Nat \ {0}
    /\ Costs \subseteq Nat \ {0}
    /\ Horizon \in Nat

VARIABLES
    now,            \* Redis time, in milliseconds
    counter,        \* charged cost, by window start
    expiry,         \* the key's expiry in milliseconds, or NoExpiry
    reply,          \* what the script run by this step returned
    granted,        \* history: cost admitted in each window since its reset
    denial          \* history: the last retryable denial, or NoDenial

vars == <<now, counter, expiry, reply, granted, denial>>

NoExpiry == -1      \* what PTTL answers for a key without expiry
NoDenial == [cost |-> 0, at |-> 0, until |-> 0]

Second(t) == t \div MsPerSecond
WindowStart(t) == Second(t) - (Second(t) % WindowSeconds)
WindowEnd(w) == w + WindowSeconds

\* Mutant: the key expires with the window's last second.
EndMsEarly(w) == (WindowEnd(w) - 1) * MsPerSecond
EndMs(w) == WindowEnd(w) * MsPerSecond

Starts == 0..Second(Horizon)
Window == WindowStart(now)

Reply(c, allowed, remaining, retry, resetAt) ==
    [cost |-> c, allowed |-> allowed, remaining |-> remaining,
     retry |-> retry, resetAt |-> resetAt]
NoReply == Reply(0, FALSE, 0, 0, 0)

AtLeast0(n) == IF n > 0 THEN n ELSE 0

Init ==
    /\ now = 0
    /\ counter = [w \in Starts |-> 0]
    /\ expiry = [w \in Starts |-> NoExpiry]
    /\ reply = NoReply
    /\ granted = [w \in Starts |-> 0]
    /\ denial = NoDenial

Lapsed(w, t) == expiry[w] # NoExpiry /\ t > expiry[w]

\* Mutant: a counter without expiry is left alone.
NotRepaired(w) == expiry[w]
\* Mutant: the repair counts a full window from now.
RepairedFromNow(w) ==
    IF counter[w] > 0 /\ expiry[w] = NoExpiry THEN now + WindowSeconds * MsPerSecond ELSE expiry[w]
\* The expiry of window w's key after the script has repaired a missing one.
Repaired(w) == IF counter[w] > 0 /\ expiry[w] = NoExpiry THEN EndMs(w) ELSE expiry[w]

\* Mutant: the advertised delay loses its part of a second.
RetryMsWholeSeconds(w, expires) == ((EndMs(w) - now) \div MsPerSecond) * MsPerSecond
\* Mutant: the advertised delay is the window's length.
RetryMsWholeWindow(w, expires) == WindowSeconds * MsPerSecond
\* PTTL, and the script's own computation where the key had no expiry.
RetryMs(w, expires) == IF expires = NoExpiry THEN AtLeast0(EndMs(w) - now) ELSE expires - now

\* Mutant: the last unit of capacity is never given.
FitsStrictly(c) == counter[Window] + c < MaxRequests
Fits(c) == counter[Window] + c <= MaxRequests

\* Capacity can never cover the cost: answer, charge nothing.
DenyOversized(c) ==
    /\ c > MaxRequests
    /\ expiry' = [expiry EXCEPT ![Window] = Repaired(Window)]
    /\ reply' = Reply(c, FALSE, AtLeast0(MaxRequests - counter[Window]), -1, 0)
    /\ UNCHANGED <<now, counter, granted, denial>>

Admit(c) ==
    /\ c <= MaxRequests
    /\ Fits(c)
    /\ counter' = [counter EXCEPT ![Window] = @ + c]
    /\ expiry' = [expiry EXCEPT ![Window] =
                    IF counter'[Window] = c THEN EndMs(Window) ELSE Repaired(Window)]
    /\ reply' = Reply(c, TRUE, MaxRequests - counter'[Window],
                      RetryMs(Window, expiry'[Window]), WindowEnd(Window))
    /\ granted' = [granted EXCEPT ![Window] = @ + c]
    /\ UNCHANGED <<now, denial>>

Deny(c) ==
    /\ c <= MaxRequests
    /\ ~Fits(c)
    /\ expiry' = [expiry EXCEPT ![Window] = Repaired(Window)]
    /\ reply' = Reply(c, FALSE, AtLeast0(MaxRequests - counter[Window]),
                      RetryMs(Window, expiry[Window]), WindowEnd(Window))
    /\ denial' = [cost |-> c, at |-> now, until |-> now + reply'.retry]
    /\ UNCHANGED <<now, counter, granted>>

\* RedisBackend.reset: DEL of one window's key.
Reset(w) ==
    /\ counter' = [counter EXCEPT ![w] = 0]
    /\ expiry' = [expiry EXCEPT ![w] = NoExpiry]
    /\ granted' = [granted EXCEPT ![w] = 0]
    /\ denial' = NoDenial
    /\ reply' = NoReply
    /\ UNCHANGED now

\* Someone outside the library removes a live key's expiry (PERSIST).
Persist(w) ==
    /\ expiry[w] # NoExpiry
    /\ expiry' = [expiry EXCEPT ![w] = NoExpiry]
    /\ reply' = NoReply
    /\ UNCHANGED <<now, counter, granted, denial>>

\* Time passes; Redis drops the keys whose expiry is over.
Tick(t) ==
    /\ t > now
    /\ now' = t
    /\ counter' = [w \in Starts |-> IF Lapsed(w, t) THEN 0 ELSE counter[w]]
    /\ expiry' = [w \in Starts |-> IF Lapsed(w, t) THEN NoExpiry ELSE expiry[w]]
    /\ reply' = NoReply
    /\ UNCHANGED <<granted, denial>>

Next ==
    \/ \E c \in Costs : DenyOversized(c) \/ Admit(c) \/ Deny(c)
    \/ \E w \in Starts : Reset(w) \/ Persist(w)
    \/ \E t \in 0..Horizon : Tick(t)

Spec == Init /\ [][Next]_vars

-----------------------------------------------------------------------------
\* The state has the shape the script and Redis give it.
TypeOK ==
    /\ now \in 0..Horizon
    /\ counter \in [Starts -> 0..MaxRequests]
    /\ expiry \in [Starts -> Nat \cup {NoExpiry}]
    /\ reply \in [cost : Nat, allowed : BOOLEAN, remaining : 0..MaxRequests,
                 retry : Nat \cup {-1}, resetAt : Nat]
    /\ granted \in [Starts -> Nat]
    /\ denial \in [cost : Nat, at : Nat, until : Nat]

\* No window, current or past, admits more than its capacity between two
\* resets: a counter is never dropped, replaced or left uncharged while
\* requests are still admitted against it.
NoOverAdmission == \A w \in Starts : granted[w] <= MaxRequests

\* A key that expires does so at the end of its own window, whichever request
\* gave it the expiry: never while it is still counted, never carried over.
ExpiresWithItsWindow ==
    \A w \in Starts : expiry[w] # NoExpiry => counter[w] > 0 /\ expiry[w] = EndMs(w)

\* After any check, refused and oversized ones included, the counter it looked
\* at is set to expire: an orphaned counter survives no check.
CheckedCounterExpires ==
    reply.cost > 0 /\ counter[Window] > 0 => expiry[Window] # NoExpiry

\* A denial's Retry-After names exactly the first millisecond of the next
\* window, whatever happened to the key's expiry before.
RetryIsExact ==
    denial.cost > 0 =>
        \A t \in denial.at..denial.until :
            (WindowStart(t) = WindowStart(denial.at)) <=> t < denial.until

\* Nothing as large as a denied request is admitted before the time the denial
\* named, unless an operator reset the window in between.
NoEarlyAdmission ==
    [][denial.cost > 0 /\ reply'.allowed /\ reply'.cost >= denial.cost
        => now >= denial.until]_vars

\* The script implements the abstract quota: expiry, repair and lazily dropped
\* keys never show, and what is left is always what the reply says.
Quota == INSTANCE WindowQuota WITH
    window <- Window,
    used <- counter[Window],
    verdict <- [cost |-> reply.cost, allowed |-> reply.allowed, remaining |-> reply.remaining]
QuotaSpec == Quota!Spec
=============================================================================
