---------------------------- MODULE TokenBucket ----------------------------
(***************************************************************************)
(* The token-bucket algorithm: scripts/token_bucket.lua run by Redis       *)
(* against the bucket of one identity and policy, at the refill rate the   *)
(* limiter uses (one capacity per window).  A script is atomic, so each of *)
(* its outcomes is one action.  Tokens are whole units of the code's       *)
(* scaled integers.                                                        *)
(***************************************************************************)
EXTENDS Integers, BinarySearch

CONSTANTS
    Capacity,       \* max_tokens
    WindowSeconds,
    MsPerSecond,    \* 1000 in the code
    TtlSlack,       \* 60 seconds in the code
    Costs,          \* the costs callers ask for
    Horizon,        \* bound: the last millisecond the model reaches
    MaxPassed       \* bound: the longest interval it measures

ASSUME TokenBucketAssumption ==
    /\ Capacity \in Nat \ {0}
    /\ WindowSeconds \in Nat \ {0}
    /\ MsPerSecond \in Nat \ {0}
    /\ TtlSlack \in Nat
    /\ Costs \subseteq Nat \ {0}
    /\ Horizon \in Nat
    /\ MaxPassed \in Nat

VARIABLES
    now,            \* Redis time, in milliseconds
    bucket,         \* the hash: tokens, last_refill_ms (origin), refill_units (units)
    expiry,         \* when its key expires, or NoKey
    reply,          \* what the script run by this step returned
    meter           \* history: cost granted and milliseconds passed since it was started

vars == <<now, bucket, expiry, reply, meter>>

NoKey == -1
WindowMs == WindowSeconds * MsPerSecond

\* Mutant: the key lives for less than a refill.
TtlMsShort == (WindowSeconds \div 2) * MsPerSecond
TtlMs == (2 * WindowSeconds + TtlSlack) * MsPerSecond

AtLeast0(n) == IF n > 0 THEN n ELSE 0
Least(a, b) == IF a < b THEN a ELSE b
Greatest(a, b) == IF a > b THEN a ELSE b
Ceiling(a, b) == (a + b - 1) \div b

Bucket(tokens, origin, units) == [tokens |-> tokens, origin |-> origin, units |-> units]

Reply(c, allowed, remaining, retry, resetAt) ==
    [cost |-> c, allowed |-> allowed, remaining |-> remaining,
     retry |-> retry, resetAt |-> resetAt]
NoReply == Reply(0, FALSE, 0, 0, 0)

Init ==
    /\ now = 0
    /\ bucket = Bucket(Capacity, 0, 0)
    /\ expiry = NoKey
    /\ reply = NoReply
    /\ meter = [granted |-> 0, passed |-> 0]

-----------------------------------------------------------------------------
(* The script's arithmetic.  HMGET, with the defaults for a missing key.   *)

Stored == IF expiry = NoKey THEN Bucket(Capacity, now, 0) ELSE bucket

Idle == AtLeast0(now - Stored.origin)

\* Whole windows since the origin are moved out of origin and units alike.
WholeWindows == Idle \div WindowMs
\* Mutant: a long busy bucket keeps its first origin.
OriginKept == Stored.origin
Origin == Stored.origin + WholeWindows * WindowMs
UnitsCarried == Stored.units - WholeWindows * Capacity
Phase == Idle % WindowMs

UnitsPerMs == Capacity \div WindowMs
Remainder == Capacity % WindowMs

\* Mutant: the product is not split into quotient and remainder.
WholeProduct(e) == Capacity * (e % WindowMs)
PartialProduct(e) == Remainder * (e % WindowMs)

\* Units credited in e milliseconds from the origin.
Credit(e) ==
    (e \div WindowMs) * Capacity + UnitsPerMs * (e % WindowMs) + PartialProduct(e) \div WindowMs

Accrued == Credit(Phase)
Earned == AtLeast0(Accrued - UnitsCarried)

Tokens == Least(Capacity, Stored.tokens + Earned)

\* Mutant: the credited units follow a clock that was set back.
RefilledBack ==
    IF Tokens = Capacity THEN Bucket(Capacity, now, 0) ELSE Bucket(Tokens, Origin, Accrued)
\* The bucket the script decides on; a full one starts a new refill period.
Refilled ==
    IF Tokens = Capacity
    THEN Bucket(Capacity, now, 0)
    ELSE Bucket(Tokens, Origin, Greatest(UnitsCarried, Accrued))

RefillPhase == IF Tokens = Capacity THEN 0 ELSE Phase

\* time_until_refill: the first delay that credits n units.
RefillDelay(n) ==
    FirstIn({delay \in 0..WindowMs : Credit(RefillPhase + delay) - Credit(RefillPhase) >= n},
            0, WindowMs)

\* Mutant: the whole second is rounded down.
FirstSecondEarly(t) == t \div MsPerSecond
FirstSecond(t) == Ceiling(t, MsPerSecond)

-----------------------------------------------------------------------------
\* The hash and its expiry, as both outcomes of a decision write them.
Write(tokens) ==
    /\ bucket' = [Refilled EXCEPT !.tokens = tokens]
    /\ expiry' = now + TtlMs

\* Capacity can never cover the cost: answer, write nothing.
DenyOversized(c) ==
    /\ c > Capacity
    /\ reply' = Reply(c, FALSE, Tokens, -1, 0)
    /\ UNCHANGED <<now, bucket, expiry, meter>>

Admit(c) ==
    /\ c <= Tokens
    /\ Write(Tokens - c)
    /\ reply' = Reply(c, TRUE, Tokens - c, 0,
                      FirstSecond(now + RefillDelay(Capacity - (Tokens - c))))
    /\ meter' = [meter EXCEPT !.granted = @ + c]
    /\ UNCHANGED now

Deny(c) ==
    /\ c <= Capacity
    /\ c > Tokens
    /\ Write(Tokens)
    /\ LET retry == RefillDelay(c - Tokens)
           wholeSeconds == Greatest(1, FirstSecond(retry))
       IN  reply' = Reply(c, FALSE, Tokens, retry,
                          FirstSecond(now + wholeSeconds * MsPerSecond))
    /\ UNCHANGED <<now, meter>>

\* RedisBackend.reset: DEL of the key.
Reset ==
    /\ bucket' = Bucket(Capacity, 0, 0)
    /\ expiry' = NoKey
    /\ meter' = [granted |-> 0, passed |-> 0]
    /\ reply' = NoReply
    /\ UNCHANGED now

\* Time passes; Redis drops the key once its expiry is over.
Tick(t) ==
    /\ t > now
    /\ meter.passed + (t - now) <= MaxPassed
    /\ now' = t
    /\ IF expiry # NoKey /\ t > expiry
       THEN bucket' = Bucket(Capacity, 0, 0) /\ expiry' = NoKey
       ELSE UNCHANGED <<bucket, expiry>>
    /\ meter' = [meter EXCEPT !.passed = @ + (t - now)]
    /\ reply' = NoReply

\* The server's clock is set back; no time passes.
StepBack(t) ==
    /\ t < now
    /\ now' = t
    /\ reply' = NoReply
    /\ UNCHANGED <<bucket, expiry, meter>>

\* History: start to measure an interval here.
Watch ==
    /\ meter' = [granted |-> 0, passed |-> 0]
    /\ UNCHANGED <<now, bucket, expiry, reply>>

Next ==
    \/ \E c \in Costs : DenyOversized(c) \/ Admit(c) \/ Deny(c)
    \/ Reset
    \/ \E t \in 0..Horizon : Tick(t)
    \/ Watch

Spec == Init /\ [][Next]_vars

\* The same with a clock that can be set back.
SkewedNext == Next \/ \E t \in 0..Horizon : StepBack(t)
SkewedSpec == Init /\ [][SkewedNext]_vars

-----------------------------------------------------------------------------
\* The state has the shape the script and Redis give it.
TypeOK ==
    /\ now \in 0..Horizon
    /\ bucket \in [tokens : 0..Capacity, origin : Nat, units : Int]
    /\ expiry \in Nat \cup {NoKey}
    /\ reply \in [cost : Nat, allowed : BOOLEAN, remaining : 0..Capacity,
                 retry : Nat \cup {-1}, resetAt : Nat]
    /\ meter \in [granted : Nat, passed : Nat]

\* Over any interval, however it is polled and however often the key expires,
\* the bucket grants at most one capacity plus what flows in meanwhile.
IntervalBound == meter.granted * WindowMs <= Capacity * (WindowMs + meter.passed)

\* A busy bucket's origin stays within a window of its last write, and its
\* credited units within one capacity: neither grows with the bucket's age.
BookkeepingBounded ==
    expiry # NoKey =>
        /\ bucket.units \in 0..Capacity
        /\ expiry - TtlMs - bucket.origin < WindowMs

\* Every intermediate of the next check is bounded by the policy alone: the
\* windows to move out of the origin, and the product behind the credit.
ExactArithmetic ==
    /\ WholeWindows * WindowMs < TtlMs + WindowMs
    /\ \A e \in 0..(2 * WindowMs) : PartialProduct(e) <= (WindowMs - 1) * (WindowMs - 1)

\* No number the bucket keeps or the next check computes grows without bound.
NumbersBounded == TypeOK /\ ExactArithmetic

\* What the bucket holds at time t, in 1/WindowMs of a token, if it is left alone.
BalanceAt(t) ==
    Least(Capacity * WindowMs,
          (Stored.tokens - Stored.units) * WindowMs + Capacity * (t - Stored.origin))

\* An admission's reset_at is the first whole second at which the bucket is
\* full; a denial's is at least a second away and finds the cost affordable.
ResetAtIsHonest ==
    reply.cost > 0 /\ reply.retry # -1 =>
        LET t == reply.resetAt * MsPerSecond
        IN  IF reply.allowed
            THEN /\ BalanceAt(t) = Capacity * WindowMs
                 /\ BalanceAt(t - MsPerSecond) < Capacity * WindowMs
            ELSE /\ BalanceAt(t) >= reply.cost * WindowMs
                 /\ t >= now + MsPerSecond

\* The script implements the ideal bucket: no fraction is lost to polling, to
\* moving the origin or to an expiring key, and every Retry-After is exact.
Ideal == INSTANCE IdealBucket WITH
    time <- now,
    balance <- BalanceAt(now),
    verdict <- [cost |-> reply.cost, allowed |-> reply.allowed,
                remaining |-> reply.remaining, retry |-> reply.retry]
IdealSpec == Ideal!Spec
=============================================================================
