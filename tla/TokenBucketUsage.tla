-------------------------- MODULE TokenBucketUsage --------------------------
(***************************************************************************)
(* get_usage for a token bucket: it asks Redis for the time, in a second   *)
(* round trip for the hash, and computes in the client what the bucket     *)
(* holds.  Between the two, checks, resets, expiry and time go on as in    *)
(* TokenBucket; the clock is not set back.                                 *)
(***************************************************************************)
EXTENDS TokenBucket

VARIABLES
    reader,         \* the call of get_usage
    seen            \* history: what the bucket held at each moment of the call

usageVars == <<vars, reader, seen>>

NotReading == [stage |-> "idle", time |-> 0, remaining |-> 0]

\* Mutant: a time before the last write takes tokens away.
TokensToAddUnclamped(elapsed) == (Capacity * elapsed) \div WindowMs - bucket.units
\* "Only add units not already credited since the stored refill origin."
TokensToAdd(elapsed) == AtLeast0((Capacity * elapsed) \div WindowMs - bucket.units)

\* The hash has no fields while its key does not exist.
CurrentTokens(time) ==
    IF expiry = NoKey
    THEN Capacity
    ELSE Least(Capacity, bucket.tokens + TokensToAdd(AtLeast0(time - bucket.origin)))

UsageInit ==
    /\ Init
    /\ reader = NotReading
    /\ seen = {}

ReadTime ==
    /\ reader.stage \in {"idle", "answered"}
    /\ reader' = [stage |-> "timed", time |-> now, remaining |-> 0]
    /\ seen' = {Tokens}
    /\ UNCHANGED vars

ReadBucket ==
    /\ reader.stage = "timed"
    /\ reader' = [reader EXCEPT !.stage = "answered", !.remaining = CurrentTokens(reader.time)]
    /\ UNCHANGED <<vars, seen>>

ReadFails ==
    /\ reader.stage = "timed"
    /\ reader' = NotReading
    /\ UNCHANGED <<vars, seen>>

Meanwhile ==
    /\ Next
    /\ seen' = IF reader.stage = "timed" THEN seen \cup {Tokens'} ELSE {}
    /\ reader' = IF reader.stage = "timed" THEN reader ELSE NotReading

UsageNext == ReadTime \/ ReadBucket \/ ReadFails \/ Meanwhile

UsageSpec == UsageInit /\ [][UsageNext]_usageVars

-----------------------------------------------------------------------------
\* The client's arithmetic on a time and a hash of two moments answers what the
\* script itself would have found in the bucket at one moment of the call: a
\* check that moves the origin past the time read, a refill or an expiry never
\* makes it promise tokens that were not there.
SnapshotIsTrue == reader.stage = "answered" => reader.remaining \in seen
=============================================================================
