-------------------------- MODULE FixedWindowUsage --------------------------
(***************************************************************************)
(* get_usage for a fixed window: it asks Redis for the time, and in a      *)
(* second round trip for the counter of the window that time is in.        *)
(* Between the two, checks, resets, expiry and time go on as in            *)
(* FixedWindow.                                                            *)
(***************************************************************************)
EXTENDS FixedWindow

VARIABLES
    reader,         \* the call of get_usage
    seen            \* history: what was left at each moment of the call

usageVars == <<vars, reader, seen>>

Idle == [stage |-> "idle", window |-> 0, remaining |-> 0]

\* "max(0, requests - current_requests)", of window w's counter.
Left(w) == AtLeast0(MaxRequests - counter[w])

UsageInit ==
    /\ Init
    /\ reader = Idle
    /\ seen = {}

\* Mutant: the time an earlier call was told is used again.
ReadTimeCached ==
    /\ reader.stage \in {"idle", "answered"}
    /\ reader' = [reader EXCEPT !.stage = "timed"]
    /\ seen' = {Left(Window)}
    /\ UNCHANGED vars
ReadTime ==
    /\ reader.stage \in {"idle", "answered"}
    /\ reader' = [stage |-> "timed", window |-> Window, remaining |-> 0]
    /\ seen' = {Left(Window)}
    /\ UNCHANGED vars

ReadCounter ==
    /\ reader.stage = "timed"
    /\ reader' = [reader EXCEPT !.stage = "answered", !.remaining = Left(reader.window)]
    /\ UNCHANGED <<vars, seen>>

ReadFails ==
    /\ reader.stage = "timed"
    /\ reader' = Idle
    /\ UNCHANGED <<vars, seen>>

Meanwhile ==
    /\ Next
    /\ seen' = IF reader.stage = "timed" THEN seen \cup {Left(Window)'} ELSE {}
    /\ reader' = IF reader.stage = "timed" THEN reader ELSE Idle

UsageNext == ReadTime \/ ReadCounter \/ ReadFails \/ Meanwhile

UsageSpec == UsageInit /\ [][UsageNext]_usageVars

-----------------------------------------------------------------------------
\* Although time and counter are read apart, the answer is what was left at one
\* moment of the call: a window that ends, a key that expires or is deleted and
\* checks in between never make it a number that was never true.
SnapshotIsTrue == reader.stage = "answered" => reader.remaining \in seen
=============================================================================
