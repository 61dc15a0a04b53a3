------------------------- MODULE SlidingWindowUsage -------------------------
(***************************************************************************)
(* get_usage for a sliding window: it asks Redis for the time, then for    *)
(* the counter of the window that time is in, then for the one before, in  *)
(* three round trips.  Between them, checks, resets, expiry and time go on *)
(* as in SlidingWindow, so the two counters and the weight may be of three *)
(* different moments.                                                      *)
(***************************************************************************)
EXTENDS SlidingWindow, Decision

VARIABLES
    reader,         \* the call of get_usage
    highest         \* history: the highest estimate between the two first replies

usageVars == <<vars, reader, highest>>

NotReading == [stage |-> "idle", second |-> 0, current |-> 0, estimate |-> 0]

Higher(a, b) == IF a > b THEN a ELSE b

UsageInit ==
    /\ Init
    /\ reader = NotReading
    /\ highest = 0

ReadTime ==
    /\ reader.stage \in {"idle", "answered"}
    /\ reader' = [NotReading EXCEPT !.stage = "timed", !.second = Second(now)]
    /\ highest' = Estimate
    /\ UNCHANGED vars

\* The window the time read is in.
ReadWindow == reader.second - (reader.second % WindowSeconds)

ReadCurrent ==
    /\ reader.stage = "timed"
    /\ reader' = [reader EXCEPT !.stage = "current", !.current = counter[ReadWindow]]
    /\ UNCHANGED <<vars, highest>>

\* Mutant: the weight is that of the part of the window that is over.
PreviousShareElapsed ==
    Weighted(counter[ReadWindow - WindowSeconds], reader.second - ReadWindow)
\* The previous window's count by the weight of the time read.
PreviousShare ==
    Weighted(counter[ReadWindow - WindowSeconds], WindowEnd(ReadWindow) - reader.second)

ReadPrevious ==
    /\ reader.stage = "current"
    /\ reader' = [reader EXCEPT !.stage = "answered",
                                !.estimate = reader.current + PreviousShare]
    /\ UNCHANGED <<vars, highest>>

ReadFails ==
    /\ reader.stage \in {"timed", "current"}
    /\ reader' = NotReading
    /\ UNCHANGED <<vars, highest>>

\* What was used before a reset is not claimed any more.
Meanwhile ==
    /\ Next
    /\ reader' = IF reader.stage = "answered" THEN NotReading ELSE reader
    /\ highest' = IF \E w \in Starts : Reset(w)
                  THEN 0
                  ELSE IF reader.stage = "timed" THEN Higher(highest, Estimate') ELSE highest

UsageNext == ReadTime \/ ReadCurrent \/ ReadPrevious \/ ReadFails \/ Meanwhile

UsageSpec == UsageInit /\ [][UsageNext]_usageVars

-----------------------------------------------------------------------------
(* What callers are told from the estimate, in whole requests.             *)

Requests == WholeRequests(MaxRequests)

\* Mutant: the use is rounded down before it is subtracted.
RemainingRoundedFirst == AtLeast0(Requests - WholeRequests(reader.estimate))
\* RateLimiter.get_usage.
Remaining == WholeRequests(AtLeast0(Scaled(Requests) - reader.estimate))

\* SlidingWindow.get_usage of the strategy: the same three replies and weight,
\* but rounded before they are subtracted.
StrategyRemaining == AtLeast0(Requests - WholeRequests(reader.estimate))

\* A call that ends in the window it began in is never optimistic, though its
\* weight and its two counters are of three moments: it reports at least as
\* much use as there was at any moment, since a reset if one intervened, up to
\* the first counter it read.
NeverOptimistic ==
    reader.stage = "answered" /\ ReadWindow = Window => reader.estimate >= highest

\* As many requests as such a call says remain would have been admitted at once
\* at any of those moments, rounding and torn reads included.  Of what the
\* strategy says remains, that is true but for the last one.
PromisesKept ==
    reader.stage = "answered" /\ ReadWindow = Window =>
        /\ Remaining > 0 => highest + Scaled(Remaining) <= MaxRequests
        /\ StrategyRemaining > 0 => highest + Scaled(StrategyRemaining - 1) <= MaxRequests
=============================================================================
