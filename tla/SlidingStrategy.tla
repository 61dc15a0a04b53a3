-------------------------- MODULE SlidingStrategy --------------------------
(***************************************************************************)
(* algorithms/sliding_window.py, the strategy class in front of the        *)
(* sliding-window script.  Its check is the script's; its reset asks Redis *)
(* for the time and then deletes, one round trip each, the keys of the     *)
(* windows of a fixed list of lengths.                                     *)
(***************************************************************************)
EXTENDS SlidingWindow, SequencesExt

CONSTANT
    Offsets         \* 0, a minute, an hour and a day in the code

VARIABLES
    resetter,       \* the call of reset: the keys it has still to delete
    old             \* history: what is left of the counters it found

strategyVars == <<vars, resetter, old>>

Idle == [stage |-> "idle", keys |-> <<>>, success |-> FALSE]

KeysOf(offset, t) ==
    IF offset = 0 THEN <<t>> ELSE <<t - (t % offset), t - (t % offset) - offset>>

Keys(t) == FlattenSeq([i \in DOMAIN Offsets |-> KeysOf(Offsets[i], t)])

StrategyInit ==
    /\ Init
    /\ resetter = Idle
    /\ old = [w \in Starts |-> 0]

ReadTime ==
    /\ resetter.stage # "deleting"
    /\ resetter' = [stage |-> "deleting", keys |-> Keys(Second(now)), success |-> FALSE]
    /\ old' = counter
    /\ UNCHANGED vars

StillOld == old' = [w \in Starts |-> IF counter'[w] = 0 THEN 0 ELSE old[w]]

DeleteNext ==
    /\ resetter.stage = "deleting" /\ resetter.keys # <<>>
    /\ LET w == Head(resetter.keys)
       IN  /\ IF w \in Starts THEN Reset(w) ELSE UNCHANGED vars
           /\ resetter' = [resetter EXCEPT
                  !.keys = Tail(@),
                  !.success = @ \/ (w \in Starts /\ counter[w] > 0)]
    /\ StillOld

Return ==
    /\ resetter.stage = "deleting" /\ resetter.keys = <<>>
    /\ resetter' = [resetter EXCEPT !.stage = "returned"]
    /\ UNCHANGED <<vars, old>>

Fail ==
    /\ resetter.stage = "deleting"
    /\ resetter' = Idle
    /\ UNCHANGED <<vars, old>>

Meanwhile ==
    /\ Next
    /\ StillOld
    /\ resetter' = IF resetter.stage = "returned" THEN Idle ELSE resetter

StrategyNext == ReadTime \/ DeleteNext \/ Return \/ Fail \/ Meanwhile

StrategySpec == StrategyInit /\ [][StrategyNext]_strategyVars

-----------------------------------------------------------------------------
\* "This removes both current and previous window data": when reset returns, no
\* counter that is still weighted holds anything charged before the call, with
\* checks, expiry and rollovers between its deletions.
ResetForgets ==
    resetter.stage = "returned" => \A w \in {Window, Previous} \cap Starts : old[w] = 0
=============================================================================
