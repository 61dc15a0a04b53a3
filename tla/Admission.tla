----------------------------- MODULE Admission -----------------------------
(***************************************************************************)
(* Concurrent calls of RateLimiter.check_with_info against one Redis       *)
(* quota: the script call with its NOSCRIPT fallback, commands and replies *)
(* that are lost or late, the fail-open policy and what the metrics count. *)
(*                                                                         *)
(* A check is a member of Checks and is made once.  The decision itself is *)
(* any algorithm's: admit, charging the cost, if it fits what is left of   *)
(* the quota (FixedWindow, TokenBucket and SlidingWindow say what that     *)
(* is); Forget stands for everything that gives quota back.                *)
(***************************************************************************)
EXTENDS Decision, FiniteSets, FiniteSetsExt

CONSTANTS
    Checks,
    Capacity,
    Costs           \* the costs callers ask for

ASSUME AdmissionAssumption ==
    /\ Capacity \in Nat \ {0}
    /\ Costs \subseteq Nat \ {0}

VARIABLES
    failOpen,       \* RateLimitConfig.fail_open
    used,           \* quota spent, as Redis knows it
    cached,         \* Redis's script cache holds the script
    commands,       \* EVALSHA and EVAL commands Redis has not executed yet
    replies,        \* what it answered, not yet received
    check,          \* each check: where it is, its cost, what it answered
    metricsOn,      \* MetricsCollector.enabled
    counted,        \* the Prometheus counters a check moves
    gaps,           \* history: the collector has been off for a while
    runs,           \* history: how often each check's script ran
    charged,        \* history: the checks whose cost Redis charged ...
    forgotten       \* ... and those whose charge was given back since

redisVars == <<used, cached, runs, charged, forgotten>>
limiterVars == <<failOpen, metricsOn, gaps>>
vars == <<redisVars, limiterVars, commands, replies, check, counted>>

Waiting == {"evalsha", "eval"}
Decisions == {"allowed", "denied"}
Answers == Decisions \cup {"bypassed", "error", "misconfigured", "cancelled"}

\* checks_total by result, backend_operations_total by status, the executions
\* by EVALSHA and by EVAL, and the failed EVALSHA and EVAL calls.
Series == Decisions \cup {"bypassed", "success", "error", "evalsha", "eval", "commandError"}

At(k, place) == check[k].at = place
Answered(answer) == {k \in Checks : check[k].answer = answer}

Init ==
    /\ failOpen \in BOOLEAN
    /\ used = 0
    /\ cached \in BOOLEAN
    /\ commands = {}
    /\ replies = {}
    /\ check = [k \in Checks |-> [at |-> "new", cost |-> 0, answer |-> "none"]]
    /\ metricsOn \in IF failOpen THEN {TRUE} ELSE BOOLEAN
    /\ counted = [s \in Series |-> 0]
    /\ gaps = ~metricsOn
    /\ runs = [k \in Checks |-> 0]
    /\ charged = {}
    /\ forgotten = {}

Move(k, place) == check' = [check EXCEPT ![k].at = place]
Answer(k, c, answer) == check' = [check EXCEPT ![k] = [at |-> "done", cost |-> c, answer |-> answer]]

-----------------------------------------------------------------------------
(* Redis.                                                                  *)

\* Costs above capacity are clamped to one above it: never admitted either way.
Sent(c) == Clamped(c, Capacity)

Fits(c) == used + Sent(c) <= Capacity

\* Mutant: a denied request is charged too.
ChargesDenied(k) ==
    /\ used' = used + Sent(check[k].cost)
    /\ charged' = IF Fits(check[k].cost) THEN charged \cup {k} ELSE charged
Charge(k) ==
    IF Fits(check[k].cost)
    THEN used' = used + check[k].cost /\ charged' = charged \cup {k}
    ELSE UNCHANGED <<used, charged>>

\* Nobody reads the answer to a check that gave up.
Says(k, what) ==
    replies' = IF check[k].at \in Waiting
               THEN replies \cup {[check |-> k, says |-> what]}
               ELSE replies
Unread(k) == replies' = {r \in replies : r.check # k}

\* Redis executes a command, however late; EVAL also loads the script.
Execute(m) ==
    /\ m \in commands
    /\ commands' = commands \ {m}
    /\ IF m.name = "evalsha" /\ ~cached
       THEN /\ Says(m.check, "noscript")
            /\ UNCHANGED redisVars
       ELSE /\ Charge(m.check)
            /\ cached' = TRUE
            /\ runs' = [runs EXCEPT ![m.check] = @ + 1]
            /\ Says(m.check, IF Fits(check[m.check].cost) THEN "allowed" ELSE "denied")
            /\ UNCHANGED forgotten
    /\ UNCHANGED <<limiterVars, check, counted>>

\* SCRIPT FLUSH, or a restart, or a failover.
LoseScripts ==
    /\ cached
    /\ cached' = FALSE
    /\ UNCHANGED <<used, runs, charged, forgotten, limiterVars, commands, replies, check, counted>>

\* A new window, a refill, a reset, or a restart without persistence.
Forget ==
    /\ used > 0
    /\ used' = 0
    /\ forgotten' = charged
    /\ UNCHANGED <<cached, runs, charged, limiterVars, commands, replies, check, counted>>

-----------------------------------------------------------------------------
(* The limiter.                                                            *)

\* Every recorder of the collector begins by asking whether it is enabled.
Count(S) ==
    counted' = [s \in Series |-> counted[s] + IF metricsOn /\ s \in S THEN 1 ELSE 0]

\* The script is called by its digest, or by its text if it was not registered.
Begin(k, c, name) ==
    /\ At(k, "new")
    /\ check' = [check EXCEPT ![k].at = name, ![k].cost = c]
    /\ commands' = commands \cup {[check |-> k, name |-> name]}
    /\ UNCHANGED <<redisVars, limiterVars, replies, counted>>

\* Mutant: the digest is tried again.
FallBackToDigest(k) ==
    /\ At(k, "evalsha")
    /\ [check |-> k, says |-> "noscript"] \in replies
    /\ replies' = replies \ {[check |-> k, says |-> "noscript"]}
    /\ commands' = commands \cup {[check |-> k, name |-> "evalsha"]}
    /\ Count({"commandError"})
    /\ UNCHANGED <<redisVars, limiterVars, check>>
\* Mutant: any failed EVALSHA is repeated as EVAL.
FallBackOnAnyError(k) ==
    /\ At(k, "evalsha")
    /\ commands' = commands \cup {[check |-> k, name |-> "eval"]}
    /\ Move(k, "eval")
    /\ Count({"commandError"})
    /\ UNCHANGED <<redisVars, limiterVars, replies>>
\* NoScriptError, and nothing else, is followed by EVAL.
FallBack(k) ==
    /\ At(k, "evalsha")
    /\ [check |-> k, says |-> "noscript"] \in replies
    /\ replies' = replies \ {[check |-> k, says |-> "noscript"]}
    /\ commands' = commands \cup {[check |-> k, name |-> "eval"]}
    /\ Move(k, "eval")
    /\ Count({"commandError"})
    /\ UNCHANGED <<redisVars, limiterVars>>

\* Mutant: only the call by digest is recorded as an execution.
RecordedIfCached(k, d) == {d, "success"} \cup IF At(k, "evalsha") THEN {"evalsha"} ELSE {}
\* A decision moves its result, the operation and the call that brought it.
Recorded(k, d) == {d, "success", check[k].at}

Receive(k, d) ==
    /\ check[k].at \in Waiting
    /\ [check |-> k, says |-> d] \in replies
    /\ replies' = replies \ {[check |-> k, says |-> d]}
    /\ Answer(k, check[k].cost, d)
    /\ Count(Recorded(k, d))
    /\ UNCHANGED <<redisVars, limiterVars, commands>>

\* Mutant: a bypass answers like an admission.
FailedAsAllowed(k, c, S) ==
    Answer(k, c, IF failOpen THEN "allowed" ELSE "error") /\ Count(S)
\* Mutant: an oversized request is let through as well.
FailedOversized(k, c, S) ==
    IF ~failOpen
    THEN Answer(k, c, "error") /\ Count(S)
    ELSE Answer(k, c, "bypassed") /\ Count(S \cup {"bypassed"})
\* What becomes of a check for c that ran into a BackendError, which the
\* recorders of S have counted on its way up.
Failed(k, c, S) ==
    IF ~failOpen \/ c > Capacity
    THEN Answer(k, c, "error") /\ Count(S)
    ELSE IF ~metricsOn
    THEN Answer(k, c, "misconfigured") /\ Count(S)
    ELSE Answer(k, c, "bypassed") /\ Count(S \cup {"bypassed"})

\* Nothing is sent: connecting fails, or the operation finds no connection.
BeginFails(k, c) ==
    /\ At(k, "new")
    /\ \E S \in {{}, {"error"}} : Failed(k, c, S)
    /\ UNCHANGED <<redisVars, limiterVars, commands, replies>>

\* The connection breaks or times out; the command may still be executed, or
\* already have been.
CommandFails(k) ==
    /\ check[k].at \in Waiting
    /\ Failed(k, check[k].cost, {"commandError", "error"})
    /\ Unread(k)
    /\ UNCHANGED <<redisVars, limiterVars, commands>>

\* Cancellation is no BackendError and is never turned into an answer.
Cancel(k) ==
    /\ check[k].at \in Waiting
    /\ Answer(k, check[k].cost, "cancelled")
    /\ Unread(k)
    /\ UNCHANGED <<redisVars, limiterVars, commands, counted>>

\* The application disables or enables its metrics collector.
ToggleMetrics ==
    /\ metricsOn' = ~metricsOn
    /\ gaps' = TRUE
    /\ UNCHANGED <<redisVars, failOpen, commands, replies, check, counted>>

-----------------------------------------------------------------------------
Hear(k) == FallBack(k) \/ (\E d \in Decisions : Receive(k, d)) \/ CommandFails(k)

Next ==
    \/ \E k \in Checks, c \in Costs :
          \/ \E name \in Waiting : Begin(k, c, name)
          \/ BeginFails(k, c)
    \/ \E k \in Checks : Hear(k) \/ Cancel(k)
    \/ \E m \in commands : Execute(m)
    \/ LoseScripts
    \/ Forget
    \/ ToggleMetrics

Spec == Init /\ [][Next]_vars

\* A sent command is answered, or its socket times out: no fairness of Redis
\* is needed for a check to end.
FairSpec == Spec /\ \A k \in Checks : WF_vars(Hear(k))

-----------------------------------------------------------------------------
TypeOK ==
    /\ failOpen \in BOOLEAN
    /\ used \in 0..Capacity
    /\ cached \in BOOLEAN
    /\ commands \subseteq [check : Checks, name : Waiting]
    /\ replies \subseteq [check : Checks, says : Decisions \cup {"noscript"}]
    /\ check \in [Checks -> [at : {"new", "done"} \cup Waiting,
                             cost : Costs \cup {0}, answer : Answers \cup {"none"}]]
    /\ metricsOn \in BOOLEAN
    /\ gaps \in BOOLEAN
    /\ counted \in [Series -> Nat]
    /\ runs \in [Checks -> Nat]
    /\ forgotten \subseteq charged /\ charged \subseteq Checks

CostOf(S) == MapThenSumSet(LAMBDA k : check[k].cost, S)

\* The script of a check runs at most once, whatever is lost, late, repeated
\* as EVAL or cancelled: the fallback never charges a request twice.
ChargedAtMostOnce == \A k \in Checks : runs[k] <= 1

\* A confirmed answer is what Redis decided: an allowed check was charged, a
\* denied one was not, and neither a bypass nor an error claims to know.
AnswersAreTrue ==
    /\ Answered("allowed") \subseteq charged
    /\ Answered("denied") \cap charged = {}

\* "All three algorithms charge only admitted requests": what is spent is the
\* cost of the charged checks, so the confirmed admissions stay within the
\* quota, however many checks were bypassed meanwhile.
UsedIsCharged ==
    /\ used = CostOf(charged \ forgotten)
    /\ CostOf(Answered("allowed") \ forgotten) <= Capacity

UnderWay == {k \in Checks : check[k].at \in Waiting}

\* No uncounted request is let through: every bypass is in the metrics, even
\* when the collector is disabled and enabled while checks are under way.
BypassesCounted == counted["bypassed"] = Cardinality(Answered("bypassed"))

\* The series, counted in three places, tell one story: a confirmed decision is
\* one successful operation and one script execution, whichever call it took.
SeriesAgree ==
    LET decided == counted["allowed"] + counted["denied"]
    IN  counted["success"] = decided /\ counted["evalsha"] + counted["eval"] = decided

\* "These counters cannot establish whether a decision was applied if its reply
\* was lost": but they bound how many were.  With a collector that was always
\* on, a script that ran is counted as an execution, or its check ended in a
\* counted error, was cancelled or is still waiting.
LostRepliesBounded ==
    ~gaps =>
        Cardinality({k \in Checks : runs[k] > 0})
            <= counted["evalsha"] + counted["eval"] + counted["error"]
                 + Cardinality(Answered("cancelled") \cup UnderWay)

\* The collector's counters are a true ledger of the checks.
LedgerAddsUp == BypassesCounted /\ SeriesAgree /\ LostRepliesBounded

\* A cost above capacity never passes: not clamped in a script, not by the
\* fallback, and not as a bypass when the backend that would refuse it is down.
OversizedNeverPasses ==
    \A k \in Checks : check[k].cost > Capacity =>
        k \notin charged /\ check[k].answer \notin {"allowed", "bypassed"}

\* Every check under way ends: NOSCRIPT cannot send it round in circles.
EveryCheckEnds == \A k \in Checks : check[k].at \in Waiting ~> At(k, "done")
=============================================================================
