-------------------------- MODULE AdmissionProofs --------------------------
(***************************************************************************)
(* Proofs about concurrent checks, for every set of checks, capacity and   *)
(* set of costs.                                                           *)
(***************************************************************************)
EXTENDS Admission, ArithmeticProofs, FiniteSetTheorems

\* A check that has not begun has left no trace.
NewIsUntouched ==
    \A k \in Checks : At(k, "new") =>
        /\ \A m \in commands : m.check # k
        /\ \A r \in replies : r.check # k
        /\ runs[k] = 0
        /\ check[k].answer = "none"

\* A command in flight is its check's only one, and its script has not run.
PendingHasNotRun ==
    /\ \A m \in commands : runs[m.check] = 0
    /\ \A m, n \in commands : m.check = n.check => m = n

\* A check told NOSCRIPT has nothing in flight and has not run.
NoScriptHasNotRun ==
    \A r \in replies : r.says = "noscript" =>
        /\ runs[r.check] = 0
        /\ \A m \in commands : m.check # r.check

\* A decision, on its way or received, is what the script did when it ran.
DecisionsHold ==
    /\ \A k \in charged : runs[k] = 1
    /\ \A r \in replies :
        /\ r.says = "allowed" => r.check \in charged
        /\ r.says = "denied" => r.check \notin charged /\ runs[r.check] = 1
    /\ \A k \in Checks :
        /\ check[k].answer = "allowed" => k \in charged
        /\ check[k].answer = "denied" => k \notin charged /\ runs[k] = 1

OversizedUncharged == \A k \in charged : check[k].cost <= Capacity
OversizedUnanswered ==
    \A k \in Checks : check[k].answer \in {"allowed", "bypassed"} => check[k].cost <= Capacity

IInv ==
    /\ TypeOK
    /\ ChargedAtMostOnce
    /\ NewIsUntouched
    /\ PendingHasNotRun
    /\ NoScriptHasNotRun
    /\ DecisionsHold
    /\ OversizedUncharged
    /\ OversizedUnanswered
-----------------------------------------------------------------------------
LEMMA Amounts ==
    ASSUME NEW c \in Costs \cup {0}
    PROVE  c \in Nat /\ Capacity \in Nat
<1>1. Capacity \in Nat
  BY AdmissionAssumption DEF AdmissionAssumption
<1>2. Costs \subseteq Nat
  BY AdmissionAssumption, Zenon DEF AdmissionAssumption
<1> QED BY <1>1, <1>2

LEMMA InitIInv == Init => IInv
<1> SUFFICES ASSUME Init PROVE IInv
  OBVIOUS
<1> USE AdmissionAssumption DEF AdmissionAssumption
<1>1. TypeOK
  <2>1. metricsOn \in BOOLEAN /\ gaps \in BOOLEAN /\ failOpen \in BOOLEAN /\ cached \in BOOLEAN
    BY Zenon DEF Init
  <2>2. /\ used \in 0..Capacity
        /\ runs \in [Checks -> Nat]
        /\ counted \in [Series -> Nat]
    BY DEF Init
  <2>3. check \in [Checks -> [at : {"new", "done"} \cup Waiting,
                             cost : Costs \cup {0}, answer : Answers \cup {"none"}]]
    BY DEF Init
  <2>4. commands = {} /\ replies = {} /\ charged = {} /\ forgotten = {}
    BY DEF Init
  <2> QED BY <2>1, <2>2, <2>3, <2>4 DEF TypeOK
<1>2. ChargedAtMostOnce
  BY DEF Init, ChargedAtMostOnce
<1>3. NewIsUntouched /\ PendingHasNotRun /\ NoScriptHasNotRun
  BY DEF Init, NewIsUntouched, PendingHasNotRun, NoScriptHasNotRun
<1>4. DecisionsHold /\ OversizedUncharged /\ OversizedUnanswered
  BY DEF Init, DecisionsHold, OversizedUncharged, OversizedUnanswered
<1> QED BY <1>1, <1>2, <1>3, <1>4 DEF IInv

LEMMA BeginIInv ==
    ASSUME IInv, NEW k \in Checks, NEW c \in Costs, NEW name \in Waiting, Begin(k, c, name)
    PROVE  IInv'
<1> USE AdmissionAssumption DEF AdmissionAssumption, IInv, Begin, At, redisVars, limiterVars
<1>0. c \in Nat /\ check' \in [Checks -> [at : {"new", "done"} \cup Waiting,
                             cost : Costs \cup {0}, answer : Answers \cup {"none"}]]
  BY DEF TypeOK
<1>1. TypeOK'
  BY <1>0 DEF TypeOK
<1>2. ChargedAtMostOnce'
  BY DEF ChargedAtMostOnce
<1>3. NewIsUntouched'
  BY DEF TypeOK, NewIsUntouched, Waiting
<1>4. PendingHasNotRun'
  BY DEF NewIsUntouched, PendingHasNotRun
<1>5. NoScriptHasNotRun'
  BY DEF NewIsUntouched, NoScriptHasNotRun
<1>6. DecisionsHold'
  BY DEF TypeOK, DecisionsHold
<1>7. OversizedUncharged'
  BY DEF TypeOK, OversizedUncharged, NewIsUntouched, DecisionsHold
<1>8. OversizedUnanswered'
  BY DEF TypeOK, OversizedUnanswered, NewIsUntouched
<1> QED BY <1>1, <1>2, <1>3, <1>4, <1>5, <1>6, <1>7, <1>8
\* Every way in which a check stops waiting: it answers, and nothing else that
\* IInv speaks of changes but the replies it leaves unread.
LEMMA AnswerIInv ==
    ASSUME IInv, NEW k \in Checks, NEW c \in Costs \cup {0}, NEW a \in Answers,
           Answer(k, c, a),
           At(k, "new") \/ c = check[k].cost,
           a \in {"allowed", "bypassed"} => c <= Capacity,
           a = "allowed" => k \in charged,
           a = "denied" => k \notin charged /\ runs[k] = 1,
           counted' \in [Series -> Nat],
           replies' \in SUBSET replies,
           UNCHANGED <<redisVars, limiterVars, commands>>
    PROVE  IInv'
<1> USE AdmissionAssumption DEF AdmissionAssumption, IInv, Answer, At, redisVars, limiterVars
<1>0. c \in Nat /\ check' \in [Checks -> [at : {"new", "done"} \cup Waiting,
                             cost : Costs \cup {0}, answer : Answers \cup {"none"}]]
  BY DEF TypeOK
<1>1. TypeOK'
  BY <1>0 DEF TypeOK
<1>2. ChargedAtMostOnce'
  BY DEF ChargedAtMostOnce
<1>3. NewIsUntouched'
  BY DEF TypeOK, NewIsUntouched
<1>4. PendingHasNotRun' /\ NoScriptHasNotRun'
  BY DEF PendingHasNotRun, NoScriptHasNotRun
<1>5. DecisionsHold'
  BY DEF TypeOK, DecisionsHold
<1>6. OversizedUncharged'
  BY DEF TypeOK, OversizedUncharged, NewIsUntouched, DecisionsHold
<1>7. OversizedUnanswered'
  BY DEF TypeOK, OversizedUnanswered
<1> QED BY <1>1, <1>2, <1>3, <1>4, <1>5, <1>6, <1>7

\* What the collector counts stays a number.
LEMMA CountTyped ==
    ASSUME TypeOK, NEW S, Count(S)
    PROVE  counted' \in [Series -> Nat]
BY DEF TypeOK, Count

LEMMA FailedIInv ==
    ASSUME IInv, NEW k \in Checks, NEW c \in Costs \cup {0}, NEW S, Failed(k, c, S),
           At(k, "new") \/ c = check[k].cost,
           replies' \in SUBSET replies,
           UNCHANGED <<redisVars, limiterVars, commands>>
    PROVE  IInv'
<1>1. c \in Nat /\ Capacity \in Nat
  BY Amounts
<1>0. TypeOK
  BY DEF IInv
<1>2. CASE ~failOpen \/ c > Capacity
  <2>1. Answer(k, c, "error") /\ Count(S)
    BY <1>2 DEF Failed
  <2>2. counted' \in [Series -> Nat]
    BY <1>0, <2>1, CountTyped
  <2> QED BY <2>1, <2>2, AnswerIInv DEF Answers
<1>3. CASE ~(~failOpen \/ c > Capacity) /\ ~metricsOn
  <2>1. Answer(k, c, "misconfigured") /\ Count(S)
    BY <1>3 DEF Failed
  <2>2. counted' \in [Series -> Nat]
    BY <1>0, <2>1, CountTyped
  <2> QED BY <2>1, <2>2, AnswerIInv DEF Answers
<1>4. CASE ~(~failOpen \/ c > Capacity) /\ metricsOn
  <2>1. Answer(k, c, "bypassed") /\ Count(S \cup {"bypassed"})
    BY <1>4 DEF Failed
  <2>2. counted' \in [Series -> Nat]
    BY <1>0, <2>1, CountTyped
  <2>3. c <= Capacity
    BY <1>1, <1>4
  <2> QED BY <2>1, <2>2, <2>3, AnswerIInv DEF Answers
<1> QED BY <1>2, <1>3, <1>4

LEMMA FallBackIInv == ASSUME IInv, NEW k \in Checks, FallBack(k) PROVE IInv'
<1> USE DEF IInv, FallBack, Move, At, redisVars, limiterVars
<1> DEFINE heard == [check |-> k, says |-> "noscript"]
           sent == [check |-> k, name |-> "eval"]
<1>0. /\ check[k].at = "evalsha"
      /\ heard \in replies
      /\ replies' = replies \ {heard}
      /\ commands' = commands \cup {sent}
      /\ check' = [check EXCEPT ![k].at = "eval"]
      /\ Count({"commandError"})
      /\ UNCHANGED <<used, cached, runs, charged, forgotten, failOpen, metricsOn, gaps>>
  OBVIOUS
<1>1. runs[k] = 0 /\ \A m \in commands : m.check # k
  BY <1>0 DEF NoScriptHasNotRun
<1>2. TypeOK'
  <2>1. counted' \in [Series -> Nat]
    BY <1>0, CountTyped
  <2> QED BY <1>0, <2>1 DEF TypeOK, Waiting
<1>3. ChargedAtMostOnce'
  BY <1>0 DEF ChargedAtMostOnce
<1>4. NewIsUntouched'
  BY <1>0 DEF TypeOK, NewIsUntouched
<1>5. PendingHasNotRun'
  BY <1>0, <1>1 DEF PendingHasNotRun
<1>6. NoScriptHasNotRun'
  <2> SUFFICES ASSUME NEW r \in replies', r.says = "noscript"
               PROVE  runs[r.check] = 0 /\ \A m \in commands' : m.check # r.check
    BY <1>0 DEF NoScriptHasNotRun
  <2>1. r \in replies /\ r # heard
    BY <1>0
  <2>2. r.check # k
    BY <2>1 DEF TypeOK
  <2> QED BY <1>0, <2>1, <2>2 DEF NoScriptHasNotRun
<1>7. DecisionsHold'
  BY <1>0 DEF TypeOK, DecisionsHold
<1>8. OversizedUncharged' /\ OversizedUnanswered'
  BY <1>0 DEF TypeOK, OversizedUncharged, OversizedUnanswered
<1> QED BY <1>2, <1>3, <1>4, <1>5, <1>6, <1>7, <1>8

LEMMA ReceiveIInv ==
    ASSUME IInv, NEW k \in Checks, NEW d \in Decisions, Receive(k, d) PROVE IInv'
<1>1. /\ [check |-> k, says |-> d] \in replies
      /\ replies' \in SUBSET replies
      /\ Answer(k, check[k].cost, d) /\ Count(Recorded(k, d))
      /\ UNCHANGED <<redisVars, limiterVars, commands>>
  BY DEF Receive
<1>2. d = "allowed" => k \in charged
  BY <1>1 DEF IInv, DecisionsHold
<1>3. d = "denied" => k \notin charged /\ runs[k] = 1
  BY <1>1 DEF IInv, DecisionsHold
<1>4. check[k].cost \in Costs \cup {0} /\ d \in Answers
  BY DEF IInv, TypeOK, Answers
<1>5. d = "allowed" => check[k].cost <= Capacity
  BY <1>2 DEF IInv, OversizedUncharged
<1>6. counted' \in [Series -> Nat]
  BY <1>1, CountTyped DEF IInv
<1> QED BY <1>1, <1>2, <1>3, <1>4, <1>5, <1>6, AnswerIInv DEF Decisions

LEMMA EndIInv ==
    ASSUME IInv, NEW k \in Checks, CommandFails(k) \/ Cancel(k) PROVE IInv'
<1>0. check[k].cost \in Costs \cup {0} /\ replies' \in SUBSET replies
  BY DEF IInv, TypeOK, CommandFails, Cancel, Unread
<1>1. CASE CommandFails(k)
  BY <1>0, <1>1, FailedIInv DEF CommandFails
<1>2. CASE Cancel(k)
  <2>1. /\ Answer(k, check[k].cost, "cancelled") /\ UNCHANGED counted
        /\ UNCHANGED <<redisVars, limiterVars, commands>>
    BY <1>2 DEF Cancel, redisVars, limiterVars
  <2>2. counted' \in [Series -> Nat]
    BY <2>1 DEF IInv, TypeOK
  <2>3. "cancelled" \in Answers
    BY DEF Answers
  <2> QED BY <1>0, <2>1, <2>2, <2>3, AnswerIInv
<1> QED BY <1>1, <1>2

\* The script of a command runs, or Redis does not have it.
LEMMA ExecuteIInv == ASSUME IInv, NEW m \in commands, Execute(m) PROVE IInv'
<1> DEFINE k == m.check
<1> USE AdmissionAssumption DEF AdmissionAssumption, IInv, At, redisVars, limiterVars
<1>0. /\ k \in Checks /\ runs[k] = 0 /\ k \notin charged
      /\ commands' = commands \ {m}
      /\ \A n \in commands' : n.check # k
      /\ \A r \in replies : r.check = k => r.says # "noscript"
      /\ UNCHANGED <<failOpen, metricsOn, gaps, check, counted, forgotten>>
  BY DEF Execute, TypeOK, PendingHasNotRun, DecisionsHold, NoScriptHasNotRun
<1>1. CASE m.name = "evalsha" /\ ~cached
  <2>1. /\ replies' \in SUBSET (replies \cup {[check |-> k, says |-> "noscript"]})
        /\ check[k].at = "new" => replies' = replies
        /\ UNCHANGED <<used, cached, runs, charged>>
    BY <1>1 DEF Execute, Says, Waiting
  <2>2. TypeOK'
    BY <1>0, <2>1 DEF TypeOK
  <2>3. ChargedAtMostOnce' /\ NewIsUntouched'
    BY <1>0, <2>1 DEF ChargedAtMostOnce, NewIsUntouched
  <2>4. PendingHasNotRun' /\ NoScriptHasNotRun'
    BY <1>0, <2>1 DEF PendingHasNotRun, NoScriptHasNotRun
  <2>5. DecisionsHold'
    BY <1>0, <2>1 DEF DecisionsHold
  <2>6. OversizedUncharged' /\ OversizedUnanswered'
    BY <1>0, <2>1 DEF OversizedUncharged, OversizedUnanswered
  <2> QED BY <2>2, <2>3, <2>4, <2>5, <2>6
<1>2. CASE ~(m.name = "evalsha" /\ ~cached)
  <2> DEFINE fits == Fits(check[k].cost)
             says == [check |-> k, says |-> IF fits THEN "allowed" ELSE "denied"]
  <2>1. /\ Charge(k)
        /\ cached' = TRUE
        /\ runs' = [runs EXCEPT ![k] = @ + 1]
        /\ replies' \in SUBSET (replies \cup {says})
        /\ check[k].at = "new" => replies' = replies
    BY <1>2 DEF Execute, Says, Waiting
  <2>2. /\ charged' = IF fits THEN charged \cup {k} ELSE charged
        /\ fits => check[k].cost <= Capacity
        /\ used' \in 0..Capacity
    <3>1. check[k].cost \in Nat /\ used \in 0..Capacity
      BY <1>0 DEF TypeOK
    <3>2. CASE fits
      <4>1. check[k].cost <= Capacity /\ used + check[k].cost <= Capacity
        BY <3>1, <3>2 DEF Fits, Sent, Clamped
      <4> QED BY <2>1, <3>1, <3>2, <4>1 DEF Charge
    <3>3. CASE ~fits
      BY <2>1, <3>1, <3>3 DEF Charge
    <3> QED BY <3>2, <3>3
  <2>3. runs' \in [Checks -> Nat] /\ runs'[k] = 1 /\ \A j \in Checks \ {k} : runs'[j] = runs[j]
    BY <1>0, <2>1 DEF TypeOK
  <2>4. TypeOK'
    BY <1>0, <2>1, <2>2, <2>3 DEF TypeOK, Decisions
  <2>5. ChargedAtMostOnce'
    BY <2>3 DEF ChargedAtMostOnce
  <2>6. NewIsUntouched'
    BY <1>0, <2>1, <2>3 DEF NewIsUntouched
  <2>7. PendingHasNotRun'
    BY <1>0, <2>3 DEF PendingHasNotRun, TypeOK
  <2>8. NoScriptHasNotRun'
    <3> SUFFICES ASSUME NEW r \in replies', r.says = "noscript"
                 PROVE  runs'[r.check] = 0 /\ \A n \in commands' : n.check # r.check
      BY DEF NoScriptHasNotRun
    <3>1. r \in replies /\ r.check \in Checks \ {k}
      BY <1>0, <2>1 DEF TypeOK
    <3> QED BY <1>0, <2>3, <3>1 DEF NoScriptHasNotRun
  <2>9. DecisionsHold'
    <3>1. \A j \in charged' : runs'[j] = 1
      BY <1>0, <2>2, <2>3 DEF DecisionsHold, TypeOK
    <3>2. ASSUME NEW r \in replies'
          PROVE  /\ r.says = "allowed" => r.check \in charged'
                 /\ r.says = "denied" => r.check \notin charged' /\ runs'[r.check] = 1
      <4>1. CASE r \in replies
        BY <1>0, <2>2, <2>3, <4>1 DEF DecisionsHold, TypeOK
      <4>2. CASE r = says
        BY <1>0, <2>2, <2>3, <4>2
      <4> QED BY <2>1, <4>1, <4>2
    <3>3. ASSUME NEW j \in Checks
          PROVE  /\ check[j].answer = "allowed" => j \in charged'
                 /\ check[j].answer = "denied" => j \notin charged' /\ runs'[j] = 1
      BY <1>0, <2>2, <2>3 DEF DecisionsHold
    <3> QED BY <1>0, <3>1, <3>2, <3>3 DEF DecisionsHold
  <2>10. OversizedUncharged' /\ OversizedUnanswered'
    BY <1>0, <2>2 DEF OversizedUncharged, OversizedUnanswered
  <2> QED BY <2>4, <2>5, <2>6, <2>7, <2>8, <2>9, <2>10
<1> QED BY <1>1, <1>2

\* What happens to Redis or to the collector behind the checks' backs.
LEMMA AsideIInv == ASSUME IInv, LoseScripts \/ Forget \/ ToggleMetrics PROVE IInv'
<1> USE AdmissionAssumption DEF AdmissionAssumption, IInv, At, redisVars, limiterVars
<1>1. /\ used' \in 0..Capacity /\ cached' \in BOOLEAN /\ metricsOn' \in BOOLEAN /\ gaps' \in BOOLEAN
      /\ forgotten' \subseteq charged'
      /\ UNCHANGED <<runs, charged, failOpen, commands, replies, check, counted>>
  <2>1. CASE LoseScripts
    BY <2>1 DEF LoseScripts, TypeOK
  <2>2. CASE Forget
    <3>1. used' = 0 /\ forgotten' = charged /\ UNCHANGED <<cached, metricsOn, gaps, charged>>
      BY <2>2 DEF Forget
    <3> QED BY <2>2, <3>1 DEF Forget, TypeOK
  <2>3. CASE ToggleMetrics
    <3>1. metricsOn' \in BOOLEAN /\ gaps' \in BOOLEAN
      BY <2>3 DEF ToggleMetrics
    <3> QED BY <2>3, <3>1 DEF ToggleMetrics, TypeOK
  <2> QED BY <2>1, <2>2, <2>3
<1>2. TypeOK'
  BY <1>1 DEF TypeOK
<1>3. ChargedAtMostOnce' /\ NewIsUntouched' /\ PendingHasNotRun' /\ NoScriptHasNotRun'
  BY <1>1 DEF ChargedAtMostOnce, NewIsUntouched, PendingHasNotRun, NoScriptHasNotRun
<1>4. DecisionsHold' /\ OversizedUncharged' /\ OversizedUnanswered'
  BY <1>1 DEF DecisionsHold, OversizedUncharged, OversizedUnanswered
<1> QED BY <1>2, <1>3, <1>4

LEMMA NextIInv == IInv /\ [Next]_vars => IInv'
<1> SUFFICES ASSUME IInv, [Next]_vars PROVE IInv'
  OBVIOUS
<1>1. ASSUME NEW k \in Checks, NEW c \in Costs, NEW name \in Waiting, Begin(k, c, name)
      PROVE  IInv'
  BY <1>1, BeginIInv
<1>2. ASSUME NEW k \in Checks, NEW c \in Costs, BeginFails(k, c)
      PROVE  IInv'
  BY <1>2, FailedIInv DEF BeginFails
<1>3. ASSUME NEW k \in Checks, Hear(k) \/ Cancel(k)
      PROVE  IInv'
  BY <1>3, FallBackIInv, ReceiveIInv, EndIInv DEF Hear
<1>4. ASSUME NEW m \in commands, Execute(m)
      PROVE  IInv'
  BY <1>4, ExecuteIInv
<1>5. CASE LoseScripts \/ Forget \/ ToggleMetrics
  BY <1>5, AsideIInv
<1>6. CASE UNCHANGED vars
  BY <1>6 DEF vars, redisVars, limiterVars, IInv, At, TypeOK, ChargedAtMostOnce, NewIsUntouched,
              PendingHasNotRun, NoScriptHasNotRun, DecisionsHold, OversizedUncharged,
              OversizedUnanswered
<1> QED BY <1>1, <1>2, <1>3, <1>4, <1>5, <1>6 DEF Next

LEMMA Inductive == Spec => []IInv
BY InitIInv, NextIInv, PTL DEF Spec

-----------------------------------------------------------------------------
\* The quota, the commands in flight, the replies and the answers stay what
\* they are said to be; in particular Redis never spends more than the capacity.
THEOREM TypeCorrect == Spec => []TypeOK
<1>1. IInv => TypeOK
  BY DEF IInv
<1> QED BY <1>1, Inductive, PTL

\* No loss, delay, cancellation or fallback makes a check's script run twice.
THEOREM ChargedOnce == Spec => []ChargedAtMostOnce
<1>1. IInv => ChargedAtMostOnce
  BY DEF IInv
<1> QED BY <1>1, Inductive, PTL

\* Every answer that claims a decision is the one Redis made.
THEOREM AnswersTrue == Spec => []AnswersAreTrue
<1>1. IInv => AnswersAreTrue
  BY DEF IInv, DecisionsHold, AnswersAreTrue, Answered
<1> QED BY <1>1, Inductive, PTL

\* What exceeds the capacity is neither charged nor let through.
THEOREM OversizedRefused == Spec => []OversizedNeverPasses
<1>1. IInv => OversizedNeverPasses
  <2> SUFFICES ASSUME IInv, NEW k \in Checks, check[k].cost > Capacity
               PROVE  k \notin charged /\ check[k].answer \notin {"allowed", "bypassed"}
    BY DEF OversizedNeverPasses
  <2>1. ~(check[k].cost <= Capacity)
    BY Amounts DEF IInv, TypeOK
  <2> QED BY <2>1 DEF IInv, OversizedUncharged, OversizedUnanswered
<1> QED BY <1>1, Inductive, PTL

-----------------------------------------------------------------------------
(* Sums of costs.                                                          *)

Some(s) == CHOOSE x \in s : TRUE
Summed(c, f, s) == IF s = {} THEN 0 ELSE c[Some(s)].cost + f[s \ {Some(s)}]
SumOf(c, S) == (CHOOSE f : f = [s \in SUBSET S |-> Summed(c, f, s)])[S]

LEMMA CostIsSum == ASSUME NEW S PROVE CostOf(S) = SumOf(check, S)
BY Zenon DEF CostOf, MapThenSumSet, MapThenFoldSet, SumOf, Summed, Some

LEMMA SmallerSet ==
    ASSUME NEW S, IsFiniteSet(S), NEW x \in S
    PROVE  /\ IsFiniteSet(S \ {x}) /\ Cardinality(S) \in Nat /\ Cardinality(S \ {x}) \in Nat
           /\ Cardinality(S \ {x}) = Cardinality(S) - 1
BY FS_RemoveElement, FS_CardinalityType

LEMMA SomeElement == ASSUME NEW S, S # {} PROVE Some(S) \in S
BY DEF Some

\* The fold is defined: what sums sets smaller than n can be made to sum those of n.
LEMMA SumIsDefined ==
    ASSUME NEW c, NEW S, IsFiniteSet(S)
    PROVE  \E f : f = [s \in SUBSET S |-> Summed(c, f, s)]
<1> DEFINE Right(f, n) == \A s \in SUBSET S : Cardinality(s) < n => f[s] = Summed(c, f, s)
           N == {n \in Nat : \E f : f = [s \in SUBSET S |-> f[s]] /\ Right(f, n)}
<1>0. \A s \in SUBSET S : IsFiniteSet(s) /\ Cardinality(s) \in Nat /\ Cardinality(s) <= Cardinality(S)
  BY FS_Subset, FS_CardinalityType
<1>1. 0 \in N
  <2> DEFINE f == [s \in SUBSET S |-> 0]
  <2>1. Right(f, 0)
    BY <1>0
  <2> QED BY <2>1
<1>2. ASSUME NEW n \in N PROVE n + 1 \in N
  <2>1. PICK f : f = [s \in SUBSET S |-> f[s]] /\ Right(f, n)
    OBVIOUS
  <2> DEFINE g == [s \in SUBSET S |-> Summed(c, f, s)]
  <2>2. ASSUME NEW s \in SUBSET S, Cardinality(s) < n + 1
        PROVE  g[s] = Summed(c, g, s)
    <3>1. CASE s = {}
      BY <3>1 DEF Summed
    <3>2. CASE s # {}
      <4> DEFINE t == s \ {Some(s)}
      <4>1. t \in SUBSET S /\ Cardinality(t) < n /\ n \in Nat
        BY <1>0, <2>2, <3>2, SomeElement, SmallerSet
      <4>2. g[t] = f[t]
        BY <2>1, <4>1
      <4>3. g[s] = Summed(c, f, s)
        OBVIOUS
      <4> HIDE DEF g
      <4> QED BY <4>2, <4>3 DEF Summed
    <3> QED BY <3>1, <3>2
  <2>3. Right(g, n + 1)
    BY <2>2
  <2>4. g = [s \in SUBSET S |-> g[s]] /\ n + 1 \in Nat
    OBVIOUS
  <2> HIDE DEF g, Right
  <2>5. \E h : h = [s \in SUBSET S |-> h[s]] /\ Right(h, n + 1)
    BY <2>3, <2>4, Zenon
  <2> QED BY <2>4, <2>5
<1>3. Cardinality(S) + 1 \in Nat /\ Nat \subseteq N
  <2>1. N \subseteq Nat /\ \A n \in Nat : n \in N => n + 1 \in N
    BY <1>2
  <2> HIDE DEF N
  <2> QED BY <1>0, <1>1, <2>1, Induction
<1>4. PICK f : f = [s \in SUBSET S |-> f[s]] /\ Right(f, Cardinality(S) + 1)
  BY <1>3
<1>5. \A s \in SUBSET S : f[s] = Summed(c, f, s)
  <2>1. \A s \in SUBSET S : Cardinality(s) < Cardinality(S) + 1
    BY <1>0, FS_CardinalityType
  <2> QED BY <1>4, <2>1
<1>6. f = [s \in SUBSET S |-> Summed(c, f, s)]
  BY <1>4, <1>5
<1> QED BY <1>6

Sums(c, f, S) == \A s \in SUBSET S : f[s] = Summed(c, f, s)
Agree(f, g, S) == \A s \in SUBSET S : f[s] = g[s]

\* Two folds agree on the sets that both sum.
LEMMA SumIsUnique ==
    ASSUME NEW c, NEW S, IsFiniteSet(S), NEW f, NEW g, Sums(c, f, S), Sums(c, g, S)
    PROVE  Agree(f, g, S)
<1> USE DEF Sums
<1> DEFINE N == {n \in Nat : \A s \in SUBSET S : Cardinality(s) < n => f[s] = g[s]}
<1>0. \A s \in SUBSET S : IsFiniteSet(s) /\ Cardinality(s) \in Nat
  BY FS_Subset, FS_CardinalityType
<1>1. 0 \in N
  BY <1>0
<1>2. ASSUME NEW n \in N PROVE n + 1 \in N
  <2>1. ASSUME NEW s \in SUBSET S, Cardinality(s) < n + 1 PROVE f[s] = g[s]
    <3>1. CASE s = {}
      BY <3>1 DEF Summed
    <3>2. CASE s # {}
      <4> DEFINE t == s \ {Some(s)}
      <4>1. t \in SUBSET S /\ Cardinality(t) < n /\ n \in Nat
        BY <1>0, <2>1, <3>2, SomeElement, SmallerSet
      <4>2. f[t] = g[t]
        BY <4>1
      <4> QED BY <4>2 DEF Summed
    <3> QED BY <3>1, <3>2
  <2>2. n + 1 \in Nat
    OBVIOUS
  <2> QED BY <2>1, <2>2
<1>3. Nat \subseteq N
  <2>1. \A n \in Nat : n \in N => n + 1 \in N
    BY <1>2
  <2> HIDE DEF N
  <2> QED BY <1>1, <2>1, Induction
<1>4. ASSUME NEW s \in SUBSET S PROVE f[s] = g[s]
  <2>1. Cardinality(s) \in Nat /\ Cardinality(s) + 1 \in N /\ Cardinality(s) < Cardinality(s) + 1
    BY <1>0, <1>3
  <2> QED BY <2>1
<1> QED BY <1>4 DEF Agree

\* One element after another.
LEMMA SumSteps ==
    ASSUME NEW c, NEW S, IsFiniteSet(S)
    PROVE  \A s \in SUBSET S :
               SumOf(c, s) = IF s = {} THEN 0 ELSE c[Some(s)].cost + SumOf(c, s \ {Some(s)})
<1>1. ASSUME NEW T \in SUBSET S
      PROVE  \E f : /\ \A s \in SUBSET T : f[s] = Summed(c, f, s)
                    /\ SumOf(c, T) = f[T]
  <2> DEFINE f == CHOOSE f : f = [s \in SUBSET T |-> Summed(c, f, s)]
  <2>1. IsFiniteSet(T)
    BY FS_Subset
  <2>2. f = [s \in SUBSET T |-> Summed(c, f, s)]
    BY <2>1, SumIsDefined, Zenon
  <2>3. SumOf(c, T) = f[T]
    BY Zenon DEF SumOf
  <2> HIDE DEF f
  <2>4. \A s \in SUBSET T : f[s] = Summed(c, f, s)
    BY <2>2
  <2> QED BY <2>3, <2>4
<1>2. PICK f : \A s \in SUBSET S : f[s] = Summed(c, f, s)
  BY <1>1
<1>3. ASSUME NEW T \in SUBSET S PROVE SumOf(c, T) = f[T]
  <2>1. PICK g : (\A s \in SUBSET T : g[s] = Summed(c, g, s)) /\ SumOf(c, T) = g[T]
    BY <1>1
  <2>2. IsFiniteSet(T) /\ \A s \in SUBSET T : s \in SUBSET S
    BY FS_Subset
  <2>3. \A s \in SUBSET T : f[s] = g[s]
    <3>1. Sums(c, f, T) /\ Sums(c, g, T) /\ IsFiniteSet(T)
      BY <1>2, <2>1, <2>2 DEF Sums
    <3>2. Agree(f, g, T)
      BY ONLY <3>1, SumIsUnique, Zenon
    <3> QED BY <3>2 DEF Agree
  <2> QED BY <2>1, <2>3
<1>4. \A s \in SUBSET S : s \ {Some(s)} \in SUBSET S
  OBVIOUS
<1> QED BY <1>2, <1>3, <1>4 DEF Summed

\* Whichever element is taken out, the sum falls by its cost.
LEMMA SumWithout ==
    ASSUME NEW c, NEW S, IsFiniteSet(S), \A k \in S : c[k].cost \in Nat
    PROVE  /\ SumOf(c, S) \in Nat
           /\ S = {} => SumOf(c, S) = 0
           /\ \A x \in S : SumOf(c, S) = c[x].cost + SumOf(c, S \ {x})
<1> DEFINE Right(s) == /\ SumOf(c, s) \in Nat
                       /\ \A x \in s : SumOf(c, s) = c[x].cost + SumOf(c, s \ {x})
           N == {n \in Nat : \A s \in SUBSET S : Cardinality(s) < n => Right(s)}
<1>0. \A s \in SUBSET S : IsFiniteSet(s) /\ Cardinality(s) \in Nat
  BY FS_Subset, FS_CardinalityType
<1>1. \A s \in SUBSET S :
          SumOf(c, s) = IF s = {} THEN 0 ELSE c[Some(s)].cost + SumOf(c, s \ {Some(s)})
  BY SumSteps
<1>2. 0 \in N
  BY <1>0
<1>3. ASSUME NEW n \in N PROVE n + 1 \in N
  <2>1. ASSUME NEW s \in SUBSET S, Cardinality(s) < n + 1 PROVE Right(s)
    <3>1. CASE s = {}
      <4>1. SumOf(c, s) = 0
        BY <1>1, <3>1
      <4> QED BY <3>1, <4>1
    <3>2. CASE s # {}
      <4> DEFINE y == Some(s)
      <4>1. y \in s /\ SumOf(c, s) = c[y].cost + SumOf(c, s \ {y})
        BY <1>1, <3>2, SomeElement
      <4> HIDE DEF y
      <4>2. \A x \in s : s \ {x} \in SUBSET S /\ Right(s \ {x})
        <5> SUFFICES ASSUME NEW x \in s PROVE s \ {x} \in SUBSET S /\ Right(s \ {x})
          OBVIOUS
        <5>1. s \ {x} \in SUBSET S /\ Cardinality(s \ {x}) < n /\ n \in Nat
          BY <1>0, <2>1, SmallerSet
        <5> HIDE DEF Right
        <5> QED BY <5>1
      <4>3. SumOf(c, s) \in Nat
        BY <4>1, <4>2
      <4>4. ASSUME NEW x \in s PROVE SumOf(c, s) = c[x].cost + SumOf(c, s \ {x})
        <5>1. CASE x = y
          BY <4>1, <5>1
        <5>2. CASE x # y
          <6> DEFINE t == s \ {x, y}
          <6>1. (s \ {y}) \ {x} = t /\ (s \ {x}) \ {y} = t
            OBVIOUS
          <6>2. SumOf(c, s \ {y}) = c[x].cost + SumOf(c, t)
            BY <4>1, <4>2, <5>2, <6>1
          <6>3. SumOf(c, s \ {x}) = c[y].cost + SumOf(c, t)
            BY <4>1, <4>2, <5>2, <6>1
          <6>4. SumOf(c, t) \in Nat
            <7>1. t \in SUBSET S /\ Cardinality(t) < n
              <8>1. /\ IsFiniteSet(s \ {y}) /\ Cardinality(s \ {y}) < n /\ x \in s \ {y} /\ n \in Nat
                    /\ Cardinality(s \ {y}) \in Nat
                BY <1>0, <2>1, <4>1, <5>2, SmallerSet
              <8>2. Cardinality((s \ {y}) \ {x}) < n
                BY <8>1, SmallerSet
              <8> QED BY <6>1, <8>2
            <7> QED BY <7>1
          <6>5. c[x].cost \in Nat /\ c[y].cost \in Nat
            BY <4>1
          <6> HIDE DEF t
          <6> QED BY <4>1, <6>2, <6>3, <6>4, <6>5
        <5> QED BY <5>1, <5>2
      <4> QED BY <4>3, <4>4
    <3> QED BY <3>1, <3>2
  <2>2. n + 1 \in Nat
    OBVIOUS
  <2> HIDE DEF Right
  <2> QED BY <2>1, <2>2
<1>4. Nat \subseteq N
  <2>1. \A n \in Nat : n \in N => n + 1 \in N
    BY <1>3
  <2> HIDE DEF N
  <2> QED BY <1>2, <2>1, Induction
<1>5. Right(S)
  <2>1. Cardinality(S) + 1 \in N /\ Cardinality(S) < Cardinality(S) + 1
    BY <1>0, <1>4
  <2> HIDE DEF Right
  <2> QED BY <2>1
<1> QED BY <1>1, <1>5

\* A part costs no more than the whole.
LEMMA SumGrows ==
    ASSUME NEW c, NEW S, IsFiniteSet(S), NEW T \in SUBSET S, \A k \in S : c[k].cost \in Nat
    PROVE  SumOf(c, T) <= SumOf(c, S)
<1> DEFINE N == {n \in Nat : \A s \in SUBSET S : T \subseteq s /\ Cardinality(s) < n =>
                                                     SumOf(c, T) <= SumOf(c, s)}
<1>0. \A s \in SUBSET S : /\ IsFiniteSet(s) /\ Cardinality(s) \in Nat
                          /\ SumOf(c, s) \in Nat
                          /\ \A x \in s : SumOf(c, s) = c[x].cost + SumOf(c, s \ {x})
  <2> SUFFICES ASSUME NEW s \in SUBSET S
               PROVE  /\ IsFiniteSet(s) /\ Cardinality(s) \in Nat
                      /\ SumOf(c, s) \in Nat
                      /\ \A x \in s : SumOf(c, s) = c[x].cost + SumOf(c, s \ {x})
    OBVIOUS
  <2>1. IsFiniteSet(s) /\ \A k \in s : c[k].cost \in Nat
    BY FS_Subset
  <2> QED BY <2>1, FS_CardinalityType, SumWithout
<1>1. 0 \in N
  BY <1>0
<1>2. ASSUME NEW n \in N PROVE n + 1 \in N
  <2>1. ASSUME NEW s \in SUBSET S, T \subseteq s, Cardinality(s) < n + 1
        PROVE  SumOf(c, T) <= SumOf(c, s)
    <3>1. CASE s = T
      BY <1>0, <3>1
    <3>2. CASE s # T
      <4>1. PICK x \in s : x \notin T
        BY <2>1, <3>2
      <4>2. /\ s \ {x} \in SUBSET S /\ T \subseteq s \ {x} /\ Cardinality(s \ {x}) < n
        BY <1>0, <2>1, <4>1, SmallerSet
      <4>3. SumOf(c, T) <= SumOf(c, s \ {x})
        BY <4>2
      <4>4. SumOf(c, s) = c[x].cost + SumOf(c, s \ {x}) /\ c[x].cost \in Nat
        BY <1>0
      <4> QED BY <1>0, <4>2, <4>3, <4>4
    <3> QED BY <3>1, <3>2
  <2>2. n + 1 \in Nat
    OBVIOUS
  <2> QED BY <2>1, <2>2
<1>3. Nat \subseteq N
  <2>1. \A n \in Nat : n \in N => n + 1 \in N
    BY <1>2
  <2> HIDE DEF N
  <2> QED BY <1>1, <2>1, Induction
<1>4. Cardinality(S) + 1 \in N /\ Cardinality(S) < Cardinality(S) + 1
  BY <1>0, <1>3
<1> QED BY <1>4

\* The sum depends on the costs of its elements only.
LEMMA SumOfSame ==
    ASSUME NEW c, NEW d, NEW S, IsFiniteSet(S), \A k \in S : c[k].cost = d[k].cost
    PROVE  SumOf(c, S) = SumOf(d, S)
<1> DEFINE N == {n \in Nat : \A s \in SUBSET S : Cardinality(s) < n => SumOf(c, s) = SumOf(d, s)}
<1>0. \A s \in SUBSET S : IsFiniteSet(s) /\ Cardinality(s) \in Nat
  BY FS_Subset, FS_CardinalityType
<1>1. \A s \in SUBSET S :
        /\ SumOf(c, s) = IF s = {} THEN 0 ELSE c[Some(s)].cost + SumOf(c, s \ {Some(s)})
        /\ SumOf(d, s) = IF s = {} THEN 0 ELSE d[Some(s)].cost + SumOf(d, s \ {Some(s)})
  BY SumSteps
<1>2. 0 \in N
  BY <1>0
<1>3. ASSUME NEW n \in N PROVE n + 1 \in N
  <2>1. ASSUME NEW s \in SUBSET S, Cardinality(s) < n + 1 PROVE SumOf(c, s) = SumOf(d, s)
    <3>1. CASE s = {}
      BY <1>1, <3>1
    <3>2. CASE s # {}
      <4> DEFINE y == Some(s)
                 t == s \ {y}
      <4>1. y \in s /\ c[y].cost = d[y].cost
        BY <3>2, SomeElement
      <4>2. t \in SUBSET S /\ Cardinality(t) < n
        BY <1>0, <2>1, <4>1, SmallerSet
      <4>3. SumOf(c, t) = SumOf(d, t)
        BY <4>2
      <4> QED BY <1>1, <3>2, <4>1, <4>3
    <3> QED BY <3>1, <3>2
  <2>2. n + 1 \in Nat
    OBVIOUS
  <2> QED BY <2>1, <2>2
<1>4. Nat \subseteq N
  <2>1. \A n \in Nat : n \in N => n + 1 \in N
    BY <1>3
  <2> HIDE DEF N
  <2> QED BY <1>2, <2>1, Induction
<1>5. Cardinality(S) + 1 \in N /\ Cardinality(S) < Cardinality(S) + 1
  BY <1>0, <1>4
<1> QED BY <1>5
-----------------------------------------------------------------------------
(* The ledger and the quota that is spent.                                 *)

Begun == {k \in Checks : ~At(k, "new")}

\* A check whose script ran or may still run, and one of these that has ended
\* with an answer: something was counted for it.
Dispatched == {k \in Checks : runs[k] > 0 \/ \E m \in commands : m.check = k}
Ended == {k \in Dispatched : At(k, "done") /\ check[k].answer # "cancelled"}

Spent == used = CostOf(charged \ forgotten)

EndedCounted ==
    ~gaps => /\ metricsOn
             /\ Cardinality(Ended) <= counted["evalsha"] + counted["eval"] + counted["error"]

Ledger ==
    /\ IsFiniteSet(Begun)
    /\ Spent
    /\ BypassesCounted
    /\ SeriesAgree
    /\ EndedCounted

Names == {"allowed", "denied", "bypassed", "success", "error", "evalsha", "eval", "commandError"}

LEMMA CheckFacts ==
    ASSUME IInv
    PROVE  /\ \A k \in Checks : /\ check[k].cost \in Nat
                                /\ check[k].at \in {"new", "done", "evalsha", "eval"}
           /\ charged \subseteq Begun /\ Dispatched \subseteq Begun /\ Ended \subseteq Begun
           /\ Answered("bypassed") \subseteq Begun /\ Answered("cancelled") \subseteq Begun
           /\ UnderWay \subseteq Begun
           /\ \A s \in Names : counted[s] \in Nat
           /\ charged \subseteq Checks /\ forgotten \subseteq charged
<1>1. \A k \in Checks : /\ check[k].cost \in Costs \cup {0}
                        /\ check[k].at \in {"new", "done", "evalsha", "eval"}
  BY DEF IInv, TypeOK, Waiting
<1>2. \A k \in Checks : check[k].cost \in Nat
  BY <1>1, Amounts
<1>3. Names = Series
  BY DEF Names, Series, Decisions
<1>4. \A s \in Names : counted[s] \in Nat
  BY <1>3 DEF IInv, TypeOK
<1>5. charged \subseteq Begun /\ Dispatched \subseteq Begun /\ Ended \subseteq Begun
  BY DEF Begun, Dispatched, Ended, IInv, TypeOK, NewIsUntouched, DecisionsHold, At
<1>6. /\ Answered("bypassed") \subseteq Begun /\ Answered("cancelled") \subseteq Begun
      /\ UnderWay \subseteq Begun
  BY DEF Begun, Answered, UnderWay, IInv, NewIsUntouched, At, Waiting
<1>7. charged \subseteq Checks /\ forgotten \subseteq charged
  BY DEF IInv, TypeOK
<1> QED BY <1>1, <1>2, <1>4, <1>5, <1>6, <1>7

\* Every series moves by one if it is among the counted and the collector is on.
LEMMA CountFacts ==
    ASSUME IInv, NEW S, Count(S), NEW s \in Names
    PROVE  counted'[s] = counted[s] + IF metricsOn /\ s \in S THEN 1 ELSE 0
<1>1. s \in Series
  BY DEF Names, Series, Decisions
<1> QED BY <1>1 DEF Count

LEMMA SpentAfter ==
    Spent' <=> used' = SumOf(check', charged' \ forgotten')
BY Zenon DEF Spent, CostOf, MapThenSumSet, MapThenFoldSet, SumOf, Summed, Some

\* As long as nothing is charged or forgotten, and no charged check's cost changes.
LEMMA SpentStays ==
    ASSUME IInv, Ledger, UNCHANGED <<used, charged, forgotten>>,
           \A k \in charged : check'[k].cost = check[k].cost
    PROVE  Spent'
<1> DEFINE S == charged \ forgotten
<1>1. IsFiniteSet(S)
  BY CheckFacts, FS_Subset DEF Ledger
<1>2. SumOf(check', S) = SumOf(check, S)
  <2>1. \A k \in S : check'[k].cost = check[k].cost
    OBVIOUS
  <2> HIDE DEF S
  <2> QED BY <1>1, <2>1, SumOfSame
<1>3. used = SumOf(check, S)
  BY CostIsSum DEF Ledger, Spent
<1> QED BY <1>2, <1>3, SpentAfter

\* A check that ends, with what is counted for it.
LEMMA AnswerLedger ==
    ASSUME IInv, Ledger, NEW k \in Checks, NEW c \in Nat, NEW a, NEW S,
           Answer(k, c, a), Count(S), UNCHANGED <<redisVars, limiterVars, commands>>,
           check[k].at # "done", check[k].answer = "none",
           At(k, "new") \/ c = check[k].cost,
           a = "bypassed" <=> "bypassed" \in S,
           a = "bypassed" => metricsOn,
           \/ S \cap {"allowed", "denied", "success", "evalsha", "eval"} = {}
           \/ \E d \in Decisions, call \in Waiting : S = {d, "success", call},
           k \in Dispatched /\ a # "cancelled" => S \cap {"evalsha", "eval", "error"} # {}
    PROVE  Ledger'
<1>0. /\ check' = [check EXCEPT ![k] = [at |-> "done", cost |-> c, answer |-> a]]
      /\ check \in [Checks -> [at : {"new", "done"} \cup Waiting,
                             cost : Costs \cup {0}, answer : Answers \cup {"none"}]]
      /\ UNCHANGED <<used, runs, charged, forgotten, metricsOn, gaps, commands>>
  BY DEF Answer, redisVars, limiterVars, IInv, TypeOK
<1>1. IsFiniteSet(Begun')
  <2>1. Begun' = Begun \cup {k}
    BY <1>0 DEF Begun, At
  <2> QED BY <2>1, FS_AddElement DEF Ledger
<1>2. Spent'
  <2>1. \A j \in charged : check'[j].cost = check[j].cost
    BY <1>0, CheckFacts DEF Begun
  <2> QED BY <1>0, <2>1, SpentStays
<1>3. BypassesCounted'
  <2>1. IsFiniteSet(Answered("bypassed")) /\ k \notin Answered("bypassed")
    BY CheckFacts, FS_Subset DEF Ledger, Answered
  <2>2. /\ counted["bypassed"] \in Nat
        /\ counted'["bypassed"] = counted["bypassed"] + IF metricsOn /\ "bypassed" \in S THEN 1 ELSE 0
    BY CheckFacts, CountFacts DEF Names
  <2>3. CASE a = "bypassed"
    <3>1. Answered("bypassed")' = Answered("bypassed") \cup {k}
      BY <1>0, <2>3 DEF Answered
    <3> QED BY <2>1, <2>2, <2>3, <3>1, FS_AddElement DEF BypassesCounted, Ledger
  <2>4. CASE a # "bypassed"
    <3>1. Answered("bypassed")' = Answered("bypassed")
      BY <1>0, <2>1, <2>4 DEF Answered
    <3> QED BY <2>2, <2>4, <3>1 DEF BypassesCounted, Ledger
  <2> QED BY <2>3, <2>4
<1>4. SeriesAgree'
  <2>1. \A s \in Names : /\ counted[s] \in Nat
                         /\ counted'[s] = counted[s] + IF metricsOn /\ s \in S THEN 1 ELSE 0
    BY CheckFacts, CountFacts
  <2> QED BY <2>1 DEF SeriesAgree, Ledger, Names, Decisions, Waiting
<1>5. EndedCounted'
  <2> SUFFICES ASSUME ~gaps
               PROVE  Cardinality(Ended)' <= (counted["evalsha"] + counted["eval"] + counted["error"])'
    BY <1>0 DEF EndedCounted, Ledger
  <2>1. \A s \in Names : /\ counted[s] \in Nat
                         /\ counted'[s] = counted[s] + IF metricsOn /\ s \in S THEN 1 ELSE 0
    BY CheckFacts, CountFacts
  <2>2. /\ metricsOn /\ IsFiniteSet(Ended) /\ Cardinality(Ended) \in Nat
        /\ Cardinality(Ended) <= counted["evalsha"] + counted["eval"] + counted["error"]
    BY CheckFacts, FS_Subset, FS_CardinalityType DEF Ledger, EndedCounted
  <2>3. Dispatched' = Dispatched
    BY <1>0 DEF Dispatched
  <2>4. CASE k \in Dispatched /\ a # "cancelled"
    <3>1. Ended' = Ended \cup {k} /\ k \notin Ended
      BY <1>0, <2>3, <2>4 DEF Ended, At, Dispatched
    <3>2. Cardinality(Ended') = Cardinality(Ended) + 1
      BY <2>2, <3>1, FS_AddElement
    <3> QED BY <2>1, <2>2, <2>4, <3>2 DEF Names
  <2>5. CASE ~(k \in Dispatched /\ a # "cancelled")
    <3>1. Ended' = Ended
      BY <1>0, <2>3, <2>5 DEF Ended, At, Dispatched
    <3> QED BY <2>1, <2>2, <3>1 DEF Names
  <2> QED BY <2>4, <2>5
<1> QED BY <1>1, <1>2, <1>3, <1>4, <1>5 DEF Ledger

\* What changes neither the counters that matter nor who has answered.
LEMMA NothingAnswered ==
    ASSUME IInv, Ledger, Spent', IsFiniteSet(Begun'), Ended' \subseteq Ended,
           Answered("bypassed")' = Answered("bypassed"),
           \A s \in Names \ {"commandError"} : counted'[s] = counted[s],
           gaps \/ UNCHANGED metricsOn, UNCHANGED gaps \/ gaps'
    PROVE  Ledger'
<1>1. BypassesCounted' /\ SeriesAgree'
  BY DEF Ledger, BypassesCounted, SeriesAgree, Names
<1>2. IsFiniteSet(Ended)
  BY CheckFacts, FS_Subset DEF Ledger
<1>3. /\ Cardinality(Ended') <= Cardinality(Ended)
      /\ Cardinality(Ended') \in Nat /\ Cardinality(Ended) \in Nat
  BY <1>2, FS_Subset, FS_CardinalityType
<1>4. EndedCounted'
  <2> SUFFICES ASSUME ~gaps'
               PROVE  metricsOn' /\ Cardinality(Ended') <= counted'["evalsha"] + counted'["eval"] + counted'["error"]
    BY DEF EndedCounted
  <2>1. ~gaps /\ metricsOn'
    BY DEF Ledger, EndedCounted
  <2>2. counted'["evalsha"] = counted["evalsha"] /\ counted'["eval"] = counted["eval"]
        /\ counted'["error"] = counted["error"]
        /\ counted["evalsha"] \in Nat /\ counted["eval"] \in Nat /\ counted["error"] \in Nat
    BY CheckFacts DEF Names
  <2> QED BY <1>3, <2>1, <2>2 DEF Ledger, EndedCounted
<1> QED BY <1>1, <1>4 DEF Ledger

\* A check that runs into a failure: counted unless nothing was sent, and as a
\* bypass exactly if it is let through.
LEMMA FailedLedger ==
    ASSUME IInv, Ledger, NEW k \in Checks, NEW c \in Nat, NEW S, Failed(k, c, S),
           UNCHANGED <<redisVars, limiterVars, commands>>,
           check[k].at # "done", check[k].answer = "none",
           At(k, "new") \/ c = check[k].cost,
           S \subseteq {"error", "commandError"},
           k \in Dispatched => "error" \in S
    PROVE  Ledger'
<1>1. CASE ~failOpen \/ c > Capacity
  <2>1. Answer(k, c, "error") /\ Count(S)
    BY <1>1 DEF Failed
  <2> QED BY <2>1, AnswerLedger
<1>2. CASE ~(~failOpen \/ c > Capacity) /\ ~metricsOn
  <2>1. Answer(k, c, "misconfigured") /\ Count(S)
    BY <1>2 DEF Failed
  <2> QED BY <2>1, AnswerLedger
<1>3. CASE ~(~failOpen \/ c > Capacity) /\ metricsOn
  <2> DEFINE T == S \cup {"bypassed"}
  <2>1. Answer(k, c, "bypassed") /\ Count(T)
    BY <1>3 DEF Failed
  <2>2. /\ "bypassed" \in T /\ T \cap {"allowed", "denied", "success", "evalsha", "eval"} = {}
        /\ k \in Dispatched => T \cap {"evalsha", "eval", "error"} # {}
    OBVIOUS
  <2> HIDE DEF T
  <2> QED BY <1>3, <2>1, <2>2, AnswerLedger
<1> QED BY <1>1, <1>2, <1>3

\* A check that waits has not answered.
WaitingUnanswered == \A k \in Checks : ~At(k, "done") => check[k].answer = "none"

LEMMA HearLedger ==
    ASSUME IInv, Ledger, WaitingUnanswered, NEW k \in Checks, Hear(k) \/ Cancel(k)
    PROVE  Ledger'
<1>0. /\ check[k].at \in {"evalsha", "eval"} /\ check[k].at # "done" /\ check[k].answer = "none"
      /\ check[k].cost \in Nat
  BY CheckFacts DEF Hear, FallBack, Receive, CommandFails, Cancel, Waiting, At, WaitingUnanswered
<1>1. CASE FallBack(k)
  <2>1. /\ check' = [check EXCEPT ![k].at = "eval"]
        /\ check \in [Checks -> [at : {"new", "done"} \cup Waiting,
                             cost : Costs \cup {0}, answer : Answers \cup {"none"}]]
        /\ Count({"commandError"})
        /\ commands' = commands \cup {[check |-> k, name |-> "eval"]}
        /\ UNCHANGED <<used, charged, forgotten, runs, gaps, metricsOn>>
    BY <1>1 DEF FallBack, Move, redisVars, limiterVars, IInv, TypeOK
  <2>2. Spent'
    <3>1. \A j \in charged : check'[j].cost = check[j].cost
      BY <2>1, CheckFacts
    <3> QED BY <2>1, <3>1, SpentStays
  <2>3. Begun' = Begun
    BY <1>0, <2>1 DEF Begun, At
  <2>4. Ended' \subseteq Ended
    BY <1>0, <2>1 DEF Ended, Dispatched, At
  <2>5. Answered("bypassed")' = Answered("bypassed")
    BY <2>1 DEF Answered
  <2>6. \A s \in Names \ {"commandError"} : counted'[s] = counted[s]
    BY <2>1, CountFacts, CheckFacts
  <2> QED BY <2>1, <2>2, <2>3, <2>4, <2>5, <2>6, NothingAnswered DEF Ledger
<1>2. ASSUME NEW d \in Decisions, Receive(k, d) PROVE Ledger'
  <2> DEFINE S == {d, "success", check[k].at}
  <2>1. /\ Answer(k, check[k].cost, d) /\ Count(S)
        /\ UNCHANGED <<redisVars, limiterVars, commands>>
    BY <1>2 DEF Receive, Recorded
  <2>2. d # "bypassed" /\ d # "cancelled" /\ "bypassed" \notin S
        /\ S \cap {"evalsha", "eval", "error"} # {}
        /\ \E e \in Decisions, call \in Waiting : S = {e, "success", call}
    BY <1>0 DEF Decisions, Waiting
  <2> HIDE DEF S
  <2> QED BY <1>0, <2>1, <2>2, AnswerLedger
<1>3. CASE CommandFails(k)
  <2>1. /\ Failed(k, check[k].cost, {"commandError", "error"})
        /\ UNCHANGED <<redisVars, limiterVars, commands>>
    BY <1>3 DEF CommandFails
  <2> QED BY <1>0, <2>1, FailedLedger
<1>4. CASE Cancel(k)
  <2>1. /\ Answer(k, check[k].cost, "cancelled")
        /\ UNCHANGED <<redisVars, limiterVars, commands>> /\ counted' = counted
    BY <1>4 DEF Cancel
  <2>2. Count({})
    <3>1. counted' = [s \in Series |-> counted[s] + 0]
      BY <2>1 DEF IInv, TypeOK
    <3> QED BY <3>1 DEF Count
  <2> QED BY <1>0, <2>1, <2>2, AnswerLedger
<1> QED BY <1>1, <1>2, <1>3, <1>4 DEF Hear

LEMMA BeginLedger ==
    ASSUME IInv, Ledger, NEW k \in Checks, NEW c \in Costs,
           (\E name \in Waiting : Begin(k, c, name)) \/ BeginFails(k, c)
    PROVE  Ledger'
<1>0. /\ c \in Nat /\ check[k].at = "new" /\ k \notin Dispatched /\ k \notin charged
      /\ check[k].answer = "none" /\ check[k].at # "done"
  <2>1. check[k].at = "new" /\ c \in Nat
    BY Amounts DEF Begin, BeginFails, At
  <2> QED BY <2>1 DEF At, Dispatched, IInv, NewIsUntouched, DecisionsHold
<1>1. ASSUME NEW name \in Waiting, Begin(k, c, name) PROVE Ledger'
  <2>1. /\ check' = [check EXCEPT ![k].at = name, ![k].cost = c]
        /\ check \in [Checks -> [at : {"new", "done"} \cup Waiting,
                             cost : Costs \cup {0}, answer : Answers \cup {"none"}]]
        /\ commands' = commands \cup {[check |-> k, name |-> name]}
        /\ name \in {"evalsha", "eval"}
        /\ UNCHANGED <<used, charged, forgotten, runs, gaps, metricsOn, counted>>
    BY <1>1 DEF Begin, redisVars, limiterVars, IInv, TypeOK, Waiting
  <2>2. Spent'
    <3>1. \A j \in charged : check'[j].cost = check[j].cost
      BY <1>0, <2>1, CheckFacts
    <3> QED BY <2>1, <3>1, SpentStays
  <2>3. IsFiniteSet(Begun')
    <3>1. Begun' = Begun \cup {k}
      BY <1>0, <2>1 DEF Begun, At
    <3> QED BY <3>1, FS_AddElement DEF Ledger
  <2>4. Ended' \subseteq Ended
    BY <1>0, <2>1 DEF Ended, Dispatched, At
  <2>5. Answered("bypassed")' = Answered("bypassed")
    BY <2>1 DEF Answered
  <2> QED BY <2>1, <2>2, <2>3, <2>4, <2>5, NothingAnswered
<1>2. CASE BeginFails(k, c)
  <2>1. PICK S \in {{}, {"error"}} : Failed(k, c, S)
    BY <1>2 DEF BeginFails
  <2>2. UNCHANGED <<redisVars, limiterVars, commands>> /\ S \subseteq {"error", "commandError"}
    BY <1>2 DEF BeginFails
  <2> QED BY <1>0, <2>1, <2>2, FailedLedger DEF At
<1> QED BY <1>1, <1>2

LEMMA ExecuteLedger == ASSUME IInv, Ledger, NEW m \in commands, Execute(m) PROVE Ledger'
<1> DEFINE k == m.check
<1>0. /\ k \in Checks /\ k \notin charged /\ k \notin forgotten /\ runs[k] = 0
      /\ UNCHANGED <<failOpen, metricsOn, gaps, check, counted, forgotten>>
      /\ commands' = commands \ {m}
      /\ check[k].cost \in Nat /\ runs \in [Checks -> Nat]
  <2>1. k \in Checks /\ runs[k] = 0 /\ runs \in [Checks -> Nat] /\ k \notin charged
    BY DEF IInv, TypeOK, PendingHasNotRun, DecisionsHold
  <2>2. /\ UNCHANGED <<failOpen, metricsOn, gaps, check, counted, forgotten>>
        /\ commands' = commands \ {m}
    BY DEF Execute, redisVars, limiterVars
  <2> QED BY <2>1, <2>2, CheckFacts
<1>1. Spent' /\ \A j \in Checks \ {k} : runs'[j] = runs[j]
  <2>1. CASE m.name = "evalsha" /\ ~cached
    <3>1. UNCHANGED <<used, charged, runs>>
      BY <2>1 DEF Execute, redisVars
    <3> QED BY <1>0, <3>1, SpentStays
  <2>2. CASE ~(m.name = "evalsha" /\ ~cached)
    <3>1. Charge(k) /\ runs' = [runs EXCEPT ![k] = @ + 1]
      BY <2>2 DEF Execute
    <3>2. CASE Fits(check[k].cost)
      <4> DEFINE S == charged \ forgotten
                 T == S \cup {k}
      <4>1. used' = used + check[k].cost /\ charged' = charged \cup {k}
        BY <3>1, <3>2 DEF Charge
      <4>2. charged' \ forgotten' = T /\ T \ {k} = S /\ k \in T
        BY <1>0, <4>1
      <4>3. IsFiniteSet(T) /\ \A j \in T : check[j].cost \in Nat
        <5>1. IsFiniteSet(S) /\ S \subseteq Checks
          BY CheckFacts, FS_Subset DEF Ledger
        <5> QED BY <1>0, <5>1, CheckFacts, FS_AddElement
      <4>4. used = SumOf(check, S) /\ check' = check
        BY <1>0, CostIsSum DEF Ledger, Spent
      <4> HIDE DEF S, T
      <4>5. SumOf(check, T) = check[k].cost + SumOf(check, S) /\ SumOf(check, T) \in Nat
        BY <4>2, <4>3, SumWithout
      <4>6. used \in Nat
        BY AdmissionAssumption DEF IInv, TypeOK
      <4>7. used' = SumOf(check', charged' \ forgotten')
        <5>1. SumOf(check', charged' \ forgotten') = SumOf(check, T)
          BY ONLY <4>2, <4>4, Zenon
        <5> QED BY <1>0, <4>1, <4>4, <4>5, <4>6, <5>1
      <4> QED BY <1>0, <3>1, <4>7, SpentAfter
    <3>3. CASE ~Fits(check[k].cost)
      <4>1. UNCHANGED <<used, charged>>
        BY <3>1, <3>3 DEF Charge
      <4> QED BY <1>0, <3>1, <4>1, SpentStays
    <3> QED BY <3>2, <3>3
  <2> QED BY <2>1, <2>2
<1>2. Begun' = Begun /\ Answered("bypassed")' = Answered("bypassed")
  BY <1>0 DEF Begun, At, Answered
<1>3. Ended' \subseteq Ended
  <2>1. Dispatched' \subseteq Dispatched
    BY <1>0, <1>1 DEF Dispatched
  <2> QED BY <1>0, <2>1 DEF Ended, At
<1> QED BY <1>0, <1>1, <1>2, <1>3, NothingAnswered DEF Ledger

LEMMA AsideLedger ==
    ASSUME IInv, Ledger, LoseScripts \/ Forget \/ ToggleMetrics
    PROVE  Ledger'
<1>1. /\ UNCHANGED <<runs, commands, check, counted, charged>>
      /\ Begun' = Begun /\ Ended' = Ended /\ Answered("bypassed")' = Answered("bypassed")
  BY DEF LoseScripts, Forget, ToggleMetrics, redisVars, Begun, Ended, Dispatched, At, Answered
<1>2. CASE LoseScripts \/ ToggleMetrics
  <2>1. UNCHANGED <<used, forgotten>>
    BY <1>2 DEF LoseScripts, ToggleMetrics, redisVars
  <2>2. Spent'
    BY <1>1, <2>1, SpentStays
  <2>3. (UNCHANGED <<metricsOn, gaps>>) \/ gaps'
    BY <1>2, Zenon DEF LoseScripts, ToggleMetrics, limiterVars
  <2>4. CASE UNCHANGED <<metricsOn, gaps>>
    BY <1>1, <2>2, <2>4, NothingAnswered DEF Ledger
  <2>5. CASE gaps'
    BY <1>1, <2>2, <2>5 DEF Ledger, BypassesCounted, SeriesAgree, EndedCounted
  <2> QED BY <2>3, <2>4, <2>5
<1>3. CASE Forget
  <2>1. used' = 0 /\ forgotten' = charged /\ UNCHANGED <<metricsOn, gaps>>
    BY <1>3 DEF Forget, limiterVars
  <2>2. SumOf(check', {}) = 0
    <3>1. IsFiniteSet({}) /\ \A j \in {} : check'[j].cost \in Nat
      BY FS_EmptySet
    <3> QED BY <3>1, SumWithout
  <2>3. charged' \ forgotten' = {}
    BY <1>1, <2>1
  <2>4. Spent'
    BY <2>1, <2>2, <2>3, SpentAfter
  <2> QED BY <1>1, <2>1, <2>4, NothingAnswered DEF Ledger
<1> QED BY <1>2, <1>3

LEMMA UnansweredStep == IInv /\ WaitingUnanswered /\ [Next]_vars => WaitingUnanswered'
<1> SUFFICES ASSUME IInv, WaitingUnanswered, [Next]_vars PROVE WaitingUnanswered'
  OBVIOUS
<1> USE DEF WaitingUnanswered, At
<1>0. check \in [Checks -> [at : {"new", "done"} \cup Waiting,
                           cost : Costs \cup {0}, answer : Answers \cup {"none"}]]
  BY DEF IInv, TypeOK
<1>1. ASSUME NEW k \in Checks, NEW c \in Costs, NEW name \in Waiting, Begin(k, c, name)
      PROVE  WaitingUnanswered'
  BY <1>0, <1>1 DEF Begin, Waiting
<1>2. ASSUME NEW k \in Checks, NEW c, NEW a, Answer(k, c, a) PROVE WaitingUnanswered'
  BY <1>0, <1>2 DEF Answer
<1>3. ASSUME NEW k \in Checks, NEW c, NEW S, Failed(k, c, S) PROVE WaitingUnanswered'
  BY <1>2, <1>3 DEF Failed
<1>4. ASSUME NEW k \in Checks, FallBack(k) PROVE WaitingUnanswered'
  BY <1>0, <1>4 DEF FallBack, Move
<1>5. ASSUME UNCHANGED check PROVE WaitingUnanswered'
  BY <1>5
<1> QED BY <1>1, <1>2, <1>3, <1>4, <1>5 DEF Next, BeginFails, Hear, Receive, CommandFails, Cancel,
           Execute, LoseScripts, Forget, ToggleMetrics, vars

LEMMA LedgerStep ==
    IInv /\ WaitingUnanswered /\ Ledger /\ [Next]_vars => Ledger'
<1> SUFFICES ASSUME IInv, WaitingUnanswered, Ledger, [Next]_vars PROVE Ledger'
  OBVIOUS
<1>1. CASE UNCHANGED vars
  <2>1. UNCHANGED <<used, charged, forgotten, runs, commands, check, counted, metricsOn, gaps>>
    BY <1>1 DEF vars, redisVars, limiterVars
  <2>2. Spent'
    BY <2>1, SpentStays
  <2> QED BY <2>1, <2>2 DEF Ledger, Begun, At, BypassesCounted, Answered, SeriesAgree, EndedCounted,
                            Ended, Dispatched
<1> QED BY <1>1, BeginLedger, HearLedger, ExecuteLedger, AsideLedger DEF Next

LEMMA LedgerInit == Init => Ledger /\ WaitingUnanswered
<1> SUFFICES ASSUME Init PROVE Ledger /\ WaitingUnanswered
  OBVIOUS
<1>1. Begun = {} /\ Ended = {} /\ Answered("bypassed") = {} /\ WaitingUnanswered
  BY DEF Init, Begun, Ended, Dispatched, Answered, At, WaitingUnanswered
<1>2. \A s \in Names : counted[s] = 0
  BY DEF Init, Names, Series, Decisions
<1>3. Cardinality({}) = 0 /\ IsFiniteSet({})
  BY FS_EmptySet
<1>4. Spent
  <2>1. charged \ forgotten = {} /\ used = 0
    BY DEF Init
  <2>2. SumOf(check, {}) = 0
    BY <1>3, SumWithout
  <2> QED BY <2>1, <2>2, CostIsSum DEF Spent
<1>5. gaps \/ metricsOn
  BY Zenon DEF Init
<1> QED BY <1>1, <1>2, <1>3, <1>4, <1>5 DEF Ledger, BypassesCounted, SeriesAgree, EndedCounted, Names

LEMMA LedgerHolds == Spec => [](IInv /\ Ledger)
BY LedgerInit, UnansweredStep, LedgerStep, Inductive, PTL DEF Spec

\* What is spent of the quota is the cost of the charged checks, no more and no
\* less, so the confirmed admissions stay within it, whatever was bypassed.
THEOREM SpentAsCharged == Spec => []UsedIsCharged
<1>1. IInv /\ Ledger => UsedIsCharged
  <2> SUFFICES ASSUME IInv, Ledger PROVE UsedIsCharged
    OBVIOUS
  <2> DEFINE S == charged \ forgotten
             T == Answered("allowed") \ forgotten
  <2>1. IsFiniteSet(S) /\ T \in SUBSET S /\ \A j \in S : check[j].cost \in Nat
    BY CheckFacts, FS_Subset DEF Ledger, IInv, DecisionsHold, Answered
  <2>2. SumOf(check, T) <= SumOf(check, S)
    <3> HIDE DEF S, T
    <3> QED BY <2>1, SumGrows
  <2>3. /\ used = CostOf(S) /\ CostOf(S) = SumOf(check, S) /\ CostOf(T) = SumOf(check, T)
        /\ used \in Nat /\ used <= Capacity /\ Capacity \in Nat
    BY CostIsSum, AdmissionAssumption DEF Ledger, Spent, IInv, TypeOK
  <2>4. SumOf(check, T) \in Nat
    <3>1. IsFiniteSet(T) /\ \A j \in T : check[j].cost \in Nat
      BY <2>1, FS_Subset
    <3> HIDE DEF T
    <3> QED BY <3>1, SumWithout
  <2> HIDE DEF S, T
  <2>5. CostOf(T) <= Capacity
    BY <2>2, <2>3, <2>4
  <2> QED BY <2>3, <2>5 DEF UsedIsCharged, S, T
<1> QED BY <1>1, LedgerHolds, PTL

\* Every bypass is counted, the series tell one story, and they bound the
\* decisions whose replies were lost.
THEOREM LedgerIsTrue == Spec => []LedgerAddsUp
<1>1. IInv /\ Ledger => LedgerAddsUp
  <2> SUFFICES ASSUME IInv, Ledger, ~gaps
               PROVE  Cardinality({k \in Checks : runs[k] > 0})
                          <= counted["evalsha"] + counted["eval"] + counted["error"]
                               + Cardinality(Answered("cancelled") \cup UnderWay)
    BY DEF LedgerAddsUp, LostRepliesBounded, Ledger
  <2> DEFINE R == {k \in Checks : runs[k] > 0}
             L == Answered("cancelled") \cup UnderWay
  <2>1. R \subseteq Ended \cup L
    BY CheckFacts DEF Ended, Dispatched, At, Answered, UnderWay, Waiting, IInv, NewIsUntouched
  <2>2. IsFiniteSet(Ended) /\ IsFiniteSet(L)
    BY CheckFacts, FS_Subset DEF Ledger
  <2> HIDE DEF R, L
  <2>3. /\ IsFiniteSet(Ended \cup L) /\ Cardinality(Ended \cup L) <= Cardinality(Ended) + Cardinality(L)
        /\ Cardinality(Ended) \in Nat /\ Cardinality(L) \in Nat /\ Cardinality(Ended \cup L) \in Nat
    <3>1. /\ IsFiniteSet(Ended \cup L) /\ IsFiniteSet(Ended \cap L)
          /\ Cardinality(Ended \cup L) = Cardinality(Ended) + Cardinality(L) - Cardinality(Ended \cap L)
      BY <2>2, FS_Union, FS_Intersection
    <3> QED BY <2>2, <3>1, FS_CardinalityType
  <2>4. Cardinality(R) <= Cardinality(Ended \cup L) /\ Cardinality(R) \in Nat
    BY <2>1, <2>3, FS_Subset, FS_CardinalityType
  <2>5. /\ Cardinality(Ended) <= counted["evalsha"] + counted["eval"] + counted["error"]
        /\ counted["evalsha"] \in Nat /\ counted["eval"] \in Nat /\ counted["error"] \in Nat
    BY CheckFacts DEF Ledger, EndedCounted, Names
  <2>6. Cardinality(R) <= counted["evalsha"] + counted["eval"] + counted["error"] + Cardinality(L)
    BY <2>3, <2>4, <2>5
  <2> QED BY <2>6 DEF R, L
<1> QED BY <1>1, LedgerHolds, PTL
=============================================================================
