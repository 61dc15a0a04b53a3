-------------------------- MODULE HttpStackProofs --------------------------
(***************************************************************************)
(* Proofs about a request and its response, for any set of applications:   *)
(* any layers in any order, as long as decorators are innermost.           *)
(***************************************************************************)
EXTENDS HttpStack, TLAPS

\* On its way down a request has not been refused, and the layers below have
\* decided nothing.
GoingDown ==
    signal.type = "request" =>
        /\ signal = Request
        /\ depth # 0
        /\ sent = <<>>
        /\ \A e \in Depths : (e >= depth => verdict[e] = "none") /\ ~Refused(e)

\* An exception from depth d is that depth's refusal, the only one there is, and
\* no layer that it has passed would have answered it.
Raised(d) ==
    /\ depth < d /\ d > 1
    /\ Refused(d)
    /\ \A e \in Depths : Refused(e) => e = d
    /\ \A t \in (depth + 1)..(d - 1) :
         stack[t] # "server" /\ (stack[t] = "headers" => signal.name = "other")
    /\ verdict[d] = "failed" => signal.name # "RateLimitExceeded"
    /\ verdict[d] # "failed" => /\ signal.name = "RateLimitExceeded"
                                /\ signal.quota = d
                                /\ signal.retry = (verdict[d] = "denied")

GoingUp == signal.type = "error" /\ sent = <<>> => \E d \in Depths : Raised(d)

\* The first response is on its way.  Whatever its sender raises afterwards
\* only layers see that the response has passed or is still to pass.
Answering ==
    signal.type = "response" =>
        /\ sent = <<>>
        /\ Honest(signal) /\ Told(signal)
        /\ later.signal.type = "error" => \A d \in 1..later.depth : d <= depth \/ d \in started

\* A response was sent: it is the only one, and what is raised after it finds
\* every layer started.
Answered ==
    /\ sent # <<>> => /\ Len(sent) = 1 /\ Honest(sent[1]) /\ Told(sent[1])
                      /\ signal.type = "error" => 1..depth \subseteq started
    /\ signal.type = "done" => sent # <<>>

\* Only a response on its way has a sender that goes on.
NothingElseLater ==
    signal.type # "response" =>
        /\ later = Finished
        /\ sent = <<>> => started = {}

\* request.state has the last decision, and forgets it once one was bypassed.
InfoIsLast ==
    /\ state.info # NoDecision =>
         /\ state.info \in LastDecision
         /\ verdict[state.info] \in {"allowed", "denied", "permanent"}
         /\ Denier \subseteq {state.info, Bottom}
    /\ ~state.bypassed => \A d \in Limits : verdict[d] # "bypassed"

IInv ==
    /\ TypeOK
    /\ GoingDown /\ GoingUp /\ Answering /\ Answered
    /\ NothingElseLater /\ InfoIsLast /\ NoRefusedServed

-----------------------------------------------------------------------------
LEMMA StackFacts ==
    ASSUME TypeOK
    PROVE  /\ stack \in Seq(Layers) /\ Len(stack) \in Nat \ {0}
           /\ DOMAIN stack = 1..Len(stack)
           /\ Bottom \in Nat /\ Bottom = Len(stack) + 1
           /\ Depths = 0..Bottom
           /\ stack[1] = "server"
           /\ \A d, e \in DOMAIN stack : d < e /\ stack[d] = "limit" => stack[e] = "limit"
<1>1. stack \in Stacks
  BY DEF TypeOK
<1>2. /\ stack \in Seq(Layers) /\ stack # <<>> /\ stack[1] = "server"
      /\ \A d, e \in DOMAIN stack : d < e /\ stack[d] = "limit" => stack[e] = "limit"
  BY <1>1, HttpStackAssumption DEF HttpStackAssumption
<1>3. Len(stack) \in Nat \ {0} /\ DOMAIN stack = 1..Len(stack)
  BY <1>2
<1> QED BY <1>2, <1>3 DEF Bottom, Depths

LEMMA Kinds ==
    ASSUME TypeOK
    PROVE  /\ signal.type \in {"request", "done", "response", "error"}
           /\ signal.type = "request" => signal = Request
           /\ signal.type = "done" => signal = Done
           /\ signal.type = "response" => signal \in Responses
           /\ signal.type = "error" => signal \in Failures
<1>1. Request.type = "request" /\ Done.type = "done"
  BY DEF Request, Done
<1>2. \A r \in Responses : r.type = "response"
  BY DEF Responses
<1>3. \A e \in Failures : e.type = "error"
  BY DEF Failures
<1> QED BY <1>1, <1>2, <1>3 DEF TypeOK

\* What responses and exceptions are made of.
LEMMA Made ==
    ASSUME TypeOK
    PROVE  /\ \A status \in {200, 422, 429, 500, 503}, quota \in Depths, reset, retry \in BOOLEAN :
                Response(status, quota, reset, retry) \in Responses
           /\ \A name \in Names, quota \in Depths, retry \in BOOLEAN :
                Error(name, quota, retry) \in Failures
           /\ \A e \in Errors : e \in Failures /\ e.name # "RateLimitExceeded"
           /\ NoDecision \in Depths
<1>1. NoDecision \in Depths
  BY StackFacts DEF NoDecision
<1>2. \A status \in {200, 422, 429, 500, 503}, quota \in Depths, reset, retry \in BOOLEAN :
        Response(status, quota, reset, retry) \in Responses
  BY DEF Response, Responses
<1>3. \A name \in Names, quota \in Depths, retry \in BOOLEAN :
        Error(name, quota, retry) \in Failures
  BY DEF Error, Failures
<1>4. \A e \in Errors : e \in Failures /\ e.name # "RateLimitExceeded"
  <2> SUFFICES ASSUME NEW n \in Names \ {"RateLimitExceeded"}
               PROVE  /\ Error(n, NoDecision, FALSE) \in Failures
                      /\ Error(n, NoDecision, FALSE).name # "RateLimitExceeded"
    BY DEF Errors
  <2>1. Error(n, NoDecision, FALSE).name = n
    BY DEF Error
  <2> QED BY <1>1, <1>3, <2>1
<1> QED BY <1>1, <1>2, <1>3, <1>4

\* With the same stack the same depths, and with the same verdicts a response
\* stays as true as it was.
LEMMA SameDepths ==
    ASSUME stack' = stack
    PROVE  /\ Bottom' = Bottom /\ Depths' = Depths
           /\ Responses' = Responses /\ Failures' = Failures /\ Limits' = Limits
<1>1. Bottom' = Bottom /\ Depths' = Depths /\ Limits' = Limits
  BY DEF Bottom, Depths, Limits
<1> QED BY <1>1 DEF Responses, Failures

LEMMA SameTruth ==
    ASSUME stack' = stack, verdict' = verdict
    PROVE  /\ \A r : (Honest(r) => Honest(r)') /\ (Told(r) => Told(r)')
           /\ Denier' = Denier /\ Deciding' = Deciding /\ LastDecision' = LastDecision
           /\ NoRefusedServed => NoRefusedServed'
<1>1. Bottom' = Bottom /\ Depths' = Depths /\ Limits' = Limits
  BY SameDepths
<1>2. Denier' = Denier /\ Deciding' = Deciding
  BY <1>1 DEF Denier, Deciding
<1>3. LastDecision' = LastDecision
  BY <1>2 DEF LastDecision
<1>4. ASSUME NEW r, Honest(r) PROVE Honest(r)'
  BY <1>1, <1>2, <1>3, <1>4 DEF Honest
<1>5. ASSUME NEW r, Told(r) PROVE Told(r)'
  BY <1>1, <1>5 DEF Told, Refused, Sees, Telling
<1>6. NoRefusedServed => NoRefusedServed'
  BY <1>1 DEF NoRefusedServed, Refused
<1> QED BY <1>2, <1>3, <1>4, <1>5, <1>6

LEMMA SameInfo ==
    ASSUME stack' = stack, verdict' = verdict, state' = state, InfoIsLast
    PROVE  InfoIsLast'
<1>1. Bottom' = Bottom /\ Limits' = Limits
  BY SameDepths
<1>2. Denier' = Denier /\ LastDecision' = LastDecision
  BY SameTruth
<1> QED BY <1>1, <1>2 DEF InfoIsLast

-----------------------------------------------------------------------------
(* What a layer may do to a request, a response and an exception.          *)

\* A response passes a layer, which may have replaced it by one as true.
LEMMA ResponseUp ==
    ASSUME IInv, depth \in DOMAIN stack, signal.type = "response",
           NEW r \in Responses, Honest(r), Told(r),
           signal' = r, depth' = depth - 1, started' = started \cup {depth},
           UNCHANGED <<stack, handled, later, state, sent, verdict>>
    PROVE  IInv'
<1>1. TypeOK /\ sent = <<>>
  BY DEF IInv, Answering
<1>2. /\ stack' = stack /\ verdict' = verdict /\ state' = state
      /\ Bottom' = Bottom /\ Depths' = Depths
      /\ Responses' = Responses /\ Failures' = Failures
  BY SameDepths
<1>3. depth \in Depths /\ depth' \in Depths /\ depth - 1 \in Nat
  BY <1>1, StackFacts
<1>4. r.type = "response"
  BY DEF Responses
<1>5. TypeOK'
  BY <1>1, <1>2, <1>3 DEF TypeOK
<1>6. GoingDown' /\ GoingUp' /\ Answered' /\ NothingElseLater'
  BY <1>1, <1>4 DEF GoingDown, GoingUp, Answered, NothingElseLater
<1>7. Answering'
  <2>1. Honest(r)' /\ Told(r)'
    BY <1>2, SameTruth
  <2>2. signal'.type = "response" => sent' = <<>> /\ Honest(signal)' /\ Told(signal)'
    <3>1. Honest(signal)' /\ Told(signal)'
      BY <1>2, <2>1 DEF Honest, Told, Telling, Refused, Sees, LastDecision, Deciding, Limits,
                        Denier
    <3> QED BY <1>1, <3>1
  <2>3. ASSUME later.signal.type = "error", NEW d \in 1..later.depth
        PROVE  d <= depth - 1 \/ d \in started \cup {depth}
    <3>1. d <= depth \/ d \in started
      BY <2>3 DEF IInv, Answering
    <3>2. d \in Nat /\ depth \in Nat
      BY <1>1, <1>3, StackFacts DEF TypeOK
    <3> QED BY <3>1, <3>2
  <2> QED BY <2>2, <2>3 DEF Answering
<1>8. InfoIsLast' /\ NoRefusedServed'
  BY <1>2, SameInfo, SameTruth DEF IInv
<1> QED BY <1>5, <1>6, <1>7, <1>8 DEF IInv

\* An exception passes a layer that would not answer it now.
LEMMA ErrorUp ==
    ASSUME IInv, depth \in DOMAIN stack, signal.type = "error", PassUp,
           depth \in started \/ (/\ stack[depth] # "server"
                                 /\ stack[depth] = "headers" => signal.name = "other"),
           UNCHANGED <<stack, handled, state, sent, verdict>>
    PROVE  IInv'
<1>1. TypeOK
  BY DEF IInv
<1>2. /\ stack' = stack /\ verdict' = verdict /\ state' = state
      /\ Bottom' = Bottom /\ Depths' = Depths
      /\ Responses' = Responses /\ Failures' = Failures
  BY SameDepths
<1>3. depth \in Nat \ {0} /\ depth \in Depths /\ depth - 1 \in Depths
  BY <1>1, StackFacts
<1>4. /\ depth' = depth - 1 /\ signal' = signal /\ later' = later
      /\ started' = started /\ sent' = sent /\ handled' = handled
  BY DEF PassUp
<1>5. TypeOK'
  BY <1>1, <1>2, <1>3, <1>4 DEF TypeOK
<1>6. GoingDown' /\ Answering'
  BY <1>4 DEF GoingDown, Answering
<1>7. NothingElseLater'
  BY <1>4 DEF IInv, NothingElseLater, Finished, Done
<1>8. GoingUp'
  <2> SUFFICES ASSUME sent = <<>> PROVE \E d \in Depths : Raised(d)'
    BY <1>2, <1>4 DEF GoingUp
  <2>1. PICK d \in Depths : Raised(d)
    BY DEF IInv, GoingUp
  <2>2. depth \notin started
    BY DEF IInv, NothingElseLater
  <2>3. d \in Nat
    BY <1>1, StackFacts
  <2>4. \A t \in (depth - 1 + 1)..(d - 1) :
          stack[t] # "server" /\ (stack[t] = "headers" => signal.name = "other")
    <3> SUFFICES ASSUME NEW t \in (depth - 1 + 1)..(d - 1)
                 PROVE  stack[t] # "server" /\ (stack[t] = "headers" => signal.name = "other")
      OBVIOUS
    <3>1. t = depth \/ t \in (depth + 1)..(d - 1)
      BY <1>3, <2>3
    <3> QED BY <2>1, <2>2, <3>1 DEF Raised
  <2>5. Raised(d)'
    <3>1. depth - 1 < d /\ d > 1
      BY <1>3, <2>1, <2>3 DEF Raised
    <3>2. Refused(d) /\ \A e \in Depths : Refused(e) => e = d
      BY <2>1 DEF Raised
    <3>3. /\ verdict[d] = "failed" => signal.name # "RateLimitExceeded"
          /\ verdict[d] # "failed" => /\ signal.name = "RateLimitExceeded"
                                      /\ signal.quota = d
                                      /\ signal.retry = (verdict[d] = "denied")
      BY <2>1, Zenon DEF Raised
    <3>4. \A e : Refused(e)' <=> Refused(e)
      BY <1>2 DEF Refused
    <3> QED BY ONLY <1>2, <1>4, <2>4, <3>1, <3>2, <3>3, <3>4, Zenon DEF Raised
  <2> QED BY <2>5
<1>9. Answered'
  <2>1. \A r : (Honest(r) => Honest(r)') /\ (Told(r) => Told(r)')
    BY <1>2, SameTruth
  <2>2. ASSUME sent # <<>> PROVE Honest(sent[1])' /\ Told(sent[1])'
    <3>1. PICK r : r = sent[1]
      OBVIOUS
    <3>2. Honest(r)' /\ Told(r)'
      BY <2>1, <2>2, <3>1 DEF IInv, Answered
    <3> QED BY <1>2, <1>4, <3>1, <3>2 DEF Honest, Told, Telling, Refused, Sees, LastDecision,
                                          Deciding, Limits, Denier
  <2>3. 1..(depth - 1) \subseteq 1..depth
    BY <1>3
  <2> QED BY <1>4, <2>2, <2>3 DEF IInv, Answered
<1>10. InfoIsLast' /\ NoRefusedServed'
  BY <1>2, SameInfo, SameTruth DEF IInv
<1> QED BY <1>5, <1>6, <1>7, <1>8, <1>9, <1>10 DEF IInv

\* The request goes on down.
LEMMA Down ==
    ASSUME IInv, depth \in DOMAIN stack, signal.type = "request", PassDown,
           UNCHANGED <<stack, handled, sent>>,
           verdict' \in [Depths -> Verdicts],
           \A e \in Depths : e # depth => verdict'[e] = verdict[e],
           verdict'[depth] \in {"none", "allowed", "bypassed"},
           state' \in [info : Depths, bypassed : BOOLEAN],
           state'.bypassed => state'.info = NoDecision,
           InfoIsLast'
    PROVE  IInv'
<1>1. TypeOK
  BY DEF IInv
<1>2. /\ stack' = stack /\ Bottom' = Bottom /\ Depths' = Depths
      /\ Responses' = Responses /\ Failures' = Failures
  BY SameDepths
<1>3. depth \in Nat \ {0} /\ depth \in Depths /\ depth + 1 \in Depths
  BY <1>1, StackFacts
<1>4. /\ depth' = depth + 1 /\ signal' = signal /\ later' = later
      /\ started' = started /\ sent' = sent /\ handled' = handled
  BY DEF PassDown
<1>5. TypeOK'
  BY <1>1, <1>2, <1>3, <1>4 DEF TypeOK
<1>6. /\ signal = Request /\ sent = <<>>
      /\ \A e \in Depths : (e >= depth => verdict[e] = "none") /\ ~Refused(e)
  BY DEF IInv, GoingDown
<1>7. \A e \in Depths : (e >= depth + 1 => verdict'[e] = "none") /\ ~Refused(e)'
  <2> SUFFICES ASSUME NEW e \in Depths
               PROVE  (e >= depth + 1 => verdict'[e] = "none") /\ ~Refused(e)'
    OBVIOUS
  <2>1. e \in Nat
    BY <1>1, StackFacts
  <2>2. CASE e = depth
    BY <2>1, <2>2 DEF Refused
  <2>3. CASE e # depth
    BY <1>3, <1>6, <2>1, <2>3 DEF Refused
  <2> QED BY <2>2, <2>3
<1>8. GoingDown'
  BY <1>2, <1>3, <1>4, <1>6, <1>7 DEF GoingDown, Request
<1>9. GoingUp' /\ Answering' /\ Answered' /\ NothingElseLater'
  BY <1>4, <1>6 DEF IInv, GoingUp, Answering, Answered, NothingElseLater, Finished, Done
<1>10. NoRefusedServed'
  <2>1. verdict'[Bottom] = "none"
    BY <1>1, <1>3, <1>6, StackFacts
  <2> QED BY <1>2, <2>1 DEF NoRefusedServed
<1> QED BY <1>5, <1>8, <1>9, <1>10 DEF IInv

\* What is decided at a depth is the only refusal, if it is one at all.
LEMMA DecideOnce ==
    ASSUME IInv, signal.type = "request", depth \in 1..Bottom, stack' = stack,
           NEW what \in Verdicts, Decide(what)
    PROVE  /\ verdict' \in [Depths -> Verdicts] /\ verdict'[depth] = what
           /\ \A e \in Depths : e # depth => verdict'[e] = verdict[e] /\ ~Refused(e)'
           /\ NoRefusedServed'
<1>1. TypeOK
  BY DEF IInv
<1>2. \A e \in Depths : (e >= depth => verdict[e] = "none") /\ ~Refused(e)
  BY DEF IInv, GoingDown
<1>3. depth \in Depths
  BY <1>1, StackFacts
<1>4. /\ verdict' \in [Depths -> Verdicts] /\ verdict'[depth] = what
      /\ \A e \in Depths : e # depth => verdict'[e] = verdict[e]
  BY <1>1, <1>3 DEF TypeOK, Decide
<1>5. \A e \in Depths : e # depth => ~Refused(e)'
  BY <1>2, <1>4 DEF Refused
<1>6. NoRefusedServed'
  <2> SUFFICES ASSUME verdict'[Bottom] # "none", NEW d \in DOMAIN stack
               PROVE  ~Refused(d)'
    BY SameDepths DEF NoRefusedServed
  <2>1. Bottom \in Depths /\ Bottom >= depth /\ d \in Depths /\ d # Bottom
    BY <1>1, StackFacts
  <2>2. depth = Bottom
    BY <1>2, <1>4, <2>1
  <2> QED BY <1>5, <2>1, <2>2
<1> QED BY <1>4, <1>5, <1>6

\* A layer other than a decorator leaves the last decorator's decision the last:
\* decorators are innermost, so none is above it.
LEMMA InfoStays ==
    ASSUME IInv, signal.type = "request", depth \in 1..Bottom, stack' = stack,
           depth \in DOMAIN stack => stack[depth] # "limit",
           NEW what \in Verdicts, Decide(what), state' = state
    PROVE  InfoIsLast'
<1>1. TypeOK /\ InfoIsLast
  BY DEF IInv
<1>2. \A e \in Depths : (e >= depth => verdict[e] = "none") /\ ~Refused(e)
  BY DEF IInv, GoingDown
<1>3. /\ verdict' \in [Depths -> Verdicts] /\ verdict'[depth] = what
      /\ \A e \in Depths : e # depth => verdict'[e] = verdict[e] /\ ~Refused(e)'
  BY DecideOnce
<1>4. depth \notin Limits /\ Limits \subseteq Depths
  BY <1>1, StackFacts DEF Limits
<1>5. Limits' = Limits /\ Deciding' = Deciding /\ Bottom' = Bottom /\ Depths' = Depths
  <2>1. \A d \in Limits : verdict'[d] = verdict[d]
    BY <1>3, <1>4
  <2> QED BY <2>1, SameDepths DEF Deciding
<1>6. LastDecision' = LastDecision
  BY <1>5 DEF LastDecision
<1>7. ASSUME state.info # NoDecision
      PROVE  /\ state.info \in LastDecision
             /\ verdict'[state.info] \in {"allowed", "denied", "permanent"}
             /\ Denier' \subseteq {state.info, Bottom}
  <2>1. /\ state.info \in LastDecision /\ state.info \in Limits
        /\ verdict[state.info] \in {"allowed", "denied", "permanent"}
    BY <1>1, <1>7 DEF InfoIsLast, LastDecision, Deciding
  <2>2. state.info \in Depths /\ state.info # depth
    BY <1>4, <2>1
  <2>3. state.info < depth
    BY <1>1, <1>2, <2>1, <2>2, StackFacts
  <2>4. depth = Bottom
    <3>1. ASSUME depth \in DOMAIN stack PROVE FALSE
      BY <1>1, <2>1, <2>3, <3>1, StackFacts DEF Limits
    <3> QED BY <1>1, <3>1, StackFacts
  <2>5. Denier' \subseteq {Bottom}
    BY <1>3, <1>5, <2>4 DEF Denier, Refused
  <2> QED BY <1>3, <2>1, <2>2, <2>5
<1>8. ASSUME ~state.bypassed PROVE \A d \in Limits : verdict'[d] # "bypassed"
  BY <1>1, <1>3, <1>4, <1>8 DEF InfoIsLast
<1> QED BY <1>5, <1>6, <1>7, <1>8 DEF InfoIsLast

\* The exception e says what was decided.
Says(e, what) ==
    /\ what = "failed" => e.name # "RateLimitExceeded"
    /\ what # "failed" => /\ e.name = "RateLimitExceeded"
                          /\ e.quota = depth
                          /\ e.retry = (what = "denied")

\* The layer at which the request has arrived refuses it and raises.
LEMMA Refuse ==
    ASSUME IInv, signal.type = "request", depth \in 2..Bottom,
           NEW what \in {"failed", "denied", "permanent"}, Decide(what),
           NEW e \in Failures, Says(e, what), Raise(e),
           UNCHANGED <<stack, handled, sent>>,
           state' \in [info : Depths, bypassed : BOOLEAN],
           state'.bypassed => state'.info = NoDecision,
           InfoIsLast'
    PROVE  IInv'
<1>1. TypeOK
  BY DEF IInv
<1>2. /\ stack' = stack /\ Bottom' = Bottom /\ Depths' = Depths
      /\ Responses' = Responses /\ Failures' = Failures
  BY SameDepths
<1>3. depth \in Nat /\ depth \in Depths /\ depth - 1 \in Depths /\ depth \in 1..Bottom
  BY <1>1, StackFacts
<1>4. /\ depth' = depth - 1 /\ signal' = e /\ later' = later
      /\ started' = started /\ sent' = sent /\ handled' = handled
  BY DEF Raise
<1>5. /\ verdict' \in [Depths -> Verdicts] /\ verdict'[depth] = what
      /\ \A d \in Depths : d # depth => ~Refused(d)'
      /\ NoRefusedServed'
  <2>1. what \in Verdicts
    BY DEF Verdicts
  <2> QED BY <1>3, <2>1, DecideOnce
<1>6. TypeOK'
  BY <1>1, <1>2, <1>3, <1>4, <1>5 DEF TypeOK
<1>7. e.type = "error"
  BY DEF Failures
<1>8. sent = <<>> /\ later = Finished /\ started = {}
  BY DEF IInv, GoingDown, NothingElseLater
<1>9. GoingDown' /\ Answering' /\ Answered' /\ NothingElseLater'
  BY <1>4, <1>7, <1>8 DEF GoingDown, Answering, Answered, NothingElseLater, Finished, Done
<1>10. \E d \in Depths : Raised(d)'
  <2>1. /\ what = "failed" => e.name # "RateLimitExceeded"
        /\ what # "failed" => /\ e.name = "RateLimitExceeded"
                              /\ e.quota = depth
                              /\ e.retry = (what = "denied")
    BY Zenon DEF Says
  <2>2. PICK here : here = depth
    OBVIOUS
  <2>3. Raised(here)'
    <3>1. depth - 1 < here /\ here > 1
      BY <1>3, <2>2
    <3>2. Refused(here)'
      BY <1>5, <2>2 DEF Refused
    <3>3. \A d \in Depths : Refused(d)' => d = here
      BY <1>5, <2>2
    <3>4. \A t \in (depth - 1 + 1)..(here - 1) :
            stack[t] # "server" /\ (stack[t] = "headers" => e.name = "other")
      <4>1. (depth - 1 + 1)..(here - 1) = {}
        BY <1>3, <2>2
      <4> QED BY <4>1
    <3>5. verdict'[here] = what
      BY <1>5, <2>2
    <3>6. /\ what = "failed" => e.name # "RateLimitExceeded"
          /\ what # "failed" => /\ e.name = "RateLimitExceeded"
                                /\ e.quota = here
                                /\ e.retry = (what = "denied")
      BY <2>1, <2>2, Zenon
    <3> QED BY ONLY <1>2, <1>4, <3>1, <3>2, <3>3, <3>4, <3>5, <3>6, Zenon DEF Raised
  <2>4. here \in Depths
    BY <1>3, <2>2
  <2> QED BY <2>3, <2>4
<1>11. GoingUp'
  BY <1>2, <1>10 DEF GoingUp
<1> QED BY <1>5, <1>6, <1>9, <1>11 DEF IInv

\* A layer answers the request or the exception that has reached it, before any
\* response has been sent.
LEMMA Answer ==
    ASSUME IInv, sent = <<>>, depth \in 1..Bottom,
           NEW r \in Responses,
           NEW then \in [signal : {Done} \cup Failures, depth : Depths],
           then.depth <= depth - 1,
           Respond(r, then), UNCHANGED <<stack, handled, state, sent>>,
           verdict' \in [Depths -> Verdicts],
           Honest(r)', Told(r)', InfoIsLast', NoRefusedServed'
    PROVE  IInv'
<1>1. TypeOK
  BY DEF IInv
<1>2. /\ stack' = stack /\ Bottom' = Bottom /\ Depths' = Depths
      /\ Responses' = Responses /\ Failures' = Failures
  BY SameDepths
<1>3. depth \in Nat /\ depth \in Depths /\ depth - 1 \in Depths
  BY <1>1, StackFacts
<1>4. /\ depth' = depth - 1 /\ signal' = r /\ later' = then
      /\ started' = started /\ sent' = sent /\ handled' = handled /\ state' = state
  BY DEF Respond
<1>5. r.type = "response"
  BY DEF Responses
<1>6. TypeOK'
  BY <1>1, <1>2, <1>3, <1>4 DEF TypeOK
<1>7. GoingDown' /\ GoingUp' /\ Answered' /\ NothingElseLater'
  BY <1>4, <1>5 DEF GoingDown, GoingUp, Answered, NothingElseLater
<1>8. Answering'
  <2>1. Honest(signal)' /\ Told(signal)'
    BY <1>4 DEF Honest, Told
  <2>2. \A d \in 1..then.depth : d <= depth - 1
    <3>1. then.depth \in Nat
      BY <1>1, StackFacts
    <3> QED BY <1>3, <3>1
  <2> QED BY <1>4, <2>1, <2>2 DEF Answering
<1> QED BY <1>6, <1>7, <1>8 DEF IInv

\* Once a response has started whatever is raised goes on to the client.
LEMMA ErrorAfter ==
    ASSUME IInv, depth \in DOMAIN stack, signal.type = "error", depth \in started,
           NEW e \in Failures, Raise(e), UNCHANGED <<stack, handled, state, sent, verdict>>
    PROVE  IInv'
<1>1. TypeOK /\ sent # <<>> /\ later = Finished /\ 1..depth \subseteq started
  BY DEF IInv, NothingElseLater, Answered
<1>2. /\ stack' = stack /\ verdict' = verdict /\ state' = state
      /\ Bottom' = Bottom /\ Depths' = Depths
      /\ Responses' = Responses /\ Failures' = Failures
  BY SameDepths
<1>3. depth \in Nat \ {0} /\ depth - 1 \in Depths /\ 1..(depth - 1) \subseteq 1..depth
  BY <1>1, StackFacts
<1>4. /\ depth' = depth - 1 /\ signal' = e /\ later' = later
      /\ started' = started /\ sent' = sent /\ handled' = handled
  BY DEF Raise
<1>5. e.type = "error"
  BY DEF Failures
<1>6. TypeOK'
  BY <1>1, <1>2, <1>3, <1>4 DEF TypeOK
<1>7. GoingDown' /\ GoingUp' /\ Answering' /\ NothingElseLater'
  BY <1>1, <1>4, <1>5 DEF GoingDown, GoingUp, Answering, NothingElseLater, Finished, Done
<1>8. Answered'
  <2>1. PICK r : r = sent[1]
    OBVIOUS
  <2>2. Len(sent) = 1 /\ Honest(r) /\ Told(r)
    BY <1>1, <2>1 DEF IInv, Answered
  <2>3. Honest(r)' /\ Told(r)'
    BY <1>2, <2>2, SameTruth
  <2>4. Honest(sent[1])' /\ Told(sent[1])'
    BY <1>4, <2>1, <2>3 DEF Honest, Told
  <2> QED BY <1>1, <1>3, <1>4, <1>5, <2>2, <2>4 DEF Answered
<1>9. InfoIsLast' /\ NoRefusedServed'
  BY <1>2, SameInfo, SameTruth DEF IInv
<1> QED BY <1>6, <1>7, <1>8, <1>9 DEF IInv

-----------------------------------------------------------------------------
(* What the answers to an exception say.                                   *)

LEMMA DenialTold ==
    ASSUME IInv, signal.type = "error", sent = <<>>, signal.name = "RateLimitExceeded",
           NEW retry \in {FALSE, signal.retry}, NEW r,
           r = Response(DenialStatus(signal.retry), signal.quota, signal.retry, retry)
    PROVE  r \in Responses /\ Honest(r) /\ Told(r)
<1>1. TypeOK /\ signal \in Failures
  BY Kinds DEF IInv
<1>2. signal.quota \in Depths /\ signal.retry \in BOOLEAN
  BY <1>1 DEF Failures
<1>3. PICK d \in Depths : Raised(d)
  BY DEF IInv, GoingUp
<1>4. /\ Refused(d) /\ d > 1
      /\ \A e \in Depths : Refused(e) => e = d
      /\ verdict[d] # "failed"
      /\ signal.quota = d
  BY <1>3 DEF Raised
<1>5. signal.retry = (verdict[d] = "denied")
  BY <1>3, <1>4, Zenon DEF Raised
<1>6. verdict[d] \in {"denied", "permanent"}
  BY <1>4 DEF Refused
<1>7. Denier = {d}
  BY <1>4, <1>6 DEF Denier, Refused
<1>8. r \in Responses
  <2>1. DenialStatus(signal.retry) \in {200, 422, 429, 500, 503}
    BY DEF DenialStatus
  <2>2. signal.quota \in Depths /\ signal.retry \in BOOLEAN /\ retry \in BOOLEAN
    BY <1>2
  <2> QED BY ONLY <2>1, <2>2, r = Response(DenialStatus(signal.retry), signal.quota, signal.retry, retry)
          DEF Response, Responses
<1>9. /\ r.status = DenialStatus(signal.retry) /\ r.quota = d
      /\ r.reset = signal.retry /\ r.retry = retry
  BY <1>4, Zenon DEF Response
<1>10. CASE verdict[d] = "denied"
  <2>1. signal.retry = TRUE
    BY <1>5, <1>10
  <2>2. r.status = 429
    BY <1>9, <2>1 DEF DenialStatus
  <2>3. Told(r)
    BY <1>4, <1>10, <2>2 DEF Told, Telling
  <2>4. Honest(r)
    BY <1>4, <1>7, <1>9, <1>10, <2>2 DEF Honest, NoDecision
  <2> QED BY <1>8, <2>3, <2>4
<1>11. CASE verdict[d] = "permanent"
  <2>1. signal.retry = FALSE /\ retry = FALSE
    BY <1>5, <1>11
  <2>2. r.status = 422
    BY <1>9, <2>1 DEF DenialStatus
  <2>3. Told(r)
    BY <1>4, <1>11, <2>2 DEF Told, Telling
  <2>4. ~r.retry /\ ~r.reset
    BY <1>9, <2>1, Zenon
  <2>5. Honest(r)
    BY <1>4, <1>7, <1>9, <1>11, <2>2, <2>4 DEF Honest
  <2> QED BY <1>8, <2>3, <2>5
<1> QED BY <1>6, <1>10, <1>11

\* A response without quota headers is true; whether it tells enough is told by
\* its status.
Plain(status) == Response(status, NoDecision, FALSE, FALSE)

LEMMA PlainHonest ==
    ASSUME TypeOK, NEW status \in {200, 422, 429, 500, 503}
    PROVE  Plain(status) \in Responses /\ Honest(Plain(status)) /\ Plain(status).status = status
<1>1. Plain(status) \in Responses
  BY Made DEF Plain, Response, Responses
<1>2. /\ Plain(status).quota = NoDecision /\ Plain(status).status = status
      /\ ~Plain(status).reset /\ ~Plain(status).retry
  BY Zenon DEF Plain, Response
<1> QED BY <1>1, <1>2 DEF Honest

LEMMA OutageTold ==
    ASSUME IInv, signal.type = "error", sent = <<>>, signal.name # "RateLimitExceeded",
           NEW r, r = Unavailable
    PROVE  r \in Responses /\ Honest(r) /\ Told(r)
<1>1. TypeOK
  BY DEF IInv
<1>2. r \in Responses /\ Honest(r) /\ r.status = 503
  <2>1. r = Plain(503)
    BY Zenon DEF Unavailable, Plain
  <2> QED BY <1>1, <2>1, PlainHonest
<1>3. PICK d \in Depths : Raised(d)
  BY DEF IInv, GoingUp
<1>4. verdict[d] = "failed" /\ \A e \in Depths : Refused(e) => e = d
  BY <1>3 DEF Raised
<1>5. Told(r)
  BY <1>2, <1>4 DEF Told, Telling
<1> QED BY <1>2, <1>5

\* A server answers 500 to a denial only if no headers middleware has seen it.
LEMMA ServerTold ==
    ASSUME IInv, At("server", "error"), sent = <<>>,
           NEW r, r = Response(500, NoDecision, FALSE, FALSE)
    PROVE  r \in Responses /\ Honest(r) /\ Told(r)
<1>1. TypeOK /\ depth \in DOMAIN stack /\ stack[depth] = "server" /\ signal.type = "error"
  BY DEF IInv, At
<1>2. r \in Responses /\ Honest(r) /\ r.status = 500
  <2>1. r = Plain(500)
    BY Zenon DEF Plain
  <2> QED BY ONLY <1>1, <2>1, PlainHonest
<1>3. PICK d \in Depths : Raised(d)
  BY <1>1 DEF IInv, GoingUp
<1>4. /\ depth < d /\ \A e \in Depths : Refused(e) => e = d
      /\ \A t \in (depth + 1)..(d - 1) : stack[t] = "headers" => signal.name = "other"
      /\ verdict[d] # "failed" => signal.name = "RateLimitExceeded"
  BY <1>3 DEF Raised
<1>5. ASSUME Refused(d), NEW t \in Sees(d), stack[t] = "headers"
      PROVE  500 \in Telling(d)
  <2>1. depth \in Nat /\ d \in Nat /\ t \in Nat /\ t < d
    BY <1>1, StackFacts DEF Sees
  <2>2. \A e \in (t + 1)..(d - 1) : stack[e] # "server"
    BY <1>5 DEF Sees
  <2>3. ~(t < depth)
    BY <1>1, <1>4, <2>1, <2>2
  <2>4. t # depth
    BY <1>1, <1>5
  <2>5. t \in (depth + 1)..(d - 1)
    BY <2>1, <2>3, <2>4
  <2>6. verdict[d] = "failed"
    BY <1>4, <1>5, <2>5
  <2> QED BY <2>6 DEF Telling
<1>6. Told(r)
  <2> SUFFICES ASSUME NEW e \in Depths, Refused(e), NEW t \in Sees(e), stack[t] = "headers"
               PROVE  r.status \in Telling(e)
    BY Zenon DEF Told
  <2>1. e = d
    BY <1>4
  <2> QED BY <1>2, <1>5, <2>1
<1> QED BY <1>2, <1>6

-----------------------------------------------------------------------------
(* Every action preserves the invariant.                                   *)

LEMMA InitIInv == Init => IInv
<1> SUFFICES ASSUME Init PROVE IInv
  OBVIOUS
<1>1. /\ stack \in Stacks /\ handled \in SUBSET (Names \ {"other"})
      /\ depth = 1 /\ signal = Request /\ later = Finished
      /\ state = [info |-> NoDecision, bypassed |-> FALSE]
      /\ started = {} /\ sent = <<>> /\ verdict = [d \in Depths |-> "none"]
  BY DEF Init
<1>2. Bottom \in Nat /\ Bottom > 1 /\ Depths = 0..Bottom
  BY <1>1, HttpStackAssumption DEF HttpStackAssumption, Bottom, Depths
<1>3. later \in [signal : {Done} \cup Failures, depth : Depths]
  BY <1>1, <1>2 DEF Finished
<1>4. state \in [info : Depths, bypassed : BOOLEAN] /\ ~state.bypassed
      /\ state.info = NoDecision
  BY <1>1, <1>2 DEF NoDecision
<1>5. TypeOK
  BY <1>1, <1>2, <1>3, <1>4 DEF TypeOK, Verdicts
<1>6. \A d \in Depths : verdict[d] = "none" /\ ~Refused(d)
  BY <1>1 DEF Refused
<1>7. signal.type = "request"
  BY <1>1 DEF Request
<1>8. GoingDown /\ GoingUp /\ Answering /\ Answered /\ NothingElseLater
  BY <1>1, <1>6, <1>7 DEF GoingDown, GoingUp, Answering, Answered, NothingElseLater
<1>9. Limits \subseteq Depths /\ DOMAIN stack \subseteq Depths
  BY <1>5, StackFacts DEF Limits
<1>10. InfoIsLast /\ NoRefusedServed
  BY <1>4, <1>6, <1>9 DEF InfoIsLast, NoRefusedServed
<1> QED BY <1>5, <1>8, <1>10 DEF IInv

\* What a decorator remembers of its own decision.
LEMMA Remembers ==
    ASSUME IInv, At("limit", "request"), stack' = stack,
           NEW what \in Verdicts, Decide(what), NEW known \in BOOLEAN,
           IF known THEN what \in {"allowed", "denied", "permanent"} ELSE what = "bypassed",
           state' = Remembered(known)
    PROVE  /\ state' \in [info : Depths, bypassed : BOOLEAN]
           /\ state'.bypassed => state'.info = NoDecision
           /\ InfoIsLast'
<1>1. /\ TypeOK /\ InfoIsLast /\ depth \in DOMAIN stack
      /\ stack[depth] = "limit" /\ signal.type = "request"
  BY DEF IInv, At
<1>2. depth \in Depths /\ depth \in 1..Bottom /\ Limits \subseteq Depths /\ depth \in Limits
  BY <1>1, StackFacts DEF Limits
<1>3. /\ verdict' \in [Depths -> Verdicts] /\ verdict'[depth] = what
      /\ \A e \in Depths : e # depth => verdict'[e] = verdict[e] /\ ~Refused(e)'
  BY <1>1, <1>2, DecideOnce
<1>4. \A e \in Depths : e >= depth => verdict[e] = "none"
  BY <1>1 DEF IInv, GoingDown
<1>5. /\ Bottom' = Bottom /\ Depths' = Depths /\ Limits' = Limits
  BY SameDepths
<1>6. state \in [info : Depths, bypassed : BOOLEAN]
  BY <1>1 DEF TypeOK
<1>7. CASE state.bypassed \/ ~known
  <2>1. state' = [info |-> NoDecision, bypassed |-> TRUE]
    BY <1>7, Zenon DEF Remembered
  <2>2. state'.bypassed /\ state'.info = NoDecision
    BY <2>1
  <2>3. state' \in [info : Depths, bypassed : BOOLEAN]
    BY <1>1, <2>1, Made
  <2> QED BY <2>2, <2>3 DEF InfoIsLast
<1>8. CASE ~state.bypassed /\ known
  <2>1. state' = [info |-> depth, bypassed |-> FALSE]
    BY <1>8, Zenon DEF Remembered
  <2>2. ~state'.bypassed /\ state'.info = depth /\ what \in {"allowed", "denied", "permanent"}
    <3>1. what \in {"allowed", "denied", "permanent"}
      BY ONLY <1>8, IF known THEN what \in {"allowed", "denied", "permanent"} ELSE what = "bypassed",
              Zenon
    <3> QED BY <2>1, <3>1
  <2>3. state' \in [info : Depths, bypassed : BOOLEAN]
    BY <1>2, <2>1
  <2>4. depth \in Deciding'
    BY <1>2, <1>3, <1>5, <2>2 DEF Deciding
  <2>5. ASSUME NEW e \in Deciding' PROVE e <= depth
    <3>1. e \in Depths /\ verdict'[e] # "none"
      BY <1>2, <1>5 DEF Deciding
    <3>2. e = depth \/ ~(e >= depth)
      BY <1>3, <1>4, <3>1
    <3> QED BY <1>1, <1>2, <3>1, <3>2, StackFacts
  <2>6. depth \in LastDecision'
    BY <2>4, <2>5 DEF LastDecision
  <2>7. Denier' \subseteq {depth, Bottom}
    BY <1>3, <1>5 DEF Denier, Refused
  <2>8. \A d \in Limits : verdict'[d] # "bypassed"
    BY <1>1, <1>2, <1>3, <1>8, <2>2 DEF InfoIsLast
  <2>9. InfoIsLast'
    BY <1>3, <1>5, <2>2, <2>6, <2>7, <2>8 DEF InfoIsLast
  <2> QED BY <2>2, <2>3, <2>9
<1> QED BY <1>7, <1>8

\* A check that fails decides nothing.
LEMMA InfoAfterFailure ==
    ASSUME IInv, signal.type = "request", depth \in 1..Bottom, stack' = stack,
           Decide("failed"), state' = state
    PROVE  InfoIsLast'
<1>1. TypeOK /\ InfoIsLast
  BY DEF IInv
<1>2. \A e \in Depths : e >= depth => verdict[e] = "none"
  BY DEF IInv, GoingDown
<1>3. /\ verdict'[depth] = "failed"
      /\ \A e \in Depths : e # depth => verdict'[e] = verdict[e]
  BY DecideOnce DEF Verdicts
<1>4. depth \in Depths /\ verdict[depth] = "none" /\ Limits \subseteq Depths
  BY <1>1, <1>2, StackFacts DEF Limits
<1>5. Limits' = Limits /\ Bottom' = Bottom /\ Depths' = Depths
  BY SameDepths
<1>6. Deciding' = Deciding /\ Denier' = Denier
  <2>1. \A e \in Depths : verdict'[e] = verdict[e] \/ (verdict'[e] = "failed" /\ verdict[e] = "none")
    BY <1>3, <1>4
  <2> QED BY <1>4, <1>5, <2>1 DEF Deciding, Denier
<1>7. LastDecision' = LastDecision
  BY <1>6 DEF LastDecision
<1>8. state.info # NoDecision =>
        /\ state.info \in Depths /\ state.info # depth
        /\ verdict'[state.info] = verdict[state.info]
  <2>1. state.info # NoDecision => state.info \in Limits /\ verdict[state.info] # "none"
    BY <1>1 DEF InfoIsLast, LastDecision, Deciding
  <2> QED BY <1>3, <1>4, <2>1
<1>9. ~state.bypassed => \A d \in Limits : verdict'[d] # "bypassed"
  BY <1>1, <1>3, <1>4 DEF InfoIsLast
<1> QED BY <1>1, <1>5, <1>6, <1>7, <1>8, <1>9 DEF InfoIsLast

LEMMA LimitIInv == ASSUME IInv, Limit PROVE IInv'
<1>1. /\ TypeOK /\ depth \in DOMAIN stack /\ stack[depth] = "limit" /\ signal.type = "request"
      /\ At("limit", "request")
  BY DEF IInv, Limit, At
<1>2. depth \in Depths /\ depth \in 1..Bottom /\ depth \in 2..Bottom
  BY <1>1, StackFacts
<1>3. UNCHANGED <<stack, handled, sent>>
  BY DEF Limit
<1>4. ASSUME Admitted PROVE IInv'
  <2>1. PassDown /\ \E known \in BOOLEAN :
          /\ Decide(IF known THEN "allowed" ELSE "bypassed") /\ state' = Remembered(known)
    BY <1>4 DEF Admitted
  <2>2. PICK k \in BOOLEAN :
          /\ Decide(IF k THEN "allowed" ELSE "bypassed") /\ state' = Remembered(k)
    BY <2>1
  <2>3. PICK what \in {"allowed", "bypassed"} : what = IF k THEN "allowed" ELSE "bypassed"
    OBVIOUS
  <2>4. Decide(what) /\ what \in Verdicts
    BY <2>2, <2>3 DEF Verdicts
  <2>5. IF k THEN what \in {"allowed", "denied", "permanent"} ELSE what = "bypassed"
    BY <2>3
  <2>6. /\ state' \in [info : Depths, bypassed : BOOLEAN]
        /\ state'.bypassed => state'.info = NoDecision
        /\ InfoIsLast'
    BY <1>1, <1>3, <2>2, <2>4, <2>5, Remembers
  <2>7. /\ verdict' \in [Depths -> Verdicts] /\ verdict'[depth] = what
        /\ \A e \in Depths : e # depth => verdict'[e] = verdict[e]
    BY <1>1, <1>2, <1>3, <2>4, DecideOnce
  <2>8. verdict'[depth] \in {"none", "allowed", "bypassed"}
    BY <2>7
  <2> QED BY <1>1, <1>3, <2>1, <2>6, <2>7, <2>8, Down
<1>5. ASSUME Denied PROVE IInv'
  <2>1. PICK retry \in BOOLEAN : /\ Decide(Denial(retry)) /\ state' = Remembered(TRUE)
                                 /\ Raise(Error("RateLimitExceeded", depth, retry))
    BY <1>5 DEF Denied
  <2>2. PICK what \in {"denied", "permanent"} : what = Denial(retry)
    BY DEF Denial
  <2>3. PICK e : e = Error("RateLimitExceeded", depth, retry)
    OBVIOUS
  <2>4. e \in Failures
    BY <1>1, <1>2, <2>3, Made DEF Names
  <2>5. Says(e, what)
    <3>1. /\ e.name = "RateLimitExceeded" /\ e.quota = depth /\ e.retry = retry
      BY <2>3 DEF Error
    <3>2. retry = (what = "denied")
      BY <2>2, Zenon DEF Denial
    <3>3. what # "failed"
      BY <2>2 DEF Denial
    <3> QED BY <3>1, <3>2, <3>3, Zenon DEF Says
  <2>6. what \in Verdicts /\ what \in {"failed", "denied", "permanent"} /\ Decide(what) /\ Raise(e)
    BY <2>1, <2>2, <2>3 DEF Verdicts
  <2>7. IF TRUE THEN what \in {"allowed", "denied", "permanent"} ELSE what = "bypassed"
    BY <2>2
  <2>8. /\ state' \in [info : Depths, bypassed : BOOLEAN]
        /\ state'.bypassed => state'.info = NoDecision
        /\ InfoIsLast'
    BY <1>1, <1>3, <2>1, <2>6, <2>7, Remembers
  <2> QED BY <1>1, <1>2, <1>3, <2>4, <2>5, <2>6, <2>8, Refuse
<1>6. ASSUME CheckFails, UNCHANGED state PROVE IInv'
  <2>1. PICK e \in Errors : Decide("failed") /\ Raise(e)
    BY <1>6 DEF CheckFails
  <2>2. e \in Failures /\ Says(e, "failed")
    BY <1>1, Made DEF Says
  <2>3. InfoIsLast'
    BY <1>1, <1>2, <1>3, <1>6, <2>1, InfoAfterFailure
  <2>4. /\ state' \in [info : Depths, bypassed : BOOLEAN]
        /\ state'.bypassed => state'.info = NoDecision
    BY <1>1, <1>6 DEF TypeOK
  <2> QED BY <1>1, <1>2, <1>3, <2>1, <2>2, <2>3, <2>4, Refuse
<1>7. CheckFails => UNCHANGED state
  BY DEF CheckFails
<1> QED BY <1>4, <1>5, <1>6, <1>7 DEF Limit

LEMMA DispatchIInv == ASSUME IInv, Dispatch PROVE IInv'
<1>1. /\ TypeOK /\ depth \in DOMAIN stack /\ stack[depth] = "headers" /\ signal.type = "request"
      /\ state' = [info |-> NoDecision, bypassed |-> FALSE] /\ PassDown
      /\ stack' = stack /\ UNCHANGED <<stack, handled, sent>> /\ verdict' = verdict
  BY DEF IInv, Dispatch, At
<1>2. \A e \in Depths : e >= depth => verdict[e] = "none"
  BY <1>1 DEF IInv, GoingDown
<1>3. depth \in Depths /\ Limits \subseteq DOMAIN stack /\ DOMAIN stack \subseteq Depths
  BY <1>1, StackFacts DEF Limits
<1>4. /\ state' \in [info : Depths, bypassed : BOOLEAN]
      /\ ~state'.bypassed /\ state'.info = NoDecision
  BY <1>1, Made
<1>5. ASSUME NEW d \in Limits PROVE verdict[d] # "bypassed"
  <2>1. d \in DOMAIN stack /\ stack[d] = "limit"
    BY DEF Limits
  <2>2. ~(d < depth)
    BY <1>1, <2>1, StackFacts
  <2>3. d >= depth
    BY <1>1, <1>3, <2>1, <2>2, StackFacts
  <2> QED BY <1>2, <1>3, <2>1, <2>3
<1>6. InfoIsLast'
  BY <1>1, <1>4, <1>5, SameDepths DEF InfoIsLast
<1>7. /\ verdict' \in [Depths -> Verdicts]
      /\ \A e \in Depths : e # depth => verdict'[e] = verdict[e]
      /\ verdict'[depth] \in {"none", "allowed", "bypassed"}
  <2>1. depth >= depth
    BY <1>1, StackFacts
  <2>2. verdict[depth] = "none"
    BY <1>2, <1>3, <2>1
  <2> QED BY <1>1, <2>2 DEF TypeOK
<1> QED BY <1>1, <1>4, <1>6, <1>7, Down

\* The quota headers added are those of the last decision, so they hold.
LEMMA AnnotatedHonest ==
    ASSUME IInv, NEW r \in Responses, Honest(r), Told(r)
    PROVE  Annotated(r) \in Responses /\ Honest(Annotated(r)) /\ Told(Annotated(r))
<1>1. TypeOK /\ InfoIsLast
  BY DEF IInv
<1>2. CASE r.status = 503 \/ state.info = NoDecision
  BY <1>2 DEF Annotated
<1>3. CASE r.status # 503 /\ state.info # NoDecision
  <2> DEFINE last == verdict[state.info] # "permanent"
  <2>1. Annotated(r) = [type |-> "response", status |-> r.status, quota |-> state.info,
                        reset |-> last \/ r.reset, retry |-> r.retry]
    BY <1>3, Zenon DEF Annotated, Response
  <2>2. PICK a : a = Annotated(r)
    OBVIOUS
  <2>3. /\ r.status \in {200, 422, 429, 500, 503} /\ r.reset \in BOOLEAN /\ r.retry \in BOOLEAN
    BY DEF Responses
  <2>4. state.info \in Depths
    BY <1>1 DEF TypeOK
  <2>5. a \in Responses
    <3> DEFINE b == last \/ r.reset
    <3>1. b \in BOOLEAN
      OBVIOUS
    <3> HIDE DEF b
    <3>2. a = [type |-> "response", status |-> r.status, quota |-> state.info,
               reset |-> b, retry |-> r.retry]
      BY <2>1, <2>2 DEF b
    <3> QED BY ONLY <2>3, <2>4, <3>1, <3>2 DEF Responses
  <2>6. /\ a.status = r.status /\ a.quota = state.info
        /\ a.reset => last \/ r.reset
        /\ a.retry => r.retry
    <3> DEFINE b == last \/ r.reset
    <3>1. b => last \/ r.reset
      OBVIOUS
    <3> HIDE DEF b
    <3>2. a = [type |-> "response", status |-> r.status, quota |-> state.info,
               reset |-> b, retry |-> r.retry]
      BY <2>1, <2>2 DEF b
    <3>3. a.status = r.status /\ a.quota = state.info /\ a.reset = b /\ a.retry = r.retry
      BY ONLY <3>2
    <3> QED BY ONLY <3>1, <3>3, Zenon
  <2>7. Told(a)
    BY <2>6 DEF Told
  <2>8. /\ state.info \in LastDecision
        /\ verdict[state.info] \in {"allowed", "denied", "permanent"}
        /\ Denier \subseteq {state.info, Bottom}
    BY <1>1, <1>3 DEF InfoIsLast
  <2>9. ASSUME NEW d \in Limits PROVE verdict[d] # "bypassed"
    BY <1>1, <1>3 DEF InfoIsLast, TypeOK
  <2>10. ASSUME Denier \ {Bottom} # {} PROVE state.info \in Denier
    BY <2>8, <2>10
  <2>11. ASSUME r.reset PROVE verdict[state.info] # "permanent"
    <3> SUFFICES ASSUME verdict[state.info] = "permanent" PROVE FALSE
      OBVIOUS
    <3>1. state.info \in Denier /\ state.info # Bottom
      <4>1. state.info \in DOMAIN stack /\ state.info \in Depths
        BY <2>4, <2>8 DEF LastDecision, Deciding, Limits
      <4> QED BY <1>1, <4>1, StackFacts DEF Denier
    <3>2. verdict[Bottom] = "none"
      <4>1. state.info \in DOMAIN stack /\ Refused(state.info)
        BY <2>8 DEF LastDecision, Deciding, Limits, Refused
      <4> QED BY <4>1 DEF IInv, NoRefusedServed
    <3>3. r.quota \in Denier /\ verdict[r.quota] # "permanent"
      BY <2>11, <3>1 DEF Honest
    <3>4. Denier = {state.info} \/ Denier = {state.info, Bottom}
      BY <2>8, <3>1
    <3>5. r.quota = Bottom
      BY <3>3, <3>4
    <3> QED BY <3>3, <3>5, <3>2 DEF Denier
  <2>12. Honest(a)
    BY <1>3, <2>6, <2>8, <2>9, <2>10, <2>11 DEF Honest
  <2> QED BY <2>2, <2>5, <2>7, <2>12
<1> QED BY <1>2, <1>3

LEMMA AnnotateIInv == ASSUME IInv, Annotate PROVE IInv'
<1>1. TypeOK /\ depth \in DOMAIN stack /\ signal.type = "response"
  BY DEF IInv, Annotate, At
<1>2. signal \in Responses /\ Honest(signal) /\ Told(signal)
  BY <1>1, Kinds DEF IInv, Answering
<1>3. PICK r : r = Annotated(signal)
  OBVIOUS
<1>4. r \in Responses /\ Honest(r) /\ Told(r)
  <2>1. PICK was \in Responses : was = signal /\ Honest(was) /\ Told(was)
    BY <1>2
  <2>2. /\ Annotated(was) \in Responses /\ Honest(Annotated(was)) /\ Told(Annotated(was))
    BY <2>1, AnnotatedHonest
  <2> QED BY <1>3, <2>1, <2>2
<1> QED BY <1>1, <1>3, <1>4, ResponseUp DEF Annotate

\* An answer to an exception, from the layer it has reached, that ends the request.
LEMMA AnswerError ==
    ASSUME IInv, depth \in DOMAIN stack, signal.type = "error", depth \notin started,
           NEW r \in Responses, Honest(r), Told(r),
           NEW then \in [signal : {Done} \cup Failures, depth : Depths], then.depth <= depth - 1,
           Respond(r, then), UNCHANGED <<stack, handled, state, sent, verdict>>
    PROVE  IInv'
<1>1. TypeOK
  BY DEF IInv
<1>2. depth \in Nat /\ depth \in 1..Bottom /\ depth \in 1..depth
  BY <1>1, StackFacts
<1>3. sent = <<>>
  BY <1>2 DEF IInv, Answered
<1>4. verdict' \in [Depths -> Verdicts]
  BY <1>1 DEF TypeOK
<1>5. Honest(r)' /\ Told(r)' /\ InfoIsLast' /\ NoRefusedServed'
  BY SameTruth, SameInfo DEF IInv
<1> QED BY <1>2, <1>3, <1>4, <1>5, Answer

LEMMA FinishedTyped ==
    ASSUME TypeOK, depth \in 1..Bottom
    PROVE  /\ Finished \in [signal : {Done} \cup Failures, depth : Depths]
           /\ Finished.depth <= depth - 1
BY StackFacts DEF Finished

\* An exception is answered by a denial's or an outage's response, according to
\* its name.
LEMMA AnswerByName ==
    ASSUME IInv, depth \in DOMAIN stack, signal.type = "error", depth \notin started,
           UNCHANGED <<stack, handled, state, sent, verdict>>,
           IF signal.name = "RateLimitExceeded"
           THEN \E retry \in {FALSE, signal.retry} :
                   Respond(Response(DenialStatus(signal.retry), signal.quota, signal.retry, retry),
                           Finished)
           ELSE Respond(Unavailable, Finished)
    PROVE  IInv'
<1>1. TypeOK
  BY DEF IInv
<1>2. depth \in Nat /\ depth \in 1..Bottom /\ depth \in 1..depth
  BY <1>1, StackFacts
<1>3. sent = <<>>
  BY <1>2 DEF IInv, Answered
<1>4. /\ Finished \in [signal : {Done} \cup Failures, depth : Depths]
      /\ Finished.depth <= depth - 1
  BY <1>1, <1>2, FinishedTyped
<1>5. \E r \in Responses : Honest(r) /\ Told(r) /\ Respond(r, Finished)
  <2>1. CASE signal.name = "RateLimitExceeded"
    <3>1. PICK retry \in {FALSE, signal.retry} :
            Respond(Response(DenialStatus(signal.retry), signal.quota, signal.retry, retry), Finished)
      BY <2>1, Zenon
    <3>2. PICK r : r = Response(DenialStatus(signal.retry), signal.quota, signal.retry, retry)
      OBVIOUS
    <3>3. r \in Responses /\ Honest(r) /\ Told(r)
      BY <1>3, <2>1, <3>2, DenialTold
    <3> QED BY <3>1, <3>2, <3>3
  <2>2. CASE signal.name # "RateLimitExceeded"
    <3>1. PICK r : r = Unavailable
      OBVIOUS
    <3>2. r \in Responses /\ Honest(r) /\ Told(r)
      BY <1>3, <2>2, <3>1, OutageTold
    <3> QED BY <2>2, <3>1, <3>2, Zenon
  <2> QED BY <2>1, <2>2
<1> QED BY <1>4, <1>5, AnswerError

LEMMA TranslateIInv == ASSUME IInv, Translate PROVE IInv'
<1>1. /\ TypeOK /\ depth \in DOMAIN stack /\ stack[depth] = "headers"
      /\ signal.type = "error" /\ signal \in Failures
      /\ UNCHANGED <<stack, handled, state, sent, verdict>>
  BY Kinds DEF IInv, Translate, At
<1>2. CASE depth \in started \/ signal.name \notin Translated
  <2>1. PassUp
    BY <1>2, Zenon DEF Translate
  <2>2. signal.name \notin Translated => signal.name = "other"
    BY <1>1 DEF Failures, Names, Translated
  <2> QED BY <1>1, <1>2, <2>1, <2>2, ErrorUp
<1>3. CASE ~(depth \in started \/ signal.name \notin Translated)
  <2>1. IF signal.name = "RateLimitExceeded"
        THEN Respond(Response(DenialStatus(signal.retry), signal.quota, signal.retry, signal.retry),
                     Finished)
        ELSE Respond(Unavailable, Finished)
    BY <1>3, Zenon DEF Translate
  <2> QED BY <1>1, <1>3, <2>1, AnswerByName
<1> QED BY <1>2, <1>3

LEMMA HandlerIInv == ASSUME IInv, Handler PROVE IInv'
<1>1. /\ TypeOK /\ depth \in DOMAIN stack /\ stack[depth] = "handlers" /\ signal.type = "error"
      /\ UNCHANGED <<stack, handled, state, sent, verdict>>
  BY DEF IInv, Handler, At
<1>2. CASE signal.name \notin handled
  <2>1. PassUp
    BY <1>2, Zenon DEF Handler
  <2> QED BY <1>1, <2>1, ErrorUp
<1>3. CASE signal.name \in handled /\ depth \in started
  <2>1. Raise(Error("other", NoDecision, FALSE))
    BY <1>3, Zenon DEF Handler
  <2>2. PICK e : e = Error("other", NoDecision, FALSE)
    OBVIOUS
  <2>3. e \in Failures
    BY <1>1, <2>2, Made DEF Names
  <2> QED BY <1>1, <1>3, <2>1, <2>2, <2>3, ErrorAfter
<1>4. CASE signal.name \in handled /\ depth \notin started
  <2>1. IF signal.name = "RateLimitExceeded"
        THEN \E retry \in {FALSE, signal.retry} :
                Respond(Response(DenialStatus(signal.retry), signal.quota, signal.retry, retry),
                        Finished)
        ELSE Respond(Unavailable, Finished)
    BY <1>4, Zenon DEF Handler
  <2> QED BY <1>1, <1>4, <2>1, AnswerByName
<1> QED BY <1>2, <1>3, <1>4

LEMMA AsgiErrorIInv == ASSUME IInv, AsgiError PROVE IInv'
<1>1. /\ TypeOK /\ depth \in DOMAIN stack /\ stack[depth] = "asgi" /\ signal.type = "error"
      /\ UNCHANGED <<stack, handled, state, sent, verdict>>
  BY DEF IInv, AsgiError, At
<1>2. CASE depth \in started \/ signal.name # "BackendError"
  <2>1. PassUp
    BY <1>2, Zenon DEF AsgiError
  <2> QED BY <1>1, <2>1, ErrorUp
<1>3. CASE ~(depth \in started \/ signal.name # "BackendError")
  <2>1. Respond(Unavailable, Finished)
    BY <1>3, Zenon DEF AsgiError
  <2>2. signal.name # "RateLimitExceeded"
    BY <1>3
  <2> QED BY <1>1, <1>3, <2>1, <2>2, AnswerByName
<1> QED BY <1>2, <1>3

LEMMA ServerErrorIInv == ASSUME IInv, ServerError PROVE IInv'
<1>1. /\ TypeOK /\ depth \in DOMAIN stack /\ stack[depth] = "server" /\ signal.type = "error"
      /\ signal \in Failures /\ At("server", "error")
      /\ UNCHANGED <<stack, handled, state, sent, verdict>>
  BY Kinds DEF IInv, ServerError, At
<1>2. CASE depth \in started
  <2>1. PassUp
    BY <1>2, Zenon DEF ServerError
  <2> QED BY <1>1, <1>2, <2>1, ErrorUp
<1>3. CASE depth \notin started
  <2>1. PICK r : r = Response(500, NoDecision, FALSE, FALSE)
    OBVIOUS
  <2>2. PICK then : then = [signal |-> signal, depth |-> depth - 1]
    OBVIOUS
  <2>3. Respond(r, then)
    BY <1>3, <2>1, <2>2, Zenon DEF ServerError
  <2>4. depth \in 1..depth /\ depth - 1 \in Depths
    BY <1>1, StackFacts
  <2>5. then \in [signal : {Done} \cup Failures, depth : Depths] /\ then.depth <= depth - 1
    <3>1. then.depth = depth - 1 /\ depth - 1 <= depth - 1
      BY <1>1, <2>2, StackFacts
    <3> QED BY <1>1, <2>2, <2>4, <3>1
  <2>6. sent = <<>>
    BY <1>1, <1>3, <2>4 DEF IInv, Answered
  <2>7. r \in Responses /\ Honest(r) /\ Told(r)
    BY <1>1, <2>1, <2>6, ServerTold
  <2> QED BY <1>1, <1>3, <2>3, <2>5, <2>7, AnswerError
<1> QED BY <1>2, <1>3

\* What RateLimitMiddleware answers when its own check denies or fails.
LEMMA AsgiAnswers ==
    ASSUME IInv, depth \in DOMAIN stack, stack[depth] = "asgi", signal.type = "request",
           NEW what \in {"failed", "denied", "permanent"}, Decide(what),
           NEW r \in Responses, Respond(r, Finished),
           UNCHANGED <<stack, handled, state, sent>>,
           IF what = "failed"
           THEN r = Plain(503)
           ELSE \E retry \in BOOLEAN :
                   /\ what = Denial(retry)
                   /\ r = Response(DenialStatus(retry), depth, retry, retry)
    PROVE  IInv'
<1>1. TypeOK /\ depth \in 1..Bottom /\ depth \in Depths /\ depth # 0
  BY StackFacts DEF IInv
<1>2. what \in Verdicts
  BY DEF Verdicts
<1>3. /\ verdict' \in [Depths -> Verdicts] /\ verdict'[depth] = what
      /\ \A e \in Depths : e # depth => ~Refused(e)'
      /\ NoRefusedServed'
  BY <1>1, <1>2, DecideOnce
<1>4. InfoIsLast'
  BY <1>1, <1>2, InfoStays
<1>5. Depths' = Depths /\ Bottom' = Bottom
  BY SameDepths
<1>6. CASE what = "failed"
  <2>1. r = Plain(503)
    BY <1>6, Zenon
  <2>2. r.status = 503 /\ r.quota = NoDecision /\ ~r.reset /\ ~r.retry
    BY <2>1, Zenon DEF Plain, Response
  <2>3. Honest(r)'
    BY <2>2 DEF Honest
  <2>4. Told(r)'
    BY <1>3, <1>5, <1>6, <2>2 DEF Told, Telling
  <2> QED BY <1>1, <1>3, <1>4, <2>3, <2>4, FinishedTyped, Answer DEF IInv, GoingDown
<1>7. CASE what # "failed"
  <2>1. PICK retry \in BOOLEAN :
          /\ what = Denial(retry) /\ r = Response(DenialStatus(retry), depth, retry, retry)
    BY <1>7, Zenon
  <2>2. /\ r.status = DenialStatus(retry) /\ r.quota = depth /\ r.reset = retry /\ r.retry = retry
    BY <2>1, Zenon DEF Response
  <2>3. Denier' = {depth}
    BY <1>1, <1>3, <1>5, <1>7 DEF Denier, Refused
  <2>4. CASE retry = TRUE
    <3>1. what = "denied" /\ r.status = 429 /\ r.quota = depth
      <4>1. Denial(retry) = "denied" /\ DenialStatus(retry) = 429
        BY <2>4 DEF Denial, DenialStatus
      <4> QED BY ONLY <2>1, <2>2, <4>1, Zenon
    <3>2. Told(r)'
      BY <1>3, <1>5, <3>1 DEF Told, Telling
    <3>3. Honest(r)'
      BY <1>1, <1>3, <1>5, <2>3, <3>1 DEF Honest, NoDecision
    <3> QED BY <1>1, <1>3, <1>4, <3>2, <3>3, FinishedTyped, Answer DEF IInv, GoingDown
  <2>5. CASE retry = FALSE
    <3>1. what = "permanent" /\ r.status = 422 /\ r.quota = depth
      BY <2>1, <2>2, <2>5 DEF Denial, DenialStatus
    <3>2. ~r.reset /\ ~r.retry
      BY <2>2, <2>5, Zenon
    <3>3. Told(r)'
      BY <1>3, <1>5, <3>1 DEF Told, Telling
    <3>4. Honest(r)'
      BY <1>1, <1>3, <1>5, <2>3, <3>1, <3>2 DEF Honest
    <3> QED BY <1>1, <1>3, <1>4, <3>3, <3>4, FinishedTyped, Answer DEF IInv, GoingDown
  <2> QED BY <2>4, <2>5
<1> QED BY <1>6, <1>7

LEMMA AsgiCheckIInv == ASSUME IInv, AsgiCheck PROVE IInv'
<1>1. /\ TypeOK /\ depth \in DOMAIN stack /\ stack[depth] = "asgi" /\ signal.type = "request"
      /\ UNCHANGED <<stack, handled, state, sent>>
  BY DEF IInv, AsgiCheck, At
<1>2. depth \in Depths /\ depth \in 1..Bottom /\ depth \in 2..Bottom
  BY <1>1, StackFacts
<1>3. /\ state' \in [info : Depths, bypassed : BOOLEAN]
      /\ state'.bypassed => state'.info = NoDecision
  BY <1>1 DEF TypeOK
<1>4. ASSUME PassDown, UNCHANGED verdict PROVE IInv'
  <2>1. \A e \in Depths : e >= depth => verdict[e] = "none"
    BY <1>1 DEF IInv, GoingDown
  <2>2. verdict[depth] = "none"
    BY <1>1, <1>2, <2>1, StackFacts
  <2>3. verdict' \in [Depths -> Verdicts] /\ verdict'[depth] \in {"none", "allowed", "bypassed"}
        /\ \A e \in Depths : e # depth => verdict'[e] = verdict[e]
    BY <1>1, <1>4, <2>2 DEF TypeOK
  <2>4. InfoIsLast'
    BY <1>1, <1>4, SameInfo DEF IInv
  <2> QED BY <1>1, <1>3, <1>4, <2>3, <2>4, Down
<1>5. ASSUME PassDown, NEW what \in {"allowed", "bypassed"}, Decide(what) PROVE IInv'
  <2>1. what \in Verdicts
    BY DEF Verdicts
  <2>2. /\ verdict' \in [Depths -> Verdicts] /\ verdict'[depth] \in {"none", "allowed", "bypassed"}
        /\ \A e \in Depths : e # depth => verdict'[e] = verdict[e]
    BY <1>1, <1>2, <1>5, <2>1, DecideOnce
  <2>3. InfoIsLast'
    BY <1>1, <1>2, <1>5, <2>1, InfoStays
  <2> QED BY <1>1, <1>3, <1>5, <2>2, <2>3, Down
<1>6. ASSUME AsgiDenies PROVE IInv'
  <2>1. PICK retry \in BOOLEAN :
          /\ Decide(Denial(retry))
          /\ Respond(Response(DenialStatus(retry), depth, retry, retry), Finished)
    BY <1>6 DEF AsgiDenies
  <2>2. PICK r : r = Response(DenialStatus(retry), depth, retry, retry)
    OBVIOUS
  <2>3. r \in Responses
    <3>1. DenialStatus(retry) \in {200, 422, 429, 500, 503}
      BY DEF DenialStatus
    <3> QED BY ONLY <1>2, <2>2, <3>1, retry \in BOOLEAN DEF Response, Responses
  <2>4. PICK what \in {"denied", "permanent"} : what = Denial(retry)
    BY DEF Denial
  <2>5. IF what = "failed"
        THEN r = Plain(503)
        ELSE \E again \in BOOLEAN :
                /\ what = Denial(again)
                /\ r = Response(DenialStatus(again), depth, again, again)
    <3>1. what # "failed"
      OBVIOUS
    <3> QED BY <2>2, <2>4, <3>1, Zenon
  <2>6. Decide(what) /\ Respond(r, Finished) /\ what \in {"failed", "denied", "permanent"}
    BY <2>1, <2>2, <2>4
  <2> QED BY <1>1, <2>3, <2>5, <2>6, AsgiAnswers
<1>7. ASSUME Decide("failed"), Respond(Unavailable, Finished) PROVE IInv'
  <2>1. PICK r : r = Plain(503)
    OBVIOUS
  <2>2. Respond(r, Finished) /\ r \in Responses
    BY <1>1, <1>7, <2>1, PlainHonest DEF Unavailable, Plain
  <2> QED BY <1>1, <1>7, <2>1, <2>2, AsgiAnswers
<1>8. ASSUME Decide("failed"), Raise(Error("other", NoDecision, FALSE)) PROVE IInv'
  <2>1. PICK e : e = Error("other", NoDecision, FALSE)
    OBVIOUS
  <2>2. e \in Failures /\ Says(e, "failed")
    BY <1>1, <2>1, Made DEF Names, Says, Error
  <2>3. InfoIsLast'
    BY <1>1, <1>2, <1>8, InfoAfterFailure
  <2> QED BY <1>1, <1>2, <1>3, <1>8, <2>1, <2>2, <2>3, Refuse
<1> QED BY <1>4, <1>5, <1>6, <1>7, <1>8 DEF AsgiCheck, AsgiAdmits, AsgiFails

LEMMA EndpointIInv == ASSUME IInv, Endpoint PROVE IInv'
<1> DEFINE thens == {Finished} \cup {[signal |-> e, depth |-> depth - 1] : e \in Errors}
<1>1. /\ TypeOK /\ depth = Bottom /\ signal.type = "request"
      /\ UNCHANGED <<stack, handled, state, sent>>
  BY DEF IInv, Endpoint, Request
<1>2. depth \in Depths /\ depth \in 1..Bottom /\ depth \in 2..Bottom /\ depth \notin DOMAIN stack
  <2>1. Len(stack) # 0 /\ Len(stack) \in Nat /\ Bottom = Len(stack) + 1 /\ DOMAIN stack = 1..Len(stack)
        /\ Depths = 0..Bottom
    BY <1>1, StackFacts
  <2> QED BY <1>1, <2>1
<1>3. /\ state' \in [info : Depths, bypassed : BOOLEAN]
      /\ state'.bypassed => state'.info = NoDecision
  BY <1>1 DEF TypeOK
<1>4. ASSUME NEW status \in {200, 503},
             NEW then \in thens, Respond(Plain(status), then), Decide("answered")
      PROVE  IInv'
  <2>1. PICK r : r = Plain(status)
    OBVIOUS
  <2>2. Respond(r, then)
    BY <1>4, <2>1
  <2>3. r \in Responses
    BY <1>1, <2>1, PlainHonest
  <2>4. r.quota = NoDecision /\ ~r.reset /\ ~r.retry
    BY <2>1, Zenon DEF Plain, Response
  <2>5. /\ verdict' \in [Depths -> Verdicts] /\ verdict'[depth] = "answered"
        /\ \A e \in Depths : e # depth => ~Refused(e)'
        /\ NoRefusedServed'
    BY <1>1, <1>2, <1>4, DecideOnce DEF Verdicts
  <2>6. Honest(r)'
    BY <2>4 DEF Honest
  <2>7. Told(r)'
    <3>1. \A e \in Depths : ~Refused(e)'
      BY <2>5 DEF Refused
    <3> QED BY <1>1, <3>1, SameDepths DEF Told
  <2>8. InfoIsLast'
    BY <1>1, <1>2, <1>4, InfoStays DEF Verdicts
  <2>9. then \in [signal : {Done} \cup Failures, depth : Depths] /\ then.depth <= depth - 1
    <3>1. CASE then = Finished
      BY <1>1, <1>2, <3>1, FinishedTyped
    <3>2. ASSUME NEW e \in Errors, then = [signal |-> e, depth |-> depth - 1]
          PROVE  then \in [signal : {Done} \cup Failures, depth : Depths] /\ then.depth <= depth - 1
      <4>1. e \in Failures
        BY <1>1, Made
      <4>2. depth - 1 \in Depths /\ depth - 1 <= depth - 1
        BY <1>1, <1>2, StackFacts
      <4> QED BY <3>2, <4>1, <4>2
    <3> QED BY <3>1, <3>2
  <2> QED BY <1>1, <1>2, <2>2, <2>3, <2>5, <2>6, <2>7, <2>8, <2>9, Answer DEF IInv, GoingDown
<1>5. ASSUME NEW e \in Errors, Raise(e), Decide("failed") PROVE IInv'
  <2>1. e \in Failures /\ Says(e, "failed")
    BY <1>1, Made DEF Says
  <2>2. InfoIsLast'
    BY <1>1, <1>2, <1>5, InfoAfterFailure
  <2> QED BY <1>1, <1>2, <1>3, <1>5, <2>1, <2>2, Refuse
<1>6. ASSUME NEW e \in Exceeded(Bottom), Raise(e), Decide(Denial(e.retry)) PROVE IInv'
  <2>1. PICK retry \in BOOLEAN : e = Error("RateLimitExceeded", Bottom, retry)
    BY DEF Exceeded
  <2>2. e \in Failures
    BY <1>1, <1>2, <2>1, Made DEF Names
  <2>3. e.name = "RateLimitExceeded" /\ e.quota = Bottom /\ e.retry = retry
    BY <2>1 DEF Error
  <2>4. PICK what \in {"denied", "permanent"} : what = Denial(retry)
    BY DEF Denial
  <2>5. Says(e, what)
    <3>1. retry = (what = "denied")
      BY <2>4, Zenon DEF Denial
    <3>2. what # "failed"
      OBVIOUS
    <3> QED BY <1>1, <2>3, <3>1, <3>2, Zenon DEF Says
  <2>6. Decide(what) /\ what \in Verdicts /\ what \in {"failed", "denied", "permanent"}
    BY <1>6, <2>3, <2>4 DEF Verdicts
  <2>7. InfoIsLast'
    BY <1>1, <1>2, <2>6, InfoStays
  <2> QED BY <1>1, <1>2, <1>3, <1>6, <2>2, <2>5, <2>6, <2>7, Refuse
<1>7. \/ /\ Decide("answered")
         /\ \E status \in {200, 503}, then \in thens : Respond(Plain(status), then)
      \/ Decide("failed") /\ \E e \in Errors : Raise(e)
      \/ \E e \in Exceeded(Bottom) : Raise(e) /\ Decide(Denial(e.retry))
  BY Zenon DEF Endpoint, Plain
<1> HIDE DEF thens
<1>8. CASE /\ Decide("answered")
           /\ \E status \in {200, 503}, then \in thens : Respond(Plain(status), then)
  BY ONLY <1>4, <1>8
<1>9. CASE Decide("failed") /\ \E e \in Errors : Raise(e)
  BY ONLY <1>5, <1>9
<1>10. CASE \E e \in Exceeded(Bottom) : Raise(e) /\ Decide(Denial(e.retry))
  BY ONLY <1>6, <1>10
<1> QED BY ONLY <1>7, <1>8, <1>9, <1>10

LEMMA UnconcernedIInv == ASSUME IInv, Unconcerned PROVE IInv'
<1>1. TypeOK /\ UNCHANGED <<stack, handled, state, sent, verdict>>
  BY DEF IInv, Unconcerned
<1>2. CASE (\E l \in {"handlers", "server"} : At(l, "request")) /\ PassDown
  <2>1. depth \in DOMAIN stack /\ depth \in Depths /\ depth >= depth /\ signal.type = "request"
    BY <1>1, <1>2, StackFacts DEF At
  <2>2. verdict[depth] = "none"
    BY <2>1 DEF IInv, GoingDown
  <2>3. /\ verdict' \in [Depths -> Verdicts] /\ verdict'[depth] \in {"none", "allowed", "bypassed"}
        /\ \A e \in Depths : e # depth => verdict'[e] = verdict[e]
        /\ state' \in [info : Depths, bypassed : BOOLEAN]
        /\ state'.bypassed => state'.info = NoDecision
    BY <1>1, <2>2 DEF TypeOK
  <2>4. InfoIsLast'
    BY <1>1, SameInfo DEF IInv
  <2> QED BY <1>1, <1>2, <2>1, <2>3, <2>4, Down
<1>3. CASE (\E l \in Layers \ {"headers"} : At(l, "response")) /\ PassUp
  <2>1. depth \in DOMAIN stack /\ signal.type = "response"
    BY <1>3 DEF At
  <2>2. PICK r : r = signal
    OBVIOUS
  <2>3. r \in Responses /\ Honest(r) /\ Told(r)
    BY <1>1, <2>1, <2>2, Kinds DEF IInv, Answering
  <2>4. /\ signal' = r /\ depth' = depth - 1 /\ started' = started \cup {depth}
        /\ UNCHANGED later
    BY <1>3, <2>1, <2>2 DEF PassUp
  <2> QED BY <1>1, <2>1, <2>3, <2>4, ResponseUp
<1>4. CASE At("limit", "error") /\ PassUp
  BY <1>1, <1>4, ErrorUp DEF At
<1> QED BY <1>2, <1>3, <1>4 DEF Unconcerned

LEMMA ReceiveIInv == ASSUME IInv, Receive PROVE IInv'
<1>1. /\ TypeOK /\ depth = 0 /\ signal.type = "response" /\ sent = <<>>
      /\ Honest(signal) /\ Told(signal) /\ signal \in Responses
      /\ later.signal.type = "error" => \A d \in 1..later.depth : d <= depth \/ d \in started
  BY Kinds DEF IInv, Receive, Answering
<1>2. /\ stack' = stack /\ verdict' = verdict /\ state' = state
      /\ Bottom' = Bottom /\ Depths' = Depths
      /\ Responses' = Responses /\ Failures' = Failures
  BY SameDepths DEF Receive
<1>3. /\ sent' = Append(sent, signal) /\ signal' = later.signal /\ depth' = later.depth
      /\ later' = Finished /\ started' = started /\ handled' = handled
  BY DEF Receive
<1>4. later.signal \in {Done} \cup Failures /\ later.depth \in Depths
  BY <1>1 DEF TypeOK
<1>5. later.signal.type \in {"done", "error"}
  BY <1>4 DEF Failures, Done
<1>6. sent' = <<signal>> /\ sent' \in Seq(Responses) /\ sent' # <<>>
  BY <1>1, <1>3
<1>7. later' \in [signal : {Done} \cup Failures, depth : Depths]
  <2>1. 0 \in Depths
    BY <1>1, StackFacts
  <2> QED BY <1>3, <2>1 DEF Finished
<1>8. TypeOK'
  BY <1>1, <1>2, <1>3, <1>4, <1>6, <1>7 DEF TypeOK
<1>9. GoingDown' /\ GoingUp' /\ Answering' /\ NothingElseLater'
  BY <1>3, <1>5, <1>6 DEF GoingDown, GoingUp, Answering, NothingElseLater
<1>10. Answered'
  <2>1. PICK r : r = signal
    OBVIOUS
  <2>2. Honest(r)' /\ Told(r)'
    BY <1>1, <1>2, <2>1, SameTruth
  <2>3. Len(sent') = 1 /\ sent'[1] = r
    BY <1>6, <2>1
  <2>4. Honest(sent[1])' /\ Told(sent[1])'
    BY <2>2, <2>3 DEF Honest, Told
  <2>5. ASSUME later.signal.type = "error" PROVE 1..later.depth \subseteq started
    <3> SUFFICES ASSUME NEW d \in 1..later.depth PROVE d \in started
      OBVIOUS
    <3>1. d >= 1
      BY <1>1, <1>4, StackFacts
    <3> QED BY <1>1, <2>5, <3>1
  <2> QED BY <1>3, <1>6, <2>3, <2>4, <2>5 DEF Answered
<1>11. InfoIsLast' /\ NoRefusedServed'
  BY <1>2, SameInfo, SameTruth DEF IInv
<1> QED BY <1>8, <1>9, <1>10, <1>11 DEF IInv

\* An exception that reaches the client has been answered before: the outermost
\* layer is a server.
LEMMA AbortIInv == ASSUME IInv, Abort PROVE IInv'
<1>1. TypeOK /\ depth = 0 /\ signal.type = "error"
  BY DEF IInv, Abort
<1>2. /\ stack' = stack /\ verdict' = verdict /\ state' = state
      /\ Bottom' = Bottom /\ Depths' = Depths
      /\ Responses' = Responses /\ Failures' = Failures
  BY SameDepths DEF Abort
<1>3. /\ signal' = Done /\ depth' = depth /\ later' = later /\ sent' = sent
      /\ started' = started /\ handled' = handled
  BY DEF Abort
<1>4. Done.type = "done"
  BY DEF Done
<1>5. sent # <<>>
  <2> SUFFICES ASSUME sent = <<>> PROVE FALSE
    OBVIOUS
  <2>1. PICK d \in Depths : Raised(d)
    BY <1>1 DEF IInv, GoingUp
  <2>2. 1 \in (depth + 1)..(d - 1)
    BY <1>1, <2>1, StackFacts DEF Raised
  <2> QED BY <1>1, <2>1, <2>2, StackFacts DEF Raised
<1>6. TypeOK'
  BY <1>1, <1>2, <1>3 DEF TypeOK
<1>7. GoingDown' /\ GoingUp' /\ Answering' /\ NothingElseLater'
  BY <1>1, <1>3, <1>4, <1>5 DEF IInv, GoingDown, GoingUp, Answering, NothingElseLater, Finished
<1>8. Answered'
  <2>1. PICK r : r = sent[1]
    OBVIOUS
  <2>2. Len(sent) = 1 /\ Honest(r) /\ Told(r)
    BY <1>5, <2>1 DEF IInv, Answered
  <2>3. Honest(r)' /\ Told(r)'
    BY <1>2, <2>2, SameTruth
  <2>4. Honest(sent[1])' /\ Told(sent[1])'
    BY <1>3, <2>1, <2>3 DEF Honest, Told
  <2> QED BY <1>3, <1>4, <1>5, <2>2, <2>4 DEF Answered
<1>9. InfoIsLast' /\ NoRefusedServed'
  BY <1>2, SameInfo, SameTruth DEF IInv
<1> QED BY <1>6, <1>7, <1>8, <1>9 DEF IInv

LEMMA StutterIInv == ASSUME IInv, UNCHANGED vars PROVE IInv'
BY DEF IInv, vars, TypeOK, GoingDown, GoingUp, Raised, Answering, Answered, NothingElseLater,
       InfoIsLast, NoRefusedServed, Honest, Told, Telling, Refused, Sees, Denier, Deciding,
       LastDecision, Limits, Depths, Bottom, Responses, Failures

LEMMA NextIInv == IInv /\ [Next]_vars => IInv'
BY LimitIInv, DispatchIInv, AnnotateIInv, TranslateIInv, AsgiCheckIInv, AsgiErrorIInv,
   HandlerIInv, ServerErrorIInv, EndpointIInv, UnconcernedIInv, ReceiveIInv, AbortIInv,
   StutterIInv DEF Next

LEMMA Inductive == Spec => []IInv
BY InitIInv, NextIInv, PTL DEF Spec

-----------------------------------------------------------------------------
\* "Once ASGI response headers have been sent, an error is propagated rather
\* than starting a second response": no request is answered twice, whatever
\* fails, however the middlewares and applications are nested; and its path
\* keeps its shape.
THEOREM OneResponseOnly == Spec => []PathSound
<1>1. IInv => PathSound
  <2>1. IInv => sent = <<>> \/ Len(sent) = 1
    BY DEF IInv, Answered
  <2>2. sent = <<>> => Len(sent) = 0
    OBVIOUS
  <2>3. IInv => TypeOK
    BY DEF IInv
  <2> QED BY <2>1, <2>2, <2>3 DEF PathSound, OneResponse
<1> QED BY <1>1, Inductive, PTL

\* The quota headers a client receives are those of a decision that was made:
\* the last one on a success, the denial's own on a denial, none if a decorator
\* was bypassed or Redis could not decide.
THEOREM QuotasAreTrue == Spec => []QuotaHeadersTrue
<1>1. IInv => QuotaHeadersTrue
  <2> SUFFICES ASSUME IInv, NEW i \in DOMAIN sent PROVE Honest(sent[i])
    BY DEF QuotaHeadersTrue
  <2>1. sent \in Seq(Responses)
    BY DEF IInv, TypeOK
  <2>2. sent # <<>> /\ DOMAIN sent = 1..Len(sent)
    BY <2>1
  <2>3. i = 1
    BY <2>2 DEF IInv, Answered
  <2> QED BY <2>2, <2>3 DEF IInv, Answered
<1> QED BY <1>1, Inductive, PTL

\* A request that a policy refused is not served, and below the headers
\* middleware a denial is told as 429 or 422 and an outage never as a success,
\* whichever layers turn the exception into a response.
THEOREM RefusalsTold == Spec => []RefusalsAreTold
<1>1. IInv => RefusalsAreTold
  BY DEF IInv, Answered, RefusalsAreTold, Done
<1> QED BY <1>1, Inductive, PTL
=============================================================================
