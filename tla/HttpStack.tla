----------------------------- MODULE HttpStack -----------------------------
(***************************************************************************)
(* One HTTP request through an application that uses moderato.  A request  *)
(* goes down through the layers of `stack', outermost first, to the        *)
(* endpoint; what comes back up is the start of a response or an           *)
(* exception, and every layer may pass it on, change it or answer in its   *)
(* place.  The layers:                                                     *)
(*   "limit"     a decorator made by create_limit_decorator,               *)
(*   "headers"   RateLimitHeadersMiddleware,                               *)
(*   "asgi"      RateLimitMiddleware,                                      *)
(*   "handlers"  the application's own exception handlers,                 *)
(*   "server"    the outermost layer of an application or mounted child,   *)
(*               which answers 500 and raises again.                       *)
(* A decision is named by the depth it was made at; the endpoint may make  *)
(* one itself with limiter.check().                                        *)
(***************************************************************************)
EXTENDS Naturals, Sequences

CONSTANT
    Stacks          \* the applications

Layers == {"limit", "headers", "asgi", "handlers", "server"}

\* A decorator wraps the endpoint's function, so all other layers are around it.
ASSUME HttpStackAssumption ==
    \A s \in Stacks :
        /\ s \in Seq(Layers) /\ s # <<>> /\ s[1] = "server"
        /\ \A d, e \in DOMAIN s : d < e /\ s[d] = "limit" => s[e] = "limit"

VARIABLES
    stack,          \* the application's layers
    handled,        \* the exceptions it has handlers for
    depth,          \* the layer that acts next; 0 is the client
    signal,         \* what has reached it
    later,          \* what the sender of a response does once it is sent
    state,          \* request.state: rate_limit_info, rate_limit_bypassed
    started,        \* the layers a response start has passed
    sent,           \* the response starts the client received
    verdict         \* history: what was decided at each depth

vars == <<stack, handled, depth, signal, later, state, started, sent, verdict>>

Bottom == Len(stack) + 1
Depths == 0..Bottom
NoDecision == 0

Request == [type |-> "request"]
Done == [type |-> "done"]
Response(status, quota, reset, retry) ==
    [type |-> "response", status |-> status, quota |-> quota, reset |-> reset, retry |-> retry]
Error(name, quota, retry) == [type |-> "error", name |-> name, quota |-> quota, retry |-> retry]

Names == {"BackendError", "RateLimitCallbackError", "RateLimitExceeded", "other"}
Errors == {Error(n, NoDecision, FALSE) : n \in Names \ {"RateLimitExceeded"}}
Exceeded(quota) == {Error("RateLimitExceeded", quota, retry) : retry \in BOOLEAN}
Finished == [signal |-> Done, depth |-> 0]

Init ==
    /\ stack \in Stacks
    /\ handled \in SUBSET (Names \ {"other"})
    /\ depth = 1
    /\ signal = Request
    /\ later = Finished
    /\ state = [info |-> NoDecision, bypassed |-> FALSE]
    /\ started = {}
    /\ sent = <<>>
    /\ verdict = [d \in Depths |-> "none"]

At(layer, type) == depth \in DOMAIN stack /\ stack[depth] = layer /\ signal.type = type

-----------------------------------------------------------------------------
(* What a layer can do.                                                    *)

PassDown ==
    /\ depth' = depth + 1
    /\ UNCHANGED <<signal, later, started>>

PassUp ==
    /\ depth' = depth - 1
    /\ started' = IF signal.type = "response" THEN started \cup {depth} ELSE started
    /\ UNCHANGED <<signal, later>>

Respond(response, then) ==
    /\ signal' = response
    /\ later' = then
    /\ depth' = depth - 1
    /\ UNCHANGED started

Raise(error) ==
    /\ signal' = error
    /\ depth' = depth - 1
    /\ UNCHANGED <<later, started>>

Decide(what) == verdict' = [verdict EXCEPT ![depth] = what]

Denial(retry) == IF retry THEN "denied" ELSE "permanent"
DenialStatus(retry) == IF retry THEN 429 ELSE 422
Unavailable == Response(503, NoDecision, FALSE, FALSE)

-----------------------------------------------------------------------------
(* The decorator.                                                          *)

\* "Any bypass in a decorator stack suppresses successful quota headers."
Remembered(known) ==
    LET bypassed == state.bypassed \/ ~known
    IN  [info |-> IF bypassed THEN NoDecision ELSE depth, bypassed |-> bypassed]

Admitted ==
    /\ \E known \in BOOLEAN :
          /\ Decide(IF known THEN "allowed" ELSE "bypassed")
          /\ state' = Remembered(known)
    /\ PassDown

Denied ==
    \E retry \in BOOLEAN :
        /\ Decide(Denial(retry))
        /\ state' = Remembered(TRUE)
        /\ Raise(Error("RateLimitExceeded", depth, retry))

\* A callback fails, Redis does, or the configuration is wrong.
CheckFails ==
    /\ Decide("failed")
    /\ \E e \in Errors : Raise(e)
    /\ UNCHANGED state

Limit ==
    /\ At("limit", "request")
    /\ Admitted \/ Denied \/ CheckFails
    /\ UNCHANGED <<stack, handled, sent>>

-----------------------------------------------------------------------------
(* RateLimitHeadersMiddleware.                                             *)

Dispatch ==
    /\ At("headers", "request")
    /\ state' = [info |-> NoDecision, bypassed |-> FALSE]
    /\ PassDown
    /\ UNCHANGED <<stack, handled, sent, verdict>>

\* Mutant: an outage keeps the quota of the last admission.
AnnotatedAlways(r) ==
    IF state.info = NoDecision
    THEN r
    ELSE Response(r.status, state.info, verdict[state.info] # "permanent", r.retry)
\* The quota headers of the last decision replace what the response has.
Annotated(r) ==
    IF r.status = 503 \/ state.info = NoDecision
    THEN r
    ELSE Response(r.status, state.info, verdict[state.info] # "permanent" \/ r.reset, r.retry)

Annotate ==
    /\ At("headers", "response")
    /\ signal' = Annotated(signal)
    /\ started' = started \cup {depth}
    /\ depth' = depth - 1
    /\ UNCHANGED <<stack, handled, later, state, sent, verdict>>

\* Mutant: a denial is left to the server.
TranslatedFailures == {"BackendError", "RateLimitCallbackError"}
Translated == {"BackendError", "RateLimitCallbackError", "RateLimitExceeded"}

\* call_next raises only before the response has started.
Translate ==
    /\ At("headers", "error")
    /\ IF depth \in started \/ signal.name \notin Translated
       THEN PassUp
       ELSE IF signal.name = "RateLimitExceeded"
       THEN Respond(Response(DenialStatus(signal.retry), signal.quota, signal.retry, signal.retry),
                    Finished)
       ELSE Respond(Unavailable, Finished)
    /\ UNCHANGED <<stack, handled, state, sent, verdict>>

-----------------------------------------------------------------------------
(* RateLimitMiddleware.                                                    *)

\* An excluded path is not checked.
AsgiAdmits ==
    /\ \/ UNCHANGED verdict
       \/ \E what \in {"allowed", "bypassed"} : Decide(what)
    /\ PassDown

AsgiDenies ==
    \E retry \in BOOLEAN :
        /\ Decide(Denial(retry))
        /\ Respond(Response(DenialStatus(retry), depth, retry, retry), Finished)

AsgiFails ==
    /\ Decide("failed")
    /\ Respond(Unavailable, Finished) \/ Raise(Error("other", NoDecision, FALSE))

AsgiCheck ==
    /\ At("asgi", "request")
    /\ AsgiAdmits \/ AsgiDenies \/ AsgiFails
    /\ UNCHANGED <<stack, handled, state, sent>>

\* Mutant: the outage is answered although a response has started.
AsgiErrorAgain ==
    /\ At("asgi", "error")
    /\ IF signal.name # "BackendError" THEN PassUp ELSE Respond(Unavailable, Finished)
    /\ UNCHANGED <<stack, handled, state, sent, verdict>>
\* Mutant: the outage ends the request without an answer.
AsgiErrorSwallowed ==
    /\ At("asgi", "error")
    /\ IF depth \in started \/ signal.name # "BackendError"
       THEN PassUp
       ELSE /\ signal' = Done /\ depth' = 0
            /\ UNCHANGED <<later, started>>
    /\ UNCHANGED <<stack, handled, state, sent, verdict>>
AsgiError ==
    /\ At("asgi", "error")
    /\ IF depth \in started \/ signal.name # "BackendError"
       THEN PassUp
       ELSE Respond(Unavailable, Finished)
    /\ UNCHANGED <<stack, handled, state, sent, verdict>>

-----------------------------------------------------------------------------
(* The application and its framework.                                      *)

\* A handler answers with the status the exception asks for.  It may leave
\* out Retry-After.  Once a response has started it cannot answer any more.
Handler ==
    /\ At("handlers", "error")
    /\ IF signal.name \notin handled
       THEN PassUp
       ELSE IF depth \in started
       THEN Raise(Error("other", NoDecision, FALSE))
       ELSE IF signal.name = "RateLimitExceeded"
       THEN \E retry \in {FALSE, signal.retry} :
               Respond(Response(DenialStatus(signal.retry), signal.quota, signal.retry, retry),
                       Finished)
       ELSE Respond(Unavailable, Finished)
    /\ UNCHANGED <<stack, handled, state, sent, verdict>>

ServerError ==
    /\ At("server", "error")
    /\ IF depth \in started
       THEN PassUp
       ELSE Respond(Response(500, NoDecision, FALSE, FALSE),
                    [signal |-> signal, depth |-> depth - 1])
    /\ UNCHANGED <<stack, handled, state, sent, verdict>>

\* It answers, and may fail while it streams the body, or it raises: a
\* limiter's exception from check(), get_usage() or reset(), or another one.
Endpoint ==
    /\ depth = Bottom /\ signal = Request
    /\ \/ /\ \E status \in {200, 503}, then \in {Finished} \cup
                {[signal |-> e, depth |-> depth - 1] : e \in Errors} :
                Respond(Response(status, NoDecision, FALSE, FALSE), then)
          /\ Decide("answered")
       \/ /\ \E e \in Errors : Raise(e)
          /\ Decide("failed")
       \/ \E e \in Exceeded(Bottom) : Raise(e) /\ Decide(Denial(e.retry))
    /\ UNCHANGED <<stack, handled, state, sent>>

\* The layers and messages that nobody looks at.
Unconcerned ==
    /\ \/ (\E l \in {"handlers", "server"} : At(l, "request")) /\ PassDown
       \/ (\E l \in Layers \ {"headers"} : At(l, "response")) /\ PassUp
       \/ At("limit", "error") /\ PassUp
    /\ UNCHANGED <<stack, handled, state, sent, verdict>>

\* The client receives the start of a response; its sender goes on.
Receive ==
    /\ depth = 0 /\ signal.type = "response"
    /\ sent' = Append(sent, signal)
    /\ signal' = later.signal
    /\ depth' = later.depth
    /\ later' = Finished
    /\ UNCHANGED <<stack, handled, state, started, verdict>>

\* The connection is closed.
Abort ==
    /\ depth = 0 /\ signal.type = "error"
    /\ signal' = Done
    /\ UNCHANGED <<stack, handled, depth, later, state, started, sent, verdict>>

-----------------------------------------------------------------------------
Next ==
    \/ Limit
    \/ Dispatch \/ Annotate \/ Translate
    \/ AsgiCheck \/ AsgiError
    \/ Handler \/ ServerError \/ Endpoint \/ Unconcerned
    \/ Receive \/ Abort

Spec == Init /\ [][Next]_vars

\* The event loop runs the request on; checks and endpoints return.
FairSpec == Spec /\ WF_vars(Next)

-----------------------------------------------------------------------------
Verdicts == {"none", "allowed", "denied", "permanent", "bypassed", "failed", "answered"}
Responses ==
    [type : {"response"}, status : {200, 422, 429, 500, 503}, quota : Depths,
     reset : BOOLEAN, retry : BOOLEAN]
Failures == [type : {"error"}, name : Names, quota : Depths, retry : BOOLEAN]

TypeOK ==
    /\ stack \in Stacks
    /\ handled \subseteq Names
    /\ depth \in Depths
    /\ signal \in {Request, Done} \cup Responses \cup Failures
    /\ later \in [signal : {Done} \cup Failures, depth : Depths]
    /\ state \in [info : Depths, bypassed : BOOLEAN]
    /\ state.bypassed => state.info = NoDecision
    /\ started \subseteq Depths
    /\ sent \in Seq(Responses)
    /\ verdict \in [Depths -> Verdicts]

\* "Once ASGI response headers have been sent, an error is propagated rather
\* than starting a second response": whatever fails while the body streams, no
\* layer of any application starts a second response.
OneResponse == Len(sent) <= 1

\* The request's path stays in shape and ends in at most one response.
PathSound == TypeOK /\ OneResponse

Limits == {d \in DOMAIN stack : stack[d] = "limit"}
Deciding == {d \in Limits : verdict[d] \in {"allowed", "denied", "permanent", "bypassed"}}
LastDecision == {d \in Deciding : \A e \in Deciding : e <= d}
Denier == {d \in Depths : verdict[d] \in {"denied", "permanent"}}

\* What a response says of quotas and delays is true: its quota is that of a
\* decision that was made.  A denial for ever names neither a reset nor a delay.
Honest(r) ==
    /\ r.quota # NoDecision =>
         /\ verdict[r.quota] \in {"allowed", "denied", "permanent"}
         /\ r.status # 503
         /\ Denier = {} =>
              /\ r.quota \in LastDecision
              /\ \A d \in Limits : verdict[d] # "bypassed"
         /\ Denier \ {Bottom} # {} => r.quota \in Denier
    /\ r.retry => \E d \in Denier : verdict[d] = "denied"
    /\ r.reset => r.quota # NoDecision /\ verdict[r.quota] # "permanent"

\* The quota headers of a response are those of a decision that was made: on a
\* success of the last decorator's, and only if none of them was bypassed,
\* whichever came first; on a denial by the library of the denial itself; never
\* on an outage.
QuotaHeadersTrue == \A i \in DOMAIN sent : Honest(sent[i])

\* The layers that see an exception from depth d before a server answers 500.
Sees(d) == {t \in 1..(d - 1) : \A e \in (t + 1)..(d - 1) : stack[e] # "server"}
Refused(d) == verdict[d] \in {"failed", "denied", "permanent"}

Telling(d) ==
    CASE verdict[d] = "denied" -> {429}
      [] verdict[d] = "permanent" -> {422}
      [] OTHER -> {500, 503}
Told(r) ==
    \A d \in Depths :
        Refused(d) /\ (\E t \in Sees(d) : stack[t] = "headers") => r.status \in Telling(d)

NoRefusedServed == verdict[Bottom] # "none" => \A d \in DOMAIN stack : ~Refused(d)

\* Nobody is served whom a policy refused; and in an application with the
\* headers middleware, a denial is told as 429 or 422 and an outage never as a
\* success.
RefusalsAreTold == signal = Done => NoRefusedServed /\ Told(sent[1])

\* "When rate limit is exceeded, it also adds Retry-After": with the headers
\* middleware around the endpoint, a denial that ends is answered with the delay,
\* whoever turned the exception into a response.
DenialsSayWhen ==
    signal = Done =>
        \A d \in Limits :
            verdict[d] = "denied" /\ (\E t \in Sees(d) : stack[t] = "headers") => sent[1].retry

\* Every request is answered, whatever fails on its way down or up.
EveryRequestAnswered == <>(signal = Done /\ sent # <<>>)
=============================================================================
