# Moderato in TLA+

Moderato is an asyncio rate limiter for Python. It keeps all quota state in
Redis: every check is one call of a Lua script, which Redis runs atomically on
its own clock. These modules model the scripts, the connection they are sent
over and what the limiter does when that connection fails; TLC checks them on
small instances and TLAPS proves most of their safety for every policy.

To check a run: `tlc -config MCFixedWindow.cfg MCFixedWindow`. To check the
proofs: `tlapm FixedWindowProofs.tla`, and so for `TokenBucketProofs`,
`SlidingWindowProofs`, `ConnectionProofs`, `AdmissionProofs`, `ResetProofs`,
`HttpStackProofs` and `ArithmeticProofs`.

## The system

| component | state | operations | interacts with |
|---|---|---|---|
| fixed-window script (`scripts/fixed_window.lua`) | one counter per identity, policy and window; its expiry | check; deletion by reset; expiry | Redis TIME, PTTL, EXPIREAT |
| token-bucket script (`scripts/token_bucket.lua`) | hash: tokens, refill origin, units credited since; its expiry | check; deletion; expiry | Redis TIME, EXPIRE |
| sliding-window script (`scripts/sliding_window.lua`) | the fixed window's counters, kept for two windows | check; deletion; expiry | Redis TIME, EXPIRE |
| connection (`RateLimiter.connect/close`, `RedisBackend.connect/close`) | two `_connected` flags, `_redis`, `_script_shas`, an `asyncio.Lock` | connect, close, lazy connect of a check | all tasks of the program share it |
| check pipeline (`check_with_info`, `_execute_script`) | none between checks; metrics counters | EVALSHA, EVAL after NOSCRIPT, fail-open | scripts, connection, metrics |
| reset (`reset`, `_delete_matching`, `iter_keys`, `delete_many`) | a SCAN cursor and a batch of keys | scan, classify, delete by 100 | races checks on the same keys |
| usage snapshots (`get_usage`) | none | TIME, then one or two reads | races checks and rollovers |
| decorators and middleware | `request.state` | check, annotate, deny, translate failures | one request passes through several |
| keys and rates (`utils.py`) | none | encode, parse | every component |
| metrics (`metrics.py`) | Prometheus counters, `enabled` | record | pipeline, connection |

What is hard in it:

- **Numbers and time.** Windows start at whole seconds of a millisecond clock,
  keys expire by themselves, buckets refill fractions of a unit, and every
  denial promises a delay. Tests pin examples; the properties below quantify
  over all polling patterns within the bounds.
- **Interleaving.** A check reads `_connected` without the lock. Tasks connect,
  close and run scripts at once, and each await may fail or be cancelled.
- **Unreliable delivery.** A command whose reply was lost may have run, or may
  run later; the NOSCRIPT fallback sends a second command for the same check.
- **Torn reads.** `get_usage` asks Redis for the time and for each counter in
  round trips of their own, while checks and rollovers go on.
- **Layers.** A decision, a denial or an outage passes upward through decorators
  and middlewares that each may answer, annotate or raise.
- **Failure policy.** Fail-open answers without a decision, and must neither
  pretend to have one nor let oversized or uncounted requests through.

`PROJECT.json` lists each such hazard at its line with the properties that
cover it.

## Modules

| module | models | state and actions |
|---|---|---|
| `WindowQuota` | what a fixed-window limit promises: abstract | a quota spent by `Admit` only, whole again after `Roll` |
| `FixedWindow` | fixed_window.lua | `counter`, `expiry` by window start; `DenyOversized`, `Admit`, `Deny` are the script's three returns; `Reset` is DEL of a key, `Persist` an operator's PERSIST, `Tick` Redis time with expiry |
| `FixedWindowProofs` | | its theorems, and those of its usage |
| `IdealBucket` | what a token bucket promises: abstract | a clock and an exact balance in fractions of a token |
| `TokenBucket` | token_bucket.lua | the hash `bucket` and `expiry`; the script's locals are operators with their names (`WholeWindows`, `UnitsCarried`, `Accrued`, `Tokens`); actions as above and `StepBack`, a clock that is set back |
| `TokenBucketProofs` | | its theorems, and those of its usage |
| `SlidingWindow` | sliding_window.lua | `counter`, `expiry`; `FirstFit` is its search for a deadline |
| `SlidingWindowProofs` | | its theorems, and those of its usage |
| `BinarySearch` | the loop that both scripts halve a range with | a recursive function on ranges |
| `Connection` | limiter.py and redis.py connect/close and the connecting part of a check | the flags, client, lock and its queue; one action per stretch of code between two awaits; every await may also fail, which stands for errors, timeouts and cancellation |
| `ConnectionProofs` | | its theorems |
| `Decision` | the conversions around a decision in `check_with_info` | pure operators: the clamped cost, whole requests, whole seconds |
| `ArithmeticProofs` | | the theorems of `Decision` and `BinarySearch`, and the lemmas on division that the algorithms' proofs share |
| `Admission` | `check_with_info` with `_execute_script` over an unreliable connection | commands and replies in flight, each check's progress, the counters of the metrics; the decision is reduced to "does it fit" |
| `AdmissionProofs` | | its theorems |
| `KeyScheme` | `generate_key`, the tails each algorithm adds, `_suffix_matches_algorithm` | pure operators on keys as sequences of encoded components |
| `Reset` | `RateLimiter.reset`, `_delete_matching`, `iter_keys`, `delete_many` | `exists`, the keys in Redis; `reset`, each task's page, batch and answer so far; `Scan`, `Delete` and `Fail` are its commands' replies, `Consume` the loop between them; `Charge` and `Expire` are checks and time; `late` DELs run after their caller gave up |
| `ResetProofs` | | its theorems, and those of `KeyScheme` |
| `FixedWindowUsage`, `TokenBucketUsage`, `SlidingWindowUsage` | `get_usage` | the algorithm's module with a reader: one action per round trip, everything else goes on in between; `SlidingWindowUsage` has the answers of both front ends |
| `SlidingStrategy` | the `reset` of `algorithms/sliding_window.py` | `SlidingWindow` with a task that reads the time and then deletes one key per step |
| `TokenStrategy` | `get_usage` of `algorithms/token_bucket.py` | an operator on `TokenBucket`'s state |
| `HttpStack` | decorators.py, middleware.py, exceptions.py, and the handlers and endpoints of examples/fastapi_app.py | one request on its way through a stack of layers: `signal` is what has reached the layer at `depth`, `later` what the sender of a response does once it is sent; one action per layer and kind of signal |
| `HttpStackProofs` | | its theorems |

The history variables (`granted`, `denial`, `meter`, `trouble`, `runs`,
`charged`, `forgotten`, `gaps`, `old`, `removed`, `seen`, `highest`, `verdict`) record what the code does not and only properties read
them; `reply` is what the last script call returned.

`Watch` in `TokenBucket` is a step of the observer: it starts to measure a new
interval, so that the interval bound is checked over all of them.

Amounts: `FixedWindow` and `TokenBucket` count in the code's scaled units and
are true for any scale; `SlidingWindow` keeps the factor 1000 because its
rounding shows. `MsPerSecond` and `TtlSlack` are constants so that TLC can
take small ones. A script is atomic in Redis, so a check is one step of its
algorithm's module; what can happen around it is `Admission`'s subject.

`Reset` takes SCAN at what Redis guarantees (`left` holds the keys that a SCAN
still has to return before its last page): keys that exist throughout are
returned, others perhaps, any of them perhaps again. Which algorithm a key
belongs to is read off its parts as the code does. A component of a key is an
element of `Texts`: `normalize_key_component` encodes it, so it holds no colon,
but nothing keeps a scope or a tenant from reading like a policy, a number or a
fixed word.

`Admission` counts in `counted` what the collector counts. Only EVALSHA and EVAL
commands of checks are in it, not PING and SCRIPT LOAD. `fail_open_total` moves
with `bypassed` and `limit_exceeded_total` with `denied`, so they are not kept
apart; connection errors, a subset of the failed commands, are not either. The
recorders run without an await between them, so each of the model's steps counts
at once, but the collector may be toggled between any two steps.

In `HttpStack` a decision is named by the depth of the layer that made it, so
that a property can say whose quota a header shows. That an application's own
handler answers an exception, and how Starlette's outermost layer answers 500
and raises again, is taken from how Starlette calls them.

## Runs

All modules bound time with `Horizon`, the last millisecond; the bucket also
bounds the measured interval with `MaxPassed`. Costs are a small set with one
that fits easily, one that needs nearly everything, and one above capacity.
The algorithms' runs end at the horizon and the checks of `Admission` are made
once, so those runs do not check deadlock; `connection` and `reset` do. Each
algorithm is checked together with its `get_usage`, whose reader changes nothing
that the script sees.

| run | bounds | shows |
|---|---|---|
| `fixed_window` | capacity 3, windows of 2 s x 2 ms, 10 ms | no window over-admits; expiries are the window's end, also repaired ones; Retry-After is exact and nothing comes early; refines `WindowQuota`; a snapshot was true at one moment of the call |
| `token_bucket` | 4 tokens in 3 ms, key lives 6 ms, 10 ms | fast refill with a remainder: intermediates within the policy's bound, `reset_at` honest; refines `IdealBucket`; a snapshot was true at one moment of the call |
| `skewed_bucket` | 3 tokens in 4 ms, key lives 8 ms, 10 ms, clock set back at will | slow refill: the interval bound survives skew, and the bookkeeping stays bounded |
| `sliding_window` | capacity 3000, windows of 3 s x 2 ms, 18 ms | estimate bounded and decaying, first-fit search right across the rollover, rounding within a thousandth; a snapshot, of three moments, never reports less use than there was at one of them, and the requests it says remain would have been admitted |
| `connection` | 3 tasks, 3 clients | no orphaned client, mutual exclusion, limiter and backend in step, no spurious error, close closes, every call returns |
| `admission` | 3 checks of cost 2 or 6, capacity 5 | at most one charge, true answers, quota kept, never oversized; the counters agree, miss no bypass and bound the lost decisions |
| `admission_ends` | 2 checks, capacity 2, costs 1 to 3 | every check under way ends |
| `reset` | 4 keys that read like one another, 1 reset of 3 kinds, batches of 2, 1 late DEL | a reset that returns has forgotten everything it was asked to, and nothing else; True exactly if it removed something; every reset returns although checks keep creating keys |
| `http_stack` | 45 applications: each order of the middlewares, a mounted child, up to two decorators, any set of handlers | one response; quota headers of a decision that was made and never of a bypass or an outage; nobody served whom a policy refused; every request answered |

Three runs look for a counterexample and find it; each stands for a finding in
`PROJECT.json`, a place where the code does not do what its documentation says:

| run | what it shows |
|---|---|
| `http_handled` | a denial that the application's own exception handler answers carries no Retry-After, although the headers middleware is around it and the decorator left the delay in `request.state` |
| `strategy_second` | with windows of one second, `SlidingWindowAlgorithm.reset` leaves the previous window's counter |
| `strategy_tokens` | `TokenBucketAlgorithm.get_usage` reports a bucket that does not exist as empty, not as full |

`PromisesKept` also says what one more divergence amounts to:
`SlidingWindowAlgorithm.get_usage` rounds the weighted use down to whole requests
before it subtracts it, so of the requests it says remain the last one may be
denied; `RateLimiter.get_usage` subtracts first.

Why the bounds are enough: each algorithm's horizon spans at least two window
ends, so state is created, carried over, weighted or refilled, expired and
created anew; 2 or 3 seconds of 2 milliseconds distinguish the middle of a
second, of a window, and their edges. Refill rates above and below one unit per
millisecond, each with a remainder, take both branches of the credit's
quotient and remainder. `token_bucket` measures no interval, so `MaxPassed` 1
there only makes time pass by the millisecond. Three tasks put one in the lock, one in its queue and
one at a script; three clients allow a new one while two tasks still wait on
closed ones. Three checks are two that fill the quota and one that is denied
or lost meanwhile. Three wanted keys and batches of two make a full and a partial
batch, and a page that fills one batch and begins the next; the keys of `MCReset`
have a scope that reads like the word `sliding`, a tenant that reads like a
policy, a legacy key without a scope, and one of another identity. A call of
`get_usage` spans two rollovers. Two decorators are the least that can disagree,
and one mounted child the least that answers 500 below a middleware. One reset suffices: another
one's DEL is for it what `Expire` is. `MaxLate` bounds the DELs that wait.

Two properties need a word. `NoEarlyAdmission` says a denied request was right
to be told to wait: an equal or larger one is not admitted before. `IntervalBound`
is what a token bucket can promise: over any interval, one capacity plus what
flows in, whatever the expiry or the clock did.

`NoSpuriousError` allows a check to fail only if an await failed or a `close()`
overlapped it: in particular the unlocked read of `_connected` never makes a
check fail because another task is connecting.

`moderato` documents that a fixed window admits up to twice its capacity around
a window's edge (README.md:144); `NoOverAdmission` therefore speaks of one
window.

## Fairness

Only `connection`, `admission_ends`, `reset` and `http_stack` assume any. `Connection` assumes weak
fairness of each task's next step: the event loop runs what can run, and every
await ends, because `socket_timeout` and `connection_timeout` are always set
(redis.py:110-111, validated positive in models.py:105). That redis-py's
`aclose()` returns is an assumption about redis-py. `Admission` assumes the same
of a client waiting for its reply and nothing of Redis. `Reset` assumes that the
task runs on, that a DEL is answered or fails (`socket_timeout`), and strong
fairness of the last page of a SCAN: Redis documents that an iteration
terminates unless the database grows without bound. `HttpStack` assumes that the
request's next step is taken: checks and endpoints return or fail.

## Proofs

Every theorem holds for all values of the constants that the module's assumption
allows: any capacity, window length, clock resolution, cost set and horizon, any
set of tasks, clients, checks or keys. The assumptions only say that these are
positive numbers, finite sets where the code's are, that `None` is no task and that a
decorator wraps an endpoint.
No theorem restricts the clock except where it says so.

### The algorithms

`ArithmeticProofs` holds what they share. The provers know little of division, so
`FloorAtLeast` (k is at most a quotient exactly if k divisors fit),
`FloorIsUnique`, `CeilingAtMost` and `ProductMonotone` are stated once and cited.
`SearchFindsFirst` says that the scripts' binary search ends with the first good
candidate, for any range and any set that is good from some candidate on.
`FirstIn` is a recursive function, so the proof first shows that it is defined: a
function on the ranges shorter than n extends to those of length n
(`SearchIsDefined`). Where a proof needs induction it puts the numbers that have the
property into a set and takes the least one outside it (`LeastNumber`,
`Induction`), because the library's induction theorems take an operator.

`FixedWindowProofs`: `TypeCorrect`; `QuotaKept`, `ExpiryCorrect`, `RetryCorrect` and
`NoOrphanSurvives` for the invariants `NoOverAdmission`, `ExpiresWithItsWindow`,
`RetryIsExact` and `CheckedCounterExpires`; `NothingEarly` for the action property
`NoEarlyAdmission`; `ImplementsQuota`: `FixedWindow` implements `WindowQuota`;
`SnapshotsAreTrue` for the usage. `NoOverAdmission` is not inductive: that the counter
still holds what was granted depends on its key living as long as the window. `IInv`
adds `ChargedInFull` (the current window's counter is what was granted in it),
`FutureUntouched` (later windows have no counter yet, so a new window starts at
zero) and `DenialHolds` (while a denial's window lasts, the counter stays at least as
high as when it was given). The steps rest on two facts: a window start is a
multiple of the window's length above the previous one (`RoundedDown`), and the
current one is never later than the current second.

`TokenBucketProofs`, under `SkewedSpec`, where the clock may be set back at any step:
`TypeCorrect`, `IntervalsAreBounded` (`IntervalBound`), `BookkeepingStaysBounded`
and `NumbersStayBounded`. The interval bound is not inductive. It is if the meter
leaves room for what the bucket is worth now (`MeterLeavesRoom`, tokens and the part
of the refill that is not credited yet) and if a key only expires when as much has
flowed in since its last write as fills a bucket (`NothingGrantedSince`); the key's
life of two windows is what makes the second true. `CreditIsExact` is the identity
on which the script's overflow-free arithmetic rests: quotient and remainder give
floor(Capacity * e / WindowMs), without loss, for every e. `RefillKeepsWorth` says
that a refill moves value between tokens, origin and units but makes none.

Under `Spec`, whose clock is not set back, `KeepsPace` joins the invariant: an
origin is never later than the write, nor the credit ahead of the clock. From
`SteadyInv` follow `ResetTimesAreHonest` (`ResetAtIsHonest`), `SnapshotsAreTrue` of
the usage, and `ImplementsIdeal`: `TokenBucket` implements `IdealBucket`. The
refinement maps the bucket's worth to the ideal balance; `BalanceFlows` shows that
a tick of the model is a tick of the ideal bucket whether or not a key expires, and
`RetryIsExact` that the search in `RefillDelay` finds the first millisecond at which
the missing tokens are there.

`SlidingWindowProofs`: `CountsAreSound`, `EstimatesAreSound`, `EstimatesDecay` (the action
property `EstimateDecays`), `RetriesAreFirstFits` (`RetryIsFirstFit`); and of the usage
`NeverTooOptimistic` (`NeverOptimistic`) and `RemainingIsThere` (`PromisesKept`).
`EstimateWithinCapacity` is not inductive: at the rollover the estimate is made of
what was the current counter and of one nobody has looked at. `IInv` adds that
counters of later windows are fresh (`FutureUntouched`), that a key outlives the window
after its own (`ExpiresLate`) and that there is a window before (`PreviousExists`).
`WeightedFacts` says that a weighted count is at most the count and falls with the
weight; `RoundingLosesLittle` bounds what the two roundings lose. `LaterWindow` tells
a later instant's window by its second: the same, the next, or further on. From
these, `EstimateInFalls` shows that the candidates of the search are monotone and the
last one is zero, and `EstimateAhead` that they are the estimates a check would find,
which with `SearchFindsFirst` makes Retry-After exact. The usage's `ReadsEnough` says,
for each reply still to come, that what has been read and what is still to be read
cover the highest estimate so far, as long as the call's window lasts; the counter
of that window only grows and the one before it stands (`QuietStep`).

### Around the scripts

`ConnectionProofs`: `TypeCorrect`, `MutualExclusion` (`OneAtATime`), `NoClientLost`
(`NoOrphanedClient`), `LayersAgree` (`InStep`), and the action properties
`ClosedIsClosed` (`ClosedMeansClosed`) and `ErrorsAreCaused` (`NoSpuriousError`). Its `IInv`
adds to the three invariants where a call of each kind can be and what it has found
there (`InPlace`: who connects holds the lock and found both flags down), that a
backend that is up has a client (`UpHasClient`), that whoever has met no failure and
no close runs on a backend that is up and that nobody is closing (`Untroubled`), and
that exactly the waiting tasks are in the lock's queue, each once (`InLine`). The last
needs lemmas on sequences, one for each way into the queue and out of it.

`AdmissionProofs`: `TypeCorrect`, `ChargedOnce` (`ChargedAtMostOnce`), `AnswersTrue`
(`AnswersAreTrue`), `OversizedRefused` (`OversizedNeverPasses`), `SpentAsCharged`
(`UsedIsCharged`) and `LedgerIsTrue` (`LedgerAddsUp`). That a script runs at
most once is not inductive: its `IInv` adds that a check has one command in flight at
most and its script has then not run (`PendingHasNotRun`), that a check told NOSCRIPT
has none in flight (`NoScriptHasNotRun`), which is why EVAL may follow, and that a new
check has left no trace (`NewIsUntouched`); `DecisionsHold` carries the truth of an
answer from the script to its reply to the caller. All ways in which a check ends
share one lemma, `AnswerIInv`.

The metrics' invariant, `Ledger`, counts sets of checks. It needs no assumption that
there are finitely many checks, because only finitely many have begun. That the
counters bound the lost decisions follows from `EndedCounted`: of the checks whose
script ran or may still run, each that has ended with an answer was counted as a
script execution or an error. What is spent is a sum over a set, the community
modules' fold, which takes the elements in an order of its own; `SumIsDefined`
shows the recursive function behind it to exist, `SumWithout` that any element may be
taken out first, and `SumGrows` that a larger set sums to no less.

`ArithmeticProofs` also has the conversions of `Decision`, for all numbers: clamping a
cost never changes a verdict (`ClampKeepsVerdict`), the remaining whole requests are
exactly the costs that still fit (`RemainingIsAffordable`) and the seconds of a denial
are the least that cover its milliseconds (`RetryIsNeverEarly`).

`ResetProofs` proves of the keys, whatever their components read like, that two with
the same text are the same key (`KeysApart`), legacy keys included, and that the
classifier names exactly the algorithm that wrote a key (`ClassifierRight`), for
`reset` of one tenant and of all. Both are case distinctions over the number of
parts, which is where keys with and without a scope could be confused.

It proves of the reset, for any finite set of keys, any scopes and tenants, any number of
resets and any batch size, `TypeCorrect`, `AnswerTrue` (`AnswerIsTrue`),
`OnlyWantedRemoved` (`RemovesOnlyWanted`) and `Complete` (`ResetIsComplete`).
Completeness follows from `NothingOverlooked`: what a reset must still forget is
before its cursor, in its page or in its batch. When the loop ends, the first is
empty because the page was the last (`PagesInTurn`), the others because the
batch counts nothing (`BatchCounted`); `OnlyLoopReturns` shows that nothing else
returns without an error. That only wanted keys go rests on `ClassifierRight`.

`HttpStackProofs` proves `OneResponseOnly` (`PathSound`), `QuotasAreTrue`
(`QuotaHeadersTrue`) and `RefusalsTold` (`RefusalsAreTold`) of any set of applications: any
number of middlewares, handlers and mounted children in any order. Its assumption says
what being a decorator means: it wraps the endpoint's function, so that no other layer is
below it. Without that, a bypass above a headers middleware would be forgotten when the
middleware resets `request.state`. The invariants say what each kind of signal means
on its way. An exception is the refusal of one depth, the only one there is, and no
layer that it has passed would have answered it (`Raised`). A response says the truth
already where it is made, and stays true when it is annotated (`AnnotatedHonest`): the
last decorator's decision is the denial's own whenever a decorator denied
(`InfoIsLast`). Whatever the sender of a response raises after it finds every
layer above started (`Answering`, `Answered`), and so nobody answers it again.

### What is only model-checked

- Liveness: what connects, is checked, reset or requested ends. Fairness and
  ENABLED are out of the prover's reach.
- The three findings: they are counterexamples.

The type invariants of `FixedWindow`, `TokenBucket`, `Admission` and `Reset` are
proved and not run by that name; the others are run (as part of `CountsSound`,
`NumbersBounded` and `PathSound`, or as `TypeOK`).

## Not modelled

- The custom-rate branch of the token bucket: only direct callers of the backend
  reach it, and its floating-point fraction has no exact counterpart.
- The scripts' argument checks, which answer an error and change nothing.
- Redis Cluster slots and replication, and eviction under memory pressure.
- The strategies' check methods, which call the same scripts with the same
  arguments.
- Arguments refused before anything is sent: an invalid rate or cost, an unknown
  algorithm of a check or of a reset. They change nothing.
- `parse_rate`, `normalize_key_component`, URL redaction: text to text. That a
  component's encoding holds no colon and is injective is `KeyScheme`'s
  assumption on `Texts`. Two limiters whose prefixes extend one another on one
  Redis share keys that no module tells apart.
- The default scope and key of a request (`_get_default_scope`,
  `_get_default_key`): which route matched is Starlette's decision on path strings.
- Prometheus histograms, gauges and their registry, connection errors as a count
  of their own, `metrics_decorator`; the other examples and the benchmarks.

## Plan

Every safety property and every action property that a run checks and that holds is
proved. What is left is to model what is only partly modelled: the token bucket's
custom-rate branch and the metrics' gauges. The strategies' two divergences stay
as they are: as findings.
