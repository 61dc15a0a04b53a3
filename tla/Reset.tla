------------------------------- MODULE Reset -------------------------------
(***************************************************************************)
(* RateLimiter.reset: SCAN the keys of an identity, keep those of the      *)
(* wanted algorithm and DEL them in batches, while checks create and       *)
(* charge keys, keys expire and other resets run.  An action is what one   *)
(* command does in Redis, or what the limiter does between two awaits.     *)
(***************************************************************************)
EXTENDS KeyScheme, FiniteSets

CONSTANTS
    Resets,         \* the tasks that call reset()
    Keys,           \* the keys of the database
    Requests,       \* what reset() is called with: identity, tenant, algorithm
    DefaultAlgorithm,
    BatchSize,      \* 100 in the code
    MaxLate         \* bound: the DELs that wait without their caller

ASSUME ResetAssumption ==
    /\ Keys \subseteq Key
    /\ IsFiniteSet(Keys)
    /\ Requests \subseteq [identity : Texts, tenant : Maybe(Texts),
                            algorithm : AlgorithmNames \cup {"none", "all"}]
    /\ DefaultAlgorithm \in AlgorithmNames
    /\ BatchSize \in Nat \ {0}
    /\ MaxLate \in Nat

VARIABLES
    exists,         \* the keys Redis holds
    reset,          \* each reset: where it is, its request and its local variables
    late,           \* DELs whose caller gave up before Redis executed them
    left,           \* by reset: keys its SCAN still has to return
    old,            \* history, by reset: keys with charges from before it began ...
    removed         \* ... and the keys its DELs removed

vars == <<exists, reset, late, left, old, removed>>

\* Under the pattern of the SCAN: the identity's keys, of one tenant if given.
UnderPattern(k, q) == k.identity = q.identity /\ q.tenant \in {<<>>, <<k.tenant>>}

\* Without an algorithm: all of them, or for one tenant the default.
Chosen(q) ==
    IF q.algorithm = "none" /\ q.tenant # <<>> THEN DefaultAlgorithm ELSE q.algorithm
EveryAlgorithm(q) == Chosen(q) \in {"none", "all"}

\* Whether _suffix_matches_algorithm lets a key through, which it is shown
\* without its tenant when the pattern has the tenant.
Classified(k, q) ==
    IF q.tenant = <<>> THEN SuffixMatches(TenantSuffix(k), Chosen(q), 1)
                       ELSE SuffixMatches(Suffix(k), Chosen(q), 0)

Results == {"none", "true", "false", "error"}
Active == {"scanning", "received", "deleting"}

At(r, place) == reset[r].at = place

Fresh(at, wants, result) ==
    [at |-> at, wants |-> wants, page |-> {}, last |-> FALSE,
     batch |-> {}, size |-> 0, deletedAny |-> FALSE, result |-> result]

Init ==
    /\ exists \in SUBSET Keys
    /\ reset = [r \in Resets |-> Fresh("idle", {}, "none")]
    /\ late = {}
    /\ left = [r \in Resets |-> {}]
    /\ old = [r \in Resets |-> {}]
    /\ removed = [r \in Resets |-> {}]

Pattern(r) == {k \in Keys : \E q \in reset[r].wants : UnderPattern(k, q)}

\* The keys that are put into batches.
Matching(wants) ==
    {k \in Keys : \E q \in wants :
        UnderPattern(k, q) /\ (EveryAlgorithm(q) \/ Classified(k, q))}
Wanted(r) == Matching(reset[r].wants)

-----------------------------------------------------------------------------
(* Redis.                                                                  *)

Gone(S) ==
    /\ exists' = exists \ S
    /\ left' = [r \in Resets |-> left[r] \ S]
    /\ old' = [r \in Resets |-> old[r] \ S]

\* A check creates its key or charges it.
Charge(k) ==
    /\ exists' = exists \cup {k}
    /\ UNCHANGED <<reset, late, left, old, removed>>

Expire(k) ==
    /\ k \in exists
    /\ Gone({k})
    /\ UNCHANGED <<reset, late, removed>>

DeleteLate(S) ==
    /\ S \in late
    /\ Gone(S)
    /\ late' = late \ {S}
    /\ UNCHANGED <<reset, removed>>

\* A SCAN returns any keys under the prefix, in any order and perhaps again;
\* by its last page it has returned every key that existed throughout.
Scan(r, keys, last) ==
    /\ At(r, "scanning")
    /\ keys \subseteq exists \cap Pattern(r)
    /\ last => left[r] \subseteq keys
    /\ reset' = [reset EXCEPT ![r] = [@ EXCEPT !.at = "received", !.page = keys, !.last = last]]
    /\ left' = [left EXCEPT ![r] = @ \ keys]
    /\ UNCHANGED <<exists, late, old, removed>>

\* Mutant: the answer is that of the last batch.
DeleteForgetful(r) ==
    /\ At(r, "deleting")
    /\ Gone(reset[r].batch)
    /\ removed' = [removed EXCEPT ![r] = @ \cup (reset[r].batch \cap exists)]
    /\ reset' = [reset EXCEPT ![r] = [@ EXCEPT !.at = "received", !.batch = {}, !.size = 0,
                   !.deletedAny = reset[r].batch \cap exists # {}]]
    /\ UNCHANGED late
\* delete_many, and back to what is left of the page.
Delete(r) ==
    /\ At(r, "deleting")
    /\ Gone(reset[r].batch)
    /\ removed' = [removed EXCEPT ![r] = @ \cup (reset[r].batch \cap exists)]
    /\ reset' = [reset EXCEPT ![r] = [@ EXCEPT !.at = "received", !.batch = {}, !.size = 0,
                   !.deletedAny = reset[r].deletedAny \/ reset[r].batch \cap exists # {}]]
    /\ UNCHANGED late

-----------------------------------------------------------------------------
(* The limiter.                                                            *)

Start(r, q) ==
    LET present == {k \in exists : UnderPattern(k, q)}
    IN  /\ At(r, "idle")
        /\ reset' = [reset EXCEPT ![r] = Fresh("scanning", {q}, "none")]
        /\ left' = [left EXCEPT ![r] = present]
        /\ old' = [old EXCEPT ![r] = present]
        /\ removed' = [removed EXCEPT ![r] = {}]
        /\ UNCHANGED <<exists, late>>

Return(r, result) ==
    /\ reset' = [reset EXCEPT ![r] = Fresh("idle", @.wants, result)]
    /\ left' = [left EXCEPT ![r] = {}]
    /\ old' = [old EXCEPT ![r] = {}]

\* The part of the page that fits the batch without filling it.
TakePage(r) ==
    LET batch == reset[r].batch \cup (reset[r].page \cap Wanted(r))
        size == reset[r].size + Cardinality(reset[r].page \cap Wanted(r))
    IN  /\ size < BatchSize
        /\ IF reset[r].last /\ size = 0
           THEN Return(r, IF reset[r].deletedAny THEN "true" ELSE "false")
           ELSE /\ reset' = [reset EXCEPT ![r] = [@ EXCEPT !.page = {}, !.batch = batch, !.size = size,
                               !.at = IF reset[r].last THEN "deleting" ELSE "scanning"]]
                /\ UNCHANGED <<left, old>>

\* Mutant: the rest of the page is forgotten when the batch is full.
FillDropsRest(r) ==
    \E taken \in SUBSET (reset[r].page \cap Wanted(r)) :
        /\ reset[r].size + Cardinality(taken) = BatchSize
        /\ reset' = [reset EXCEPT ![r] = [@ EXCEPT !.at = "deleting", !.size = BatchSize,
                       !.batch = reset[r].batch \cup taken, !.page = {}]]
        /\ UNCHANGED <<left, old>>
\* Mutant: what fills the batch stays in the page.
FillKeepsPage(r) ==
    \E taken \in SUBSET (reset[r].page \cap Wanted(r)) :
        /\ reset[r].size + Cardinality(taken) = BatchSize
        /\ reset' = [reset EXCEPT ![r] = [@ EXCEPT !.at = "deleting", !.size = BatchSize,
                       !.batch = reset[r].batch \cup taken]]
        /\ UNCHANGED <<left, old>>
\* The batch is full: the rest of the page waits until it is deleted.
Fill(r) ==
    \E taken \in SUBSET (reset[r].page \cap Wanted(r)) :
        /\ reset[r].size + Cardinality(taken) = BatchSize
        /\ reset' = [reset EXCEPT ![r] = [@ EXCEPT !.at = "deleting", !.size = BatchSize,
                       !.batch = reset[r].batch \cup taken, !.page = reset[r].page \ taken]]
        /\ UNCHANGED <<left, old>>

Consume(r) ==
    /\ At(r, "received")
    /\ TakePage(r) \/ Fill(r)
    /\ UNCHANGED <<exists, late, removed>>

\* SCAN or DEL fails or times out, or its reply is lost, or the call is
\* cancelled; a DEL that was sent may still be executed.
Fail(r) ==
    /\ reset[r].at \in Active
    /\ Return(r, "error")
    /\ late' \in {late} \cup
         IF At(r, "deleting") /\ Cardinality(late) < MaxLate
         THEN {late \cup {reset[r].batch}} ELSE {}
    /\ UNCHANGED <<exists, removed>>

-----------------------------------------------------------------------------
LastPage(r) == \E keys \in SUBSET Pattern(r) : Scan(r, keys, TRUE)
Page(r) == \E keys \in SUBSET Pattern(r) : Scan(r, keys, FALSE)

Next ==
    \/ \E k \in Keys : Charge(k) \/ Expire(k)
    \/ \E S \in late : DeleteLate(S)
    \/ \E r \in Resets :
          \/ \E q \in Requests : Start(r, q)
          \/ Page(r) \/ LastPage(r) \/ Consume(r) \/ Delete(r) \/ Fail(r)

Spec == Init /\ [][Next]_vars

\* Redis answers or the socket times out, and a SCAN comes to its last page
\* however many keys are created meanwhile.
FairSpec ==
    /\ Spec
    /\ \A r \in Resets : /\ WF_vars(Consume(r)) /\ WF_vars(Delete(r) \/ Fail(r))
                         /\ SF_vars(LastPage(r))

-----------------------------------------------------------------------------
\* The state has the shape the code gives it; a batch is never larger than
\* the code's limit, whatever the size of the pages.
TypeOK ==
    /\ exists \subseteq Keys
    /\ reset \in [Resets -> [at : Active \cup {"idle"}, wants : SUBSET Requests,
                             page : SUBSET Keys, last : BOOLEAN, batch : SUBSET Keys,
                             size : 0..BatchSize, deletedAny : BOOLEAN, result : Results]]
    /\ late \subseteq SUBSET Keys
    /\ left \in [Resets -> SUBSET Keys]
    /\ old \in [Resets -> SUBSET Keys]
    /\ removed \in [Resets -> SUBSET Keys]

\* What the caller asked for, by the algorithm that wrote each key.
Asked(r) ==
    {k \in Keys : \E q \in reset[r].wants :
        UnderPattern(k, q) /\ (EveryAlgorithm(q) \/ Algorithm(k) = Chosen(q))}

\* A reset that returns has forgotten every charge of the wanted algorithm
\* made before it began, on whichever page and in whichever batch its key came.
ResetIsComplete ==
    [][\A r \in Resets :
        /\ reset[r].at \in Active
        /\ reset'[r].result \in {"true", "false"}
        => old[r] \cap Asked(r) = {}]_vars

\* It answers True exactly if it removed a key, in any of its batches.
AnswerIsTrue ==
    \A r \in Resets :
        /\ reset[r].result = "true" => removed[r] # {}
        /\ reset[r].result = "false" => removed[r] = {}

\* Its DELs remove only keys of the identity, of the tenant if one was given,
\* that the wanted algorithm wrote, however their scope or tenant reads.
RemovesOnlyWanted == \A r \in Resets : removed[r] \subseteq Asked(r)

\* Every reset returns, though checks keep creating keys behind its cursor.
EveryResetReturns == \A r \in Resets : reset[r].at \in Active ~> At(r, "idle")
=============================================================================
