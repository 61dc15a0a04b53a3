----------------------------- MODULE Connection -----------------------------
(***************************************************************************)
(* One RateLimiter and its RedisBackend shared by the tasks of an asyncio  *)
(* program: connect(), close() and the part of a check that connects       *)
(* lazily and runs a script.  A task runs alone until it awaits, so an     *)
(* action is what happens between two awaits; every await may fail, which  *)
(* stands for a Redis error, a timeout or a cancellation.                  *)
(***************************************************************************)
EXTENDS Naturals, Sequences, SequencesExt

CONSTANTS
    Tasks,          \* the tasks that share the limiter
    Clients,        \* the Redis clients (connection pools) from_url can return
    None

ASSUME ConnectionAssumption == None \notin Tasks /\ None \notin Clients

VARIABLES
    connected,      \* RateLimiter._connected
    up,             \* RedisBackend._connected
    client,         \* RedisBackend._redis
    cached,         \* RedisBackend._script_shas holds the script
    holder,         \* who holds RateLimiter._lock
    queue,          \* who waits for it, in order
    task,           \* where each task is, for which call, using which client
    open,           \* the clients that were created and not closed
    trouble         \* history: running tasks that met a failure or a close()

limiterVars == <<connected, holder, queue>>
backendVars == <<up, client, cached, open>>
vars == <<limiterVars, backendVars, task, trouble>>

Calls == {"connect", "close", "check"}
Closing == {"replacing", "cleaning", "closing"}        \* awaiting the client's aclose()
Handshake == {"replacing", "pinging", "loading", "cleaning"}
Running == {"evalsha", "eval"}
Places == {"idle", "called", "waiting"} \cup Closing \cup Handshake \cup Running
Results == {"none", "ok", "error"}

At(t, place) == task[t].at = place

Init ==
    /\ connected = FALSE
    /\ up = FALSE
    /\ client = None
    /\ cached = FALSE
    /\ holder = None
    /\ queue = <<>>
    /\ task = [t \in Tasks |-> [at |-> "idle", call |-> "connect", using |-> None,
                                result |-> "none"]]
    /\ open = {}
    /\ trouble = {}

Move(t, place) == task' = [task EXCEPT ![t].at = place]
End(t, result) == task' = [task EXCEPT ![t].at = "idle", ![t].using = None, ![t].result = result]

\* from_url; a new client is one that nobody still holds.
Fresh == {k \in Clients \ open : \A t \in Tasks : task[t].using # k}

-----------------------------------------------------------------------------
(* A check that has seen the limiter connected runs on to its first        *)
(* command; loaded is what it finds in _script_shas.                       *)

Issue(t, isUp, k, loaded) ==
    IF isUp /\ k # None
    THEN task' = [task EXCEPT ![t].at = IF loaded THEN "evalsha" ELSE "eval",
                              ![t].using = k]
    ELSE End(t, "error")

\* connect() is done and the lock is released: a check goes on to its script.
Continue(t, isUp, k, loaded) ==
    IF task[t].call = "check" THEN Issue(t, isUp, k, loaded) ELSE End(t, "ok")

OpenClient(t) ==
    /\ \E k \in Fresh : client' = k /\ open' = open \cup {k}
    /\ Move(t, "pinging")
    /\ UNCHANGED <<up, cached>>

\* RedisBackend.close up to its await; only with a client to close.
Disconnect(t, place) ==
    /\ up' = FALSE
    /\ cached' = FALSE
    /\ Move(t, place)
    /\ UNCHANGED <<client, open>>

\* The body of connect() under the lock, up to its first await.
ConnectLocked(t) ==
    IF connected \/ up
    THEN /\ connected' = TRUE
         /\ holder' = None
         /\ Continue(t, up, client, cached)
         /\ UNCHANGED backendVars
    ELSE /\ holder' = t
         /\ IF client # None THEN Disconnect(t, "replacing") ELSE OpenClient(t)
         /\ UNCHANGED connected

CloseLocked(t) ==
    IF client = None
    THEN /\ connected' = FALSE
         /\ holder' = None
         /\ End(t, "ok")
         /\ UNCHANGED backendVars
    ELSE /\ holder' = t
         /\ Disconnect(t, "closing")
         /\ UNCHANGED connected

Locked(t) ==
    /\ IF task[t].call = "close" THEN CloseLocked(t) ELSE ConnectLocked(t)
    /\ trouble' = IF task[t].call = "close" THEN Tasks ELSE trouble

-----------------------------------------------------------------------------
(* The calls.                                                              *)

\* A call is made; what it does first is decided when its task runs.
Call(t, c) ==
    /\ At(t, "idle")
    /\ task' = [task EXCEPT ![t] = [at |-> "called", call |-> c, using |-> None,
                                    result |-> "none"]]
    /\ trouble' = IF \E u \in Tasks : At(u, "closing") THEN trouble \cup {t} ELSE trouble \ {t}
    /\ UNCHANGED <<limiterVars, backendVars>>

\* A check reads _connected without the lock, and runs on if it is set.
CheckConnected(t) ==
    /\ At(t, "called")
    /\ task[t].call = "check" /\ connected
    /\ Issue(t, up, client, cached)
    /\ UNCHANGED <<limiterVars, backendVars, trouble>>

\* Mutant: the lock is taken as it is.
NoLock == TRUE
LockFree == holder = None /\ queue = <<>>

\* The lock is free and nobody waits for it: taken without awaiting.
TakeLock(t) ==
    /\ At(t, "called")
    /\ ~(task[t].call = "check" /\ connected)
    /\ LockFree
    /\ Locked(t)
    /\ UNCHANGED queue

WaitForLock(t) ==
    /\ At(t, "called")
    /\ ~(task[t].call = "check" /\ connected)
    /\ ~LockFree
    /\ queue' = Append(queue, t)
    /\ Move(t, "waiting")
    /\ UNCHANGED <<connected, holder, backendVars, trouble>>

GetLock(t) ==
    /\ At(t, "waiting")
    /\ holder = None /\ Head(queue) = t
    /\ queue' = Tail(queue)
    /\ Locked(t)

\* Mutant: a cancelled waiter stays in line.
CancelInPlace(t) ==
    /\ At(t, "waiting")
    /\ End(t, "error")
    /\ trouble' = Tasks
    /\ UNCHANGED <<limiterVars, backendVars>>

CancelWaiting(t) ==
    /\ At(t, "waiting")
    /\ \E i \in 1..Len(queue) : queue[i] = t /\ queue' = RemoveAt(queue, i)
    /\ End(t, "error")
    /\ trouble' = Tasks
    /\ UNCHANGED <<connected, holder, backendVars>>

-----------------------------------------------------------------------------
(* connect() under the lock, after each of its awaits.                     *)

Replaced(t) ==
    /\ At(t, "replacing")
    /\ \E k \in Fresh : client' = k /\ open' = (open \ {client}) \cup {k}
    /\ Move(t, "pinging")
    /\ UNCHANGED <<limiterVars, up, cached, trouble>>

\* Mutant: the limiter counts as connected before its backend is.
PingedEarly(t) ==
    /\ At(t, "pinging")
    /\ Move(t, "loading")
    /\ connected' = TRUE
    /\ UNCHANGED <<holder, queue, backendVars, trouble>>

Pinged(t) ==
    /\ At(t, "pinging")
    /\ Move(t, "loading")
    /\ UNCHANGED <<limiterVars, backendVars, trouble>>

\* A script that could not be registered is run with EVAL.
Loaded(t) ==
    /\ At(t, "loading")
    /\ \E loaded \in BOOLEAN :
        /\ cached' = loaded
        /\ Continue(t, TRUE, client, loaded)
    /\ up' = TRUE
    /\ connected' = TRUE
    /\ holder' = None
    /\ UNCHANGED <<queue, client, open, trouble>>

\* Any failure before the handshake is complete: close what was opened.
HandshakeFails(t) ==
    /\ task[t].at \in {"replacing", "pinging", "loading"}
    /\ Disconnect(t, "cleaning")
    /\ trouble' = Tasks
    /\ UNCHANGED limiterVars

\* Mutant: a failed handshake keeps the lock.
CleanedLocked(t) ==
    /\ At(t, "cleaning")
    /\ client' = None /\ open' = open \ {client}
    /\ End(t, "error")
    /\ UNCHANGED <<limiterVars, up, cached, trouble>>
\* Mutant: a client that could not be closed is forgotten.
CleanedForgetful(t) ==
    /\ At(t, "cleaning")
    /\ client' = None
    /\ holder' = None
    /\ End(t, "error")
    /\ trouble' = Tasks
    /\ UNCHANGED <<connected, queue, up, cached, open>>

\* The client is closed, or kept for the next attempt to close it.
Cleaned(t) ==
    /\ At(t, "cleaning")
    /\ \/ client' = None /\ open' = open \ {client}
       \/ UNCHANGED <<client, open>>
    /\ holder' = None
    /\ End(t, "error")
    /\ trouble' = Tasks
    /\ UNCHANGED <<connected, queue, up, cached>>

-----------------------------------------------------------------------------
(* close() under the lock, after its await.                                *)

\* Mutant: a limiter whose client could not be closed still counts as connected.
CloseFailsConnected(t) ==
    /\ At(t, "closing")
    /\ holder' = None
    /\ End(t, "error")
    /\ trouble' = Tasks
    /\ UNCHANGED <<connected, queue, backendVars>>
\* Mutant: a closed limiter still counts as connected.
ClosedConnected(t) ==
    /\ At(t, "closing")
    /\ client' = None
    /\ open' = open \ {client}
    /\ holder' = None
    /\ End(t, "ok")
    /\ UNCHANGED <<connected, queue, up, cached, trouble>>

Closed(t) ==
    /\ At(t, "closing")
    /\ client' = None
    /\ open' = open \ {client}
    /\ connected' = FALSE
    /\ holder' = None
    /\ End(t, "ok")
    /\ UNCHANGED <<queue, up, cached, trouble>>

CloseFails(t) ==
    /\ At(t, "closing")
    /\ connected' = FALSE
    /\ holder' = None
    /\ End(t, "error")
    /\ trouble' = Tasks
    /\ UNCHANGED <<queue, backendVars>>

-----------------------------------------------------------------------------
(* A check's script.                                                       *)

\* A reply needs its client to be open still.
ScriptRan(t) ==
    /\ task[t].at \in Running
    /\ task[t].using \in open
    /\ End(t, "ok")
    /\ UNCHANGED <<limiterVars, backendVars, trouble>>

ScriptFails(t) ==
    /\ task[t].at \in Running
    /\ End(t, "error")
    /\ trouble' = Tasks
    /\ UNCHANGED <<limiterVars, backendVars>>

\* Redis lost its script cache: EVAL on whatever client the backend has now.
NoScript(t) ==
    /\ At(t, "evalsha")
    /\ task[t].using \in open
    /\ Issue(t, TRUE, client, FALSE)
    /\ UNCHANGED <<limiterVars, backendVars, trouble>>

-----------------------------------------------------------------------------
\* What a task does once it runs, or once what it awaits has ended.
Step(t) ==
    \/ CheckConnected(t) \/ TakeLock(t) \/ WaitForLock(t) \/ GetLock(t)
    \/ Replaced(t) \/ Pinged(t) \/ Loaded(t) \/ HandshakeFails(t) \/ Cleaned(t)
    \/ Closed(t) \/ CloseFails(t)
    \/ ScriptRan(t) \/ ScriptFails(t) \/ NoScript(t)

Next == \E t \in Tasks : (\E c \in Calls : Call(t, c)) \/ Step(t) \/ CancelWaiting(t)

Spec == Init /\ [][Next]_vars

\* The event loop runs every task that can run, and every await ends: sockets
\* have timeouts, and aclose() is taken to return.
FairSpec == Spec /\ \A t \in Tasks : WF_vars(Step(t))

-----------------------------------------------------------------------------
\* The state has the shape the code gives it, and exactly the waiting tasks
\* are in line for the lock, each once.
TypeOK ==
    /\ connected \in BOOLEAN /\ up \in BOOLEAN /\ cached \in BOOLEAN
    /\ client \in Clients \cup {None} /\ open \subseteq Clients
    /\ holder \in Tasks \cup {None}
    /\ task \in [Tasks -> [at : Places, call : Calls, using : Clients \cup {None},
                           result : Results]]
    /\ trouble \subseteq Tasks
    /\ queue \in Seq(Tasks)
    /\ \A t \in Tasks : At(t, "waiting") <=> \E i \in 1..Len(queue) : queue[i] = t
    /\ \A i, j \in 1..Len(queue) : queue[i] = queue[j] => i = j

\* Every client that was opened and not closed is the one the backend holds,
\* through failed and cancelled handshakes and failed attempts to close it.
NoOrphanedClient == open = {client} \ {None}

\* Connecting and closing exclude each other: only the lock's holder is ever
\* between the awaits of connect() or close(), even when calls are cancelled.
OneAtATime == \A t \in Tasks : task[t].at \in Handshake \cup Closing <=> holder = t

\* Whenever nobody is connecting or closing, the limiter and its backend agree
\* on being connected: a failed close() leaves no limiter that cannot recover.
InStep == holder = None => (connected <=> up)

\* A check fails only if it met a failure or a close(): never because another
\* task was just connecting or had been the first to reconnect.
NoSpuriousError ==
    [][\A t \in Tasks :
        /\ task[t].call = "check" /\ ~At(t, "idle")
        /\ task'[t].at = "idle" /\ task'[t].result = "error"
        => t \in trouble']_vars

\* close() that returns has left no client open and the limiter unconnected.
ClosedMeansClosed ==
    [][\A t \in Tasks :
        /\ task[t].call = "close" /\ ~At(t, "idle")
        /\ task'[t].at = "idle" /\ task'[t].result = "ok"
        => open' = {} /\ ~connected' /\ ~up']_vars

\* Every call returns, whoever holds the lock and however often they fail.
EveryCallReturns == \A t \in Tasks : ~At(t, "idle") ~> At(t, "idle")
=============================================================================
