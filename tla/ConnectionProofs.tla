-------------------------- MODULE ConnectionProofs --------------------------
(***************************************************************************)
(* Proofs about connecting and closing, for every set of tasks and clients. *)
(***************************************************************************)
EXTENDS Connection, TLAPS, SequenceTheorems

-----------------------------------------------------------------------------
(* The line for the lock.                                                  *)

\* Exactly the tasks of W are in line, each once.
InLine(q, W) ==
    /\ q \in Seq(Tasks)
    /\ \A t \in Tasks : t \in W <=> \E i \in 1..Len(q) : q[i] = t
    /\ \A i, j \in 1..Len(q) : q[i] = q[j] => i = j

LEMMA JoinLine ==
    ASSUME NEW q, NEW W, InLine(q, W), NEW t \in Tasks, t \notin W
    PROVE  InLine(Append(q, t), W \cup {t})
BY DEF InLine

LEMMA LeaveHead ==
    ASSUME NEW q, NEW W, W \subseteq Tasks, InLine(q, W), NEW t \in W, Head(q) = t
    PROVE  InLine(Tail(q), W \ {t})
<1>1. q \in Seq(Tasks) /\ q # <<>> /\ q[1] = t /\ Len(q) \in Nat /\ 1 \in 1..Len(q)
  BY DEF InLine
<1>2. /\ Tail(q) \in Seq(Tasks)
      /\ Len(Tail(q)) = Len(q) - 1
      /\ \A i \in 1..Len(Tail(q)) : Tail(q)[i] = q[i + 1]
  BY <1>1, HeadTailProperties
<1> DEFINE n == Len(Tail(q))
<1>3. \A i, j \in 1..n : Tail(q)[i] = Tail(q)[j] => i = j
  <2>1. \A i \in 1..n : i + 1 \in 1..Len(q)
    BY <1>1, <1>2
  <2> QED BY <1>1, <1>2, <2>1 DEF InLine
<1>4. ASSUME NEW u \in Tasks
      PROVE  u \in W \ {t} <=> \E i \in 1..n : Tail(q)[i] = u
  <2>1. ASSUME NEW i \in 1..n PROVE Tail(q)[i] \in W \ {t}
    <3>1. i + 1 \in 1..Len(q) /\ i + 1 # 1 /\ Tail(q)[i] = q[i + 1]
      BY <1>1, <1>2
    <3>2. q[i + 1] \in Tasks /\ q[i + 1] # t
      BY <1>1, <3>1 DEF InLine
    <3> QED BY <3>1, <3>2 DEF InLine
  <2>2. ASSUME u \in W, u # t PROVE \E i \in 1..n : Tail(q)[i] = u
    <3>1. PICK i \in 1..Len(q) : q[i] = u
      BY <2>2 DEF InLine
    <3>2. i # 1 /\ i - 1 \in 1..n
      BY <1>1, <1>2, <2>2, <3>1
    <3>3. Tail(q)[i - 1] = q[(i - 1) + 1]
      BY <1>2, <3>2
    <3> QED BY <3>1, <3>2, <3>3
  <2> QED BY <2>1, <2>2
<1> QED BY <1>2, <1>3, <1>4 DEF InLine

LEMMA LeaveLine ==
    ASSUME NEW q, NEW W, W \subseteq Tasks, InLine(q, W), NEW k \in 1..Len(q)
    PROVE  InLine(RemoveAt(q, k), W \ {q[k]})
<1> DEFINE a == SubSeq(q, 1, k - 1)
           b == SubSeq(q, k + 1, Len(q))
           r == RemoveAt(q, k)
<1>1. q \in Seq(Tasks) /\ Len(q) \in Nat /\ k \in Nat /\ k >= 1 /\ k <= Len(q)
  BY DEF InLine
<1>2. /\ a \in Seq(Tasks) /\ Len(a) = k - 1
      /\ \A i \in 1..(k - 1) : a[i] = q[i]
  BY <1>1
<1>3. /\ b \in Seq(Tasks) /\ Len(b) = Len(q) - k
      /\ \A i \in 1..(Len(q) - k) : b[i] = q[i + k]
  BY <1>1
<1>4. /\ r \in Seq(Tasks) /\ Len(r) = Len(q) - 1
      /\ \A i \in 1..(Len(q) - 1) : r[i] = IF i < k THEN q[i] ELSE q[i + 1]
  <2>1. r = a \o b
    BY DEF RemoveAt
  <2> HIDE DEF a, b, r
  <2>2. r \in Seq(Tasks) /\ Len(r) = Len(q) - 1
    <3>1. a \o b \in Seq(Tasks) /\ Len(a \o b) = Len(a) + Len(b)
      BY <1>2, <1>3, ConcatProperties, Zenon
    <3> QED BY <1>1, <1>2, <1>3, <2>1, <3>1
  <2>3. ASSUME NEW i \in 1..(Len(q) - 1)
        PROVE  r[i] = IF i < k THEN q[i] ELSE q[i + 1]
    <3>1. CASE i < k
      BY <1>1, <1>2, <1>3, <2>1, <3>1
    <3>2. CASE i >= k
      <4>1. i - (k - 1) \in 1..(Len(q) - k) /\ (i - (k - 1)) + k = i + 1
        BY <1>1, <3>2
      <4>2. r[i] = b[i - (k - 1)]
        BY <1>1, <1>2, <1>3, <2>1, <3>2
      <4> QED BY <1>3, <3>2, <4>1, <4>2
    <3> QED BY <1>1, <3>1, <3>2
  <2> QED BY <2>2, <2>3
<1> HIDE DEF a, b, r
<1> DEFINE n == Len(q) - 1
<1>5. \A i, j \in 1..n : r[i] = r[j] => i = j
  BY <1>1, <1>4 DEF InLine
<1>6. ASSUME NEW u \in Tasks
      PROVE  u \in W \ {q[k]} <=> \E i \in 1..n : r[i] = u
  <2>1. ASSUME NEW i \in 1..n PROVE r[i] \in W \ {q[k]}
    <3>1. PICK j \in 1..Len(q) : j # k /\ r[i] = q[j]
      <4>1. i \in 1..Len(q) /\ i + 1 \in 1..Len(q) /\ i \in Nat
        BY <1>1
      <4>2. CASE i < k
        BY <1>1, <1>4, <4>1, <4>2
      <4>3. CASE ~(i < k)
        BY <1>1, <1>4, <4>1, <4>3
      <4> QED BY <4>2, <4>3
    <3>2. q[j] \in Tasks /\ q[j] # q[k]
      BY <1>1, <3>1 DEF InLine
    <3> QED BY <3>1, <3>2 DEF InLine
  <2>2. ASSUME u \in W, u # q[k] PROVE \E i \in 1..n : r[i] = u
    <3>1. PICK i \in 1..Len(q) : q[i] = u
      BY <2>2 DEF InLine
    <3>2. CASE i < k
      BY <1>1, <1>4, <3>1, <3>2
    <3>3. CASE i > k
      <4>1. i - 1 \in 1..n /\ ~(i - 1 < k) /\ (i - 1) + 1 = i
        BY <1>1, <3>3
      <4> QED BY <1>4, <3>1, <4>1
    <3> QED BY <1>1, <2>2, <3>1, <3>2, <3>3
  <2> QED BY <2>1, <2>2
<1> QED BY <1>4, <1>5, <1>6 DEF InLine, r

-----------------------------------------------------------------------------
(* The inductive invariant.                                                *)

Waiting == {t \in Tasks : At(t, "waiting")}
Locking == Handshake \cup Closing       \* where a task holds the lock

\* The parts of TypeOK that say nothing of the line.
TaskType == [at : Places, call : Calls, using : Clients \cup {None}, result : Results]
Shape ==
    /\ connected \in BOOLEAN /\ up \in BOOLEAN /\ cached \in BOOLEAN
    /\ client \in Clients \cup {None} /\ open \subseteq Clients
    /\ holder \in Tasks \cup {None}
    /\ task \in [Tasks -> TaskType]
    /\ trouble \subseteq Tasks

\* A task is where its call can be; who connects found nothing connected, and
\* who awaits a client has one.
InPlace ==
    \A t \in Tasks :
        /\ At(t, "closing") => task[t].call = "close"
        /\ task[t].at \in Running => task[t].call = "check"
        /\ task[t].at \in Handshake => task[t].call # "close" /\ ~connected /\ ~up
        /\ task[t].at \in Locking => client # None /\ ~up

UpHasClient == up => client # None

\* Whoever is not in trouble has been served by a backend that is up: nobody
\* has met a failure, or a close() that is still going on.
Untroubled ==
    \A t \in Tasks \ trouble :
        /\ task[t].at \in Running => up
        /\ ~At(t, "idle") => \A u \in Tasks : ~At(u, "closing")

Core ==
    /\ Shape
    /\ OneAtATime /\ NoOrphanedClient /\ InStep
    /\ InPlace /\ UpHasClient /\ Untroubled

IInv == Core /\ InLine(queue, Waiting)

\* Everything the facts about one action are made of.
USE DEF At, Move, End, Closing, Handshake, Running, Places, Calls, Results,
        limiterVars, backendVars

\* A call that ends leaves a well-formed task.
LEMMA EndTyped ==
    ASSUME task \in [Tasks -> TaskType], NEW t \in Tasks, NEW result \in Results, End(t, result)
    PROVE  task' \in [Tasks -> TaskType]
<1> DEFINE r == [at |-> "idle", call |-> task[t].call, using |-> None, result |-> result]
<1>1. task[t] \in TaskType
  OBVIOUS
<1>2. r \in TaskType
  BY <1>1 DEF TaskType
<1>3. task'[t] = r
  BY <1>1 DEF TaskType
<1>4. task' = [task EXCEPT ![t] = r]
  BY <1>3
<1> QED BY <1>2, <1>4

LEMMA InitIInv == Init => IInv
<1> USE ConnectionAssumption DEF Init
<1>1. Init => task \in [Tasks -> TaskType]
  BY DEF TaskType
<1>2. Init => Shape
  BY <1>1 DEF Shape
<1>3. Init => OneAtATime /\ NoOrphanedClient /\ InStep
  BY DEF OneAtATime, NoOrphanedClient, InStep
<1>4. Init => InPlace /\ UpHasClient /\ Untroubled
  BY DEF InPlace, UpHasClient, Untroubled, Locking
<1>5. Init => InLine(queue, Waiting)
  BY DEF InLine, Waiting
<1> QED BY <1>2, <1>3, <1>4, <1>5 DEF IInv, Core

\* Only t moves, and not in or out of the line.
LEMMA LineUnchanged ==
    ASSUME InLine(queue, Waiting), NEW t \in Tasks,
           queue' = queue,
           ~At(t, "waiting"), ~At(t, "waiting")',
           \A u \in Tasks \ {t} : task'[u] = task[u]
    PROVE  InLine(queue, Waiting)'
<1>1. Waiting' = Waiting
  BY DEF Waiting
<1> QED BY <1>1 DEF InLine

LEMMA ReplacedCore == ASSUME Core, NEW t \in Tasks, Replaced(t) PROVE Core'
BY ConnectionAssumption
   DEF Replaced, Core, Shape, TaskType, OneAtATime, NoOrphanedClient, InStep, InPlace, UpHasClient,
         Untroubled, Locking, Fresh

LEMMA PingedCore == ASSUME Core, NEW t \in Tasks, Pinged(t) PROVE Core'
BY ConnectionAssumption
   DEF Pinged, Core, Shape, TaskType, OneAtATime, NoOrphanedClient, InStep, InPlace, UpHasClient,
         Untroubled, Locking

LEMMA LoadedCore == ASSUME Core, NEW t \in Tasks, Loaded(t) PROVE Core'
BY ConnectionAssumption
   DEF Loaded, Core, Shape, TaskType, OneAtATime, NoOrphanedClient, InStep, InPlace, UpHasClient,
         Untroubled, Locking, Continue, Issue

LEMMA HandshakeFailsCore ==
    ASSUME Core, NEW t \in Tasks, HandshakeFails(t)
    PROVE  Core'
<1> USE ConnectionAssumption DEF Core, HandshakeFails, Disconnect
<1>1. Shape'
  <2>1. task' \in [Tasks -> TaskType]
    BY DEF Shape, TaskType
  <2>2. /\ client' \in Clients \cup {None} /\ open' \subseteq Clients
        /\ holder' \in Tasks \cup {None} /\ trouble' \subseteq Tasks
    BY DEF Shape
  <2>3. connected' \in BOOLEAN /\ up' \in BOOLEAN /\ cached' \in BOOLEAN
    BY DEF Shape
  <2> QED BY <2>1, <2>2, <2>3 DEF Shape
<1>2. OneAtATime' /\ InStep' /\ NoOrphanedClient'
  BY DEF Shape, TaskType, OneAtATime, InStep, NoOrphanedClient, InPlace, UpHasClient, Locking
<1>3. InPlace' /\ UpHasClient'
  BY DEF Shape, TaskType, OneAtATime, InStep, InPlace, UpHasClient, Locking
<1>4. Untroubled'
  BY DEF Shape, TaskType, OneAtATime, InStep, Untroubled, Locking
<1> QED BY <1>1, <1>2, <1>3, <1>4

LEMMA CleanedCore ==
    ASSUME Core, NEW t \in Tasks, Cleaned(t)
    PROVE  Core'
<1> USE ConnectionAssumption DEF Core, Cleaned
<1>1. Shape'
  <2>1. task' \in [Tasks -> TaskType]
    BY EndTyped DEF Shape
  <2>2. /\ client' \in Clients \cup {None} /\ open' \subseteq Clients
        /\ holder' \in Tasks \cup {None} /\ trouble' \subseteq Tasks
    BY DEF Shape
  <2>3. connected' \in BOOLEAN /\ up' \in BOOLEAN /\ cached' \in BOOLEAN
    BY DEF Shape
  <2> QED BY <2>1, <2>2, <2>3 DEF Shape
<1>2. OneAtATime' /\ InStep' /\ NoOrphanedClient'
  BY DEF Shape, TaskType, OneAtATime, InStep, NoOrphanedClient, InPlace, UpHasClient, Locking
<1>3. InPlace' /\ UpHasClient'
  BY DEF Shape, TaskType, OneAtATime, InStep, InPlace, UpHasClient, Locking
<1>4. Untroubled'
  BY DEF Shape, TaskType, OneAtATime, InStep, Untroubled, Locking
<1> QED BY <1>1, <1>2, <1>3, <1>4

LEMMA ClosedCore ==
    ASSUME Core, NEW t \in Tasks, Closed(t)
    PROVE  Core'
<1> USE ConnectionAssumption DEF Core, Closed
<1>1. Shape'
  <2>1. task' \in [Tasks -> TaskType]
    BY EndTyped DEF Shape
  <2>2. /\ client' \in Clients \cup {None} /\ open' \subseteq Clients
        /\ holder' \in Tasks \cup {None} /\ trouble' \subseteq Tasks
    BY DEF Shape
  <2>3. connected' \in BOOLEAN /\ up' \in BOOLEAN /\ cached' \in BOOLEAN
    BY DEF Shape
  <2> QED BY <2>1, <2>2, <2>3 DEF Shape
<1>2. OneAtATime' /\ InStep' /\ NoOrphanedClient'
  BY DEF Shape, TaskType, OneAtATime, InStep, NoOrphanedClient, InPlace, UpHasClient, Locking
<1>3. InPlace' /\ UpHasClient'
  BY DEF Shape, TaskType, OneAtATime, InStep, InPlace, UpHasClient, Locking
<1>4. Untroubled'
  BY DEF Shape, TaskType, OneAtATime, InStep, Untroubled, Locking
<1> QED BY <1>1, <1>2, <1>3, <1>4

LEMMA CloseFailsCore ==
    ASSUME Core, NEW t \in Tasks, CloseFails(t)
    PROVE  Core'
<1> USE ConnectionAssumption DEF Core, CloseFails
<1>1. Shape'
  <2>1. task' \in [Tasks -> TaskType]
    BY EndTyped DEF Shape
  <2>2. /\ client' \in Clients \cup {None} /\ open' \subseteq Clients
        /\ holder' \in Tasks \cup {None} /\ trouble' \subseteq Tasks
    BY DEF Shape
  <2>3. connected' \in BOOLEAN /\ up' \in BOOLEAN /\ cached' \in BOOLEAN
    BY DEF Shape
  <2> QED BY <2>1, <2>2, <2>3 DEF Shape
<1>2. OneAtATime' /\ InStep' /\ NoOrphanedClient'
  BY DEF Shape, TaskType, OneAtATime, InStep, NoOrphanedClient, InPlace, UpHasClient, Locking
<1>3. InPlace' /\ UpHasClient'
  BY DEF Shape, TaskType, OneAtATime, InStep, InPlace, UpHasClient, Locking
<1>4. Untroubled'
  BY DEF Shape, TaskType, OneAtATime, InStep, Untroubled, Locking
<1> QED BY <1>1, <1>2, <1>3, <1>4

LEMMA ScriptRanCore == ASSUME Core, NEW t \in Tasks, ScriptRan(t) PROVE Core'
BY ConnectionAssumption
   DEF ScriptRan, Core, Shape, TaskType, OneAtATime, NoOrphanedClient, InStep, InPlace, UpHasClient,
         Untroubled, Locking

LEMMA ScriptFailsCore ==
    ASSUME Core, NEW t \in Tasks, ScriptFails(t)
    PROVE  Core'
<1> USE ConnectionAssumption DEF Core, ScriptFails
<1>1. Shape'
  <2>1. task' \in [Tasks -> TaskType]
    BY EndTyped DEF Shape
  <2>2. /\ client' \in Clients \cup {None} /\ open' \subseteq Clients
        /\ holder' \in Tasks \cup {None} /\ trouble' \subseteq Tasks
    BY DEF Shape
  <2>3. connected' \in BOOLEAN /\ up' \in BOOLEAN /\ cached' \in BOOLEAN
    BY DEF Shape
  <2> QED BY <2>1, <2>2, <2>3 DEF Shape
<1>2. OneAtATime' /\ InStep' /\ NoOrphanedClient'
  BY DEF Shape, TaskType, OneAtATime, InStep, NoOrphanedClient, InPlace, UpHasClient, Locking
<1>3. InPlace' /\ UpHasClient'
  BY DEF Shape, TaskType, OneAtATime, InStep, InPlace, UpHasClient, Locking
<1>4. Untroubled'
  BY DEF Shape, TaskType, OneAtATime, InStep, Untroubled, Locking
<1> QED BY <1>1, <1>2, <1>3, <1>4

LEMMA NoScriptCore == ASSUME Core, NEW t \in Tasks, NoScript(t) PROVE Core'
BY ConnectionAssumption
   DEF NoScript, Core, Shape, TaskType, OneAtATime, NoOrphanedClient, InStep, InPlace, UpHasClient,
         Untroubled, Locking, Issue

LEMMA CheckConnectedCore == ASSUME Core, NEW t \in Tasks, CheckConnected(t) PROVE Core'
BY ConnectionAssumption
   DEF CheckConnected, Core, Shape, TaskType, OneAtATime, NoOrphanedClient, InStep, InPlace, UpHasClient,
         Untroubled, Locking, Issue

LEMMA WaitForLockCore == ASSUME Core, NEW t \in Tasks, WaitForLock(t) PROVE Core'
BY ConnectionAssumption
   DEF WaitForLock, Core, Shape, TaskType, OneAtATime, NoOrphanedClient, InStep, InPlace, UpHasClient,
         Untroubled, Locking

LEMMA CancelWaitingCore ==
    ASSUME Core, NEW t \in Tasks, CancelWaiting(t)
    PROVE  Core'
<1> USE ConnectionAssumption DEF Core, CancelWaiting
<1>1. Shape'
  <2>1. task' \in [Tasks -> TaskType]
    BY EndTyped DEF Shape
  <2>2. /\ client' \in Clients \cup {None} /\ open' \subseteq Clients
        /\ holder' \in Tasks \cup {None} /\ trouble' \subseteq Tasks
    BY DEF Shape
  <2>3. connected' \in BOOLEAN /\ up' \in BOOLEAN /\ cached' \in BOOLEAN
    BY DEF Shape
  <2> QED BY <2>1, <2>2, <2>3 DEF Shape
<1>2. OneAtATime' /\ InStep' /\ NoOrphanedClient'
  BY DEF Shape, TaskType, OneAtATime, InStep, NoOrphanedClient, InPlace, UpHasClient, Locking
<1>3. InPlace' /\ UpHasClient'
  BY DEF Shape, TaskType, OneAtATime, InStep, InPlace, UpHasClient, Locking
<1>4. Untroubled'
  BY DEF Shape, TaskType, OneAtATime, InStep, Untroubled, Locking
<1> QED BY <1>1, <1>2, <1>3, <1>4

LEMMA CallCore == ASSUME Core, NEW t \in Tasks, NEW c \in Calls, Call(t, c) PROVE Core'
BY ConnectionAssumption
   DEF Call, Core, Shape, TaskType, OneAtATime, NoOrphanedClient, InStep, InPlace, UpHasClient,
         Untroubled, Locking

LEMMA ConnectLockedCore ==
    ASSUME Core, NEW t \in Tasks, task[t].at \in {"called", "waiting"}, task[t].call # "close",
           holder = None, ConnectLocked(t), UNCHANGED trouble
    PROVE  Core'
<1> USE ConnectionAssumption DEF Core, ConnectLocked, OpenClient, Disconnect, Continue, Issue, Fresh
<1>1. Shape'
  <2>1. task' \in [Tasks -> TaskType]
    BY DEF Shape, TaskType
  <2>2. /\ client' \in Clients \cup {None} /\ open' \subseteq Clients
        /\ holder' \in Tasks \cup {None} /\ trouble' \subseteq Tasks
    BY DEF Shape
  <2>3. connected' \in BOOLEAN /\ up' \in BOOLEAN /\ cached' \in BOOLEAN
    BY DEF Shape
  <2> QED BY <2>1, <2>2, <2>3 DEF Shape
<1>2. OneAtATime' /\ InStep' /\ NoOrphanedClient'
  BY DEF Shape, TaskType, OneAtATime, InStep, NoOrphanedClient, InPlace, UpHasClient, Locking
<1>3. InPlace' /\ UpHasClient'
  BY DEF Shape, TaskType, OneAtATime, InStep, InPlace, UpHasClient, Locking
<1>4. Untroubled'
  BY DEF Shape, TaskType, OneAtATime, InStep, Untroubled, Locking
<1> QED BY <1>1, <1>2, <1>3, <1>4

LEMMA CloseLockedCore ==
    ASSUME Core, NEW t \in Tasks, task[t].at \in {"called", "waiting"}, task[t].call = "close",
           holder = None, CloseLocked(t), trouble' = Tasks
    PROVE  Core'
<1> USE ConnectionAssumption DEF Core, CloseLocked, Disconnect
<1>1. Shape'
  <2>1. task' \in [Tasks -> TaskType]
    BY DEF Shape, TaskType
  <2>2. /\ client' \in Clients \cup {None} /\ open' \subseteq Clients
        /\ holder' \in Tasks \cup {None} /\ trouble' \subseteq Tasks
    BY DEF Shape
  <2>3. connected' \in BOOLEAN /\ up' \in BOOLEAN /\ cached' \in BOOLEAN
    BY DEF Shape
  <2> QED BY <2>1, <2>2, <2>3 DEF Shape
<1>2. OneAtATime' /\ InStep' /\ NoOrphanedClient'
  BY DEF Shape, TaskType, OneAtATime, InStep, NoOrphanedClient, InPlace, UpHasClient, Locking
<1>3. InPlace' /\ UpHasClient'
  BY DEF Shape, TaskType, OneAtATime, InStep, InPlace, UpHasClient, Locking
<1>4. Untroubled'
  BY DEF Shape, TaskType, OneAtATime, InStep, Untroubled, Locking
<1> QED BY <1>1, <1>2, <1>3, <1>4

LEMMA LockedCore ==
    ASSUME Core, NEW t \in Tasks, task[t].at \in {"called", "waiting"}, holder = None, Locked(t)
    PROVE  /\ Core'
           /\ ~At(t, "waiting")'
           /\ \A u \in Tasks \ {t} : task'[u] = task[u]
<1>1. CASE task[t].call = "close"
  <2>1. CloseLocked(t) /\ trouble' = Tasks
    BY <1>1 DEF Locked
  <2>2. Core'
    BY <1>1, <2>1, CloseLockedCore
  <2> QED BY <2>1, <2>2 DEF Core, Shape, TaskType, CloseLocked, Disconnect
<1>2. CASE task[t].call # "close"
  <2>1. ConnectLocked(t) /\ UNCHANGED trouble
    BY <1>2 DEF Locked
  <2>2. Core'
    BY <1>2, <2>1, ConnectLockedCore
  <2> QED BY <2>1, <2>2
          DEF Core, Shape, TaskType, ConnectLocked, OpenClient, Disconnect, Continue, Issue
<1> QED BY <1>1, <1>2

LEMMA TakeLockIInv == ASSUME IInv, NEW t \in Tasks, TakeLock(t) PROVE IInv'
<1>1. Locked(t) /\ holder = None /\ At(t, "called") /\ queue' = queue
  BY DEF TakeLock, LockFree
<1>2. Core' /\ ~At(t, "waiting")' /\ \A u \in Tasks \ {t} : task'[u] = task[u]
  BY <1>1, LockedCore DEF IInv
<1> QED BY <1>1, <1>2, LineUnchanged DEF IInv

LEMMA WaitForLockIInv == ASSUME IInv, NEW t \in Tasks, WaitForLock(t) PROVE IInv'
<1>1. t \notin Waiting /\ Waiting' = Waiting \cup {t} /\ queue' = Append(queue, t)
  BY DEF WaitForLock, Waiting, IInv, Core, Shape
<1>2. InLine(Append(queue, t), Waiting \cup {t})
  BY <1>1, JoinLine DEF IInv
<1> QED BY <1>1, <1>2, WaitForLockCore DEF IInv, InLine

LEMMA GetLockIInv == ASSUME IInv, NEW t \in Tasks, GetLock(t) PROVE IInv'
<1>1. Locked(t) /\ holder = None /\ At(t, "waiting") /\ Head(queue) = t /\ queue' = Tail(queue)
  BY DEF GetLock
<1>2. Core' /\ ~At(t, "waiting")' /\ \A u \in Tasks \ {t} : task'[u] = task[u]
  BY <1>1, LockedCore DEF IInv
<1>3. Waiting' = Waiting \ {t} /\ t \in Waiting /\ Waiting \subseteq Tasks
  BY <1>1, <1>2 DEF Waiting
<1>4. InLine(Tail(queue), Waiting \ {t})
  BY <1>1, <1>3, LeaveHead DEF IInv
<1> QED BY <1>1, <1>2, <1>3, <1>4 DEF IInv, InLine

LEMMA CancelWaitingIInv == ASSUME IInv, NEW t \in Tasks, CancelWaiting(t) PROVE IInv'
<1>1. PICK i \in 1..Len(queue) : queue[i] = t /\ queue' = RemoveAt(queue, i)
  BY DEF CancelWaiting
<1>2. Waiting' = Waiting \ {t} /\ Waiting \subseteq Tasks
  BY DEF CancelWaiting, Waiting, IInv, Core, Shape
<1>3. InLine(RemoveAt(queue, i), Waiting \ {t})
  BY <1>1, <1>2, LeaveLine DEF IInv
<1> QED BY <1>1, <1>2, <1>3, CancelWaitingCore DEF IInv, InLine

LEMMA NextIInv == IInv /\ [Next]_vars => IInv'
<1> SUFFICES ASSUME IInv, [Next]_vars PROVE IInv'
  OBVIOUS
<1>0. task \in [Tasks -> TaskType] /\ InLine(queue, Waiting) /\ Core
  BY DEF IInv, Core, Shape
<1>1. ASSUME NEW t \in Tasks, NEW c \in Calls, Call(t, c) PROVE IInv'
  <2>1. queue' = queue /\ ~At(t, "waiting") /\ ~At(t, "waiting")'
        /\ \A u \in Tasks \ {t} : task'[u] = task[u]
    BY <1>0, <1>1 DEF Call
  <2> QED BY <1>0, <1>1, <2>1, CallCore, LineUnchanged DEF IInv
<1>2. ASSUME NEW t \in Tasks, CheckConnected(t) \/ NoScript(t) PROVE IInv'
  <2>1. queue' = queue /\ ~At(t, "waiting") /\ ~At(t, "waiting")'
        /\ \A u \in Tasks \ {t} : task'[u] = task[u]
    BY <1>0, <1>2 DEF TaskType, CheckConnected, NoScript, Issue
  <2> QED BY <1>0, <1>2, <2>1, CheckConnectedCore, NoScriptCore, LineUnchanged DEF IInv
<1>3. ASSUME NEW t \in Tasks, Replaced(t) \/ Pinged(t) \/ HandshakeFails(t) PROVE IInv'
  <2>1. queue' = queue /\ ~At(t, "waiting") /\ ~At(t, "waiting")'
        /\ \A u \in Tasks \ {t} : task'[u] = task[u]
    BY <1>0, <1>3 DEF TaskType, Replaced, Pinged, HandshakeFails, Disconnect
  <2> QED BY <1>0, <1>3, <2>1, ReplacedCore, PingedCore, HandshakeFailsCore, LineUnchanged DEF IInv
<1>4. ASSUME NEW t \in Tasks, Loaded(t) PROVE IInv'
  <2>1. queue' = queue /\ ~At(t, "waiting") /\ ~At(t, "waiting")'
        /\ \A u \in Tasks \ {t} : task'[u] = task[u]
    BY <1>0, <1>4 DEF TaskType, Loaded, Continue, Issue
  <2> QED BY <1>0, <1>4, <2>1, LoadedCore, LineUnchanged DEF IInv
<1>5. ASSUME NEW t \in Tasks, Cleaned(t) \/ Closed(t) \/ CloseFails(t) PROVE IInv'
  <2>1. queue' = queue /\ ~At(t, "waiting") /\ ~At(t, "waiting")'
        /\ \A u \in Tasks \ {t} : task'[u] = task[u]
    BY <1>0, <1>5 DEF TaskType, Cleaned, Closed, CloseFails
  <2> QED BY <1>0, <1>5, <2>1, CleanedCore, ClosedCore, CloseFailsCore, LineUnchanged DEF IInv
<1>6. ASSUME NEW t \in Tasks, ScriptRan(t) \/ ScriptFails(t) PROVE IInv'
  <2>1. queue' = queue /\ ~At(t, "waiting") /\ ~At(t, "waiting")'
        /\ \A u \in Tasks \ {t} : task'[u] = task[u]
    BY <1>0, <1>6 DEF TaskType, ScriptRan, ScriptFails
  <2> QED BY <1>0, <1>6, <2>1, ScriptRanCore, ScriptFailsCore, LineUnchanged DEF IInv
<1>7. CASE UNCHANGED vars
  BY <1>7 DEF IInv, Core, Shape, OneAtATime, NoOrphanedClient, InStep, InPlace, UpHasClient,
              Untroubled, Locking, Waiting, InLine, vars
<1> QED BY <1>1, <1>2, <1>3, <1>4, <1>5, <1>6, <1>7, TakeLockIInv, WaitForLockIInv, GetLockIInv,
           CancelWaitingIInv DEF Next, Step

LEMMA Inductive == Spec => []IInv
BY InitIInv, NextIInv, PTL DEF Spec

-----------------------------------------------------------------------------
(* The properties the runs check.                                          *)

\* State keeps its shape, and exactly the tasks that wait for the lock are in
\* its line, each once: no cancelled waiter is ever left behind in it.
THEOREM TypeCorrect == Spec => []TypeOK
<1>1. IInv => TypeOK
  BY DEF IInv, Core, Shape, TaskType, InLine, Waiting, TypeOK
<1> QED BY Inductive, <1>1, PTL

\* connect() and close() exclude each other for any number of tasks, however
\* their handshakes fail and wherever they are cancelled.
THEOREM MutualExclusion == Spec => []OneAtATime
<1>1. IInv => OneAtATime
  BY DEF IInv, Core
<1> QED BY Inductive, <1>1, PTL

\* No client is ever left open that the backend does not hold.
THEOREM NoClientLost == Spec => []NoOrphanedClient
<1>1. IInv => NoOrphanedClient
  BY DEF IInv, Core
<1> QED BY Inductive, <1>1, PTL

\* Limiter and backend agree on being connected whenever the lock is free.
THEOREM LayersAgree == Spec => []InStep
<1>1. IInv => InStep
  BY DEF IInv, Core
<1> QED BY Inductive, <1>1, PTL

\* Only the task that takes a step is moved by it.
LEMMA OneMoves ==
    ASSUME Core, NEW t \in Tasks, Step(t) \/ CancelWaiting(t), NEW u \in Tasks, u # t
    PROVE  task'[u] = task[u]
<1> USE DEF Core, Shape
<1>1. Locked(t) => task'[u] = task[u]
  BY DEF Locked, CloseLocked, ConnectLocked, OpenClient, Disconnect, Continue, Issue
<1>2. CheckConnected(t) \/ NoScript(t) \/ Loaded(t) => task'[u] = task[u]
  BY DEF CheckConnected, NoScript, Loaded, Continue, Issue
<1> QED
  BY <1>1, <1>2
     DEF Step, TakeLock, WaitForLock, GetLock, CancelWaiting, Replaced, Pinged, HandshakeFails,
         Disconnect, Cleaned, Closed, CloseFails, ScriptRan, ScriptFails

\* How a task that is not idle can come to be idle: a script that was run, a
\* check that found no backend, a connect() or close() that is done, or a
\* failure, which puts every task in trouble.
LEMMA WaysToEnd ==
    ASSUME IInv, NEW t \in Tasks, Step(t) \/ CancelWaiting(t), task'[t].at = "idle"
    PROVE  \/ task'[t].result = "error" /\ trouble' = Tasks
           \/ task'[t].result = "ok" /\ task[t].call # "close"
           \/ task'[t].result = "ok" /\ open' = {} /\ ~connected' /\ ~up'
           \/ task[t].at \in Running /\ client = None /\ task[t].call = "check"
              /\ trouble' = trouble
           \/ At(t, "called") /\ task[t].call = "check" /\ connected /\ ~up /\ trouble' = trouble
<1> USE DEF IInv, Core, Shape, TaskType
<1>1. CASE CheckConnected(t)
  BY <1>1 DEF CheckConnected, Issue, UpHasClient
<1>2. CASE TakeLock(t) \/ GetLock(t)
  <2>1. Locked(t) /\ holder = None
    BY <1>2 DEF TakeLock, LockFree, GetLock
  <2>2. CASE CloseLocked(t)
    BY <2>1, <2>2 DEF CloseLocked, Disconnect, NoOrphanedClient, InStep, UpHasClient
  <2>3. CASE ConnectLocked(t) /\ task[t].call # "close"
    BY <2>1, <2>3 DEF ConnectLocked, OpenClient, Disconnect, Continue, Issue, InStep, UpHasClient
  <2> QED BY <2>1, <2>2, <2>3 DEF Locked
<1>3. CASE WaitForLock(t) \/ Replaced(t) \/ Pinged(t) \/ HandshakeFails(t)
  BY <1>3 DEF WaitForLock, Replaced, Pinged, HandshakeFails, Disconnect
<1>4. CASE Loaded(t)
  BY <1>4 DEF Loaded, Continue, Issue, InPlace, Locking
<1>5. CASE CancelWaiting(t) \/ Cleaned(t) \/ CloseFails(t) \/ ScriptFails(t)
  BY <1>5 DEF CancelWaiting, Cleaned, CloseFails, ScriptFails
<1>6. CASE Closed(t)
  BY <1>6 DEF Closed, InPlace, Locking, NoOrphanedClient
<1>7. CASE ScriptRan(t)
  BY <1>7 DEF ScriptRan, InPlace
<1>8. CASE NoScript(t)
  BY <1>8 DEF NoScript, Issue, InPlace
<1> QED BY <1>1, <1>2, <1>3, <1>4, <1>5, <1>6, <1>7, <1>8 DEF Step

\* close() that returns leaves nothing open, in every interleaving.
THEOREM ClosedIsClosed == Spec => ClosedMeansClosed
<1> DEFINE Returns ==
        \A t \in Tasks :
            /\ task[t].call = "close" /\ ~At(t, "idle")
            /\ task'[t].at = "idle" /\ task'[t].result = "ok"
            => open' = {} /\ ~connected' /\ ~up'
<1>1. IInv /\ [Next]_vars => [Returns]_vars
  <2> SUFFICES ASSUME IInv, Next, NEW u \in Tasks,
                      task[u].call = "close", task[u].at # "idle",
                      task'[u].at = "idle", task'[u].result = "ok"
               PROVE  open' = {} /\ ~connected' /\ ~up'
    OBVIOUS
  <2>1. ASSUME NEW t \in Tasks, NEW c \in Calls, Call(t, c) PROVE FALSE
    BY <2>1 DEF Call, IInv, Core, Shape
  <2>2. ASSUME NEW t \in Tasks, Step(t) \/ CancelWaiting(t) PROVE t = u
    BY <2>2, OneMoves DEF IInv
  <2>3. Step(u) \/ CancelWaiting(u)
    BY <2>1, <2>2 DEF Next
  <2> QED BY <2>3, WaysToEnd
<1> QED BY Inductive, <1>1, PTL DEF Spec, ClosedMeansClosed

\* A check fails only if it met a failure or a close() that was going on.
THEOREM ErrorsAreCaused == Spec => NoSpuriousError
<1> DEFINE Caused ==
        \A t \in Tasks :
            /\ task[t].call = "check" /\ ~At(t, "idle")
            /\ task'[t].at = "idle" /\ task'[t].result = "error"
            => t \in trouble'
<1>1. IInv /\ [Next]_vars => [Caused]_vars
  <2> SUFFICES ASSUME IInv, Next, NEW u \in Tasks,
                      task[u].call = "check", task[u].at # "idle",
                      task'[u].at = "idle", task'[u].result = "error"
               PROVE  u \in trouble'
    OBVIOUS
  <2>1. ASSUME NEW t \in Tasks, NEW c \in Calls, Call(t, c) PROVE FALSE
    BY <2>1 DEF Call, IInv, Core, Shape
  <2>2. ASSUME NEW t \in Tasks, Step(t) \/ CancelWaiting(t) PROVE t = u
    BY <2>2, OneMoves DEF IInv
  <2>3. Step(u) \/ CancelWaiting(u)
    BY <2>1, <2>2 DEF Next
  <2>4. \/ trouble' = Tasks
        \/ task[u].at \in Running /\ client = None /\ trouble' = trouble
        \/ At(u, "called") /\ connected /\ ~up /\ trouble' = trouble
    BY <2>3, WaysToEnd
  <2>5. CASE task[u].at \in Running /\ client = None /\ trouble' = trouble
    BY <2>5 DEF IInv, Core, Untroubled, UpHasClient
  <2>6. CASE At(u, "called") /\ connected /\ ~up /\ trouble' = trouble
    <3>1. PICK v \in Tasks : holder = v /\ task[v].at \in Locking
      BY <2>6 DEF IInv, Core, Shape, InStep, OneAtATime, Locking
    <3>2. At(v, "closing")
      BY <2>6, <3>1 DEF IInv, Core, InPlace, Locking
    <3> QED BY <2>6, <3>2 DEF IInv, Core, Untroubled
  <2> QED BY <2>4, <2>5, <2>6
<1> QED BY Inductive, <1>1, PTL DEF Spec, NoSpuriousError
=============================================================================
