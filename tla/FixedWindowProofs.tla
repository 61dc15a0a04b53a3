------------------------- MODULE FixedWindowProofs -------------------------
(***************************************************************************)
(* Proofs about the fixed-window algorithm and the snapshots of its usage, *)
(* for every capacity, window length, cost set and horizon.                *)
(***************************************************************************)
EXTENDS FixedWindowUsage, ArithmeticProofs

-----------------------------------------------------------------------------
(* Arithmetic of windows.                                                  *)

LEMMA WindowFacts ==
    ASSUME NEW t \in Nat
    PROVE  /\ Second(t) \in Nat
           /\ WindowStart(t) \in Nat
           /\ WindowStart(t) <= Second(t)
           /\ Second(t) < WindowEnd(WindowStart(t))
           /\ MsPerSecond * Second(t) <= t
           /\ t < MsPerSecond * Second(t) + MsPerSecond
<1>1. Second(t) \in Nat /\ MsPerSecond * Second(t) <= t /\ t < MsPerSecond * Second(t) + MsPerSecond
  BY FixedWindowAssumption, DivisionFacts, SMT DEF Second
<1> DEFINE r == Second(t) % WindowSeconds
           p == WindowSeconds * (Second(t) \div WindowSeconds)
<1>2. r \in 0..(WindowSeconds - 1) /\ Second(t) = p + r /\ Second(t) \div WindowSeconds \in Nat
  BY <1>1, FixedWindowAssumption, DivisionFacts
<1>3. p \in Nat
  BY <1>2, FixedWindowAssumption, SMT
<1>4. WindowStart(t) = Second(t) - r /\ WindowEnd(WindowStart(t)) = WindowStart(t) + WindowSeconds
  BY DEF WindowStart, WindowEnd
<1> HIDE DEF r, p
<1> QED BY <1>1, <1>2, <1>3, <1>4, FixedWindowAssumption, SMT

\* Every instant of the model lies in a window that has a counter.
LEMMA WindowHasCounter ==
    ASSUME NEW t \in 0..Horizon
    PROVE  WindowStart(t) \in Starts
<1>1. t \in Nat /\ t <= Horizon /\ Horizon \in Nat
  BY FixedWindowAssumption, SMT
<1>2. Second(t) <= Second(Horizon)
  BY <1>1, FixedWindowAssumption, DivisionMonotone DEF Second
<1> QED BY <1>1, <1>2, WindowFacts, SMT DEF Starts

\* A later instant is in the same window exactly if it precedes its end, and
\* otherwise in a window that starts no earlier than that end.
LEMMA WindowOrder ==
    ASSUME NEW t \in Nat, NEW u \in Nat, t <= u
    PROVE  /\ (WindowStart(u) = WindowStart(t)) <=> (u < EndMs(WindowStart(t)))
           /\ WindowStart(u) # WindowStart(t) => WindowStart(u) >= WindowEnd(WindowStart(t))
<1> DEFINE s == WindowStart(t)
           m == MsPerSecond
           e == WindowEnd(s)
<1>0. m \in Nat \ {0} /\ s \in Nat /\ e \in Nat /\ WindowSeconds \in Nat \ {0}
  BY FixedWindowAssumption, WindowFacts, SMT DEF WindowEnd
<1>1. Second(t) <= Second(u)
  BY FixedWindowAssumption, DivisionMonotone DEF Second
<1>2. WindowStart(u) = s \/ WindowStart(u) >= e
  BY <1>0, <1>1, WindowFacts, RoundedDown DEF WindowStart, WindowEnd
<1>3. CASE WindowStart(u) = s
  <2>1. Second(u) + 1 <= e
    BY <1>3, <1>0, WindowFacts, SMT
  <2>2. m * (e - (Second(u) + 1)) >= 0
    BY <2>1, <1>0, WindowFacts, SMT
  <2>3. m * (e - (Second(u) + 1)) = m * e - (m * Second(u) + m)
    BY <1>0, WindowFacts, SMT
  <2>4. m * Second(u) \in Nat /\ m * e \in Nat /\ e * m = m * e
    BY <1>0, WindowFacts, SMT
  <2>5. u < e * m
    BY <2>2, <2>3, <2>4, WindowFacts, <1>0, SMT
  <2> QED BY <2>5, <1>3 DEF EndMs
<1>4. CASE WindowStart(u) >= e
  <2>1. Second(u) >= e
    BY <1>4, <1>0, WindowFacts, SMT
  <2>2. m * (Second(u) - e) >= 0
    BY <2>1, <1>0, WindowFacts, SMT
  <2>3. m * (Second(u) - e) = m * Second(u) - m * e
    BY <1>0, WindowFacts, SMT
  <2>4. m * Second(u) \in Nat /\ m * e \in Nat /\ e * m = m * e
    BY <1>0, WindowFacts, SMT
  <2>5. u >= e * m
    BY <2>2, <2>3, <2>4, WindowFacts, <1>0, SMT
  <2>6. WindowStart(u) # s
    BY <1>4, <1>0, WindowFacts, SMT DEF WindowEnd
  <2> QED BY <2>4, <2>5, <2>6, <1>4, <1>0, SMT DEF EndMs
<1> QED BY <1>2, <1>3, <1>4

-----------------------------------------------------------------------------
(* The inductive invariant.  NoOverAdmission alone is not inductive: it    *)
(* needs that the current counter accounts for everything granted in the   *)
(* current window, which survives the passing of time only because keys    *)
(* expire with their windows and the counters of later windows are fresh.  *)

ChargedInFull == granted[Window] = counter[Window]

FutureUntouched ==
    \A w \in Starts : w > Window => counter[w] = 0 /\ granted[w] = 0

DenialHolds ==
    denial.cost > 0 =>
        /\ denial.at <= now
        /\ denial.until = EndMs(WindowStart(denial.at))
        /\ denial.at < denial.until
        /\ now < denial.until => counter[Window] + denial.cost > MaxRequests

IInv ==
    /\ TypeOK
    /\ NoOverAdmission
    /\ ExpiresWithItsWindow
    /\ ChargedInFull
    /\ FutureUntouched
    /\ DenialHolds

LEMMA CurrentWindow ==
    ASSUME now \in 0..Horizon
    PROVE  /\ now \in Nat
           /\ Window \in Starts
           /\ Window \in Nat
           /\ now < EndMs(Window)
           /\ EndMs(Window) \in Nat
           /\ WindowEnd(Window) \in Nat
<1>1. now \in Nat
  BY FixedWindowAssumption, SMT
<1>2. now < EndMs(Window)
  BY <1>1, WindowOrder DEF Window
<1>3. Window \in Nat
  BY <1>1, WindowFacts DEF Window
<1>4. WindowEnd(Window) \in Nat
  BY <1>3, FixedWindowAssumption, SMT DEF WindowEnd
<1>5. EndMs(Window) \in Nat
  BY <1>4, FixedWindowAssumption, SMT DEF EndMs
<1> QED BY <1>1, <1>2, <1>3, <1>4, <1>5, WindowHasCounter DEF Window

LEMMA StartsAreNumbers == Starts \subseteq Nat
BY SMT DEF Starts

LEMMA InitIInv == Init => IInv
<1> SUFFICES ASSUME Init PROVE IInv
  OBVIOUS
<1>1. now \in 0..Horizon
  BY FixedWindowAssumption, SMT DEF Init
<1>2. Window \in Starts
  BY <1>1, CurrentWindow
<1>3. TypeOK
  BY <1>1, FixedWindowAssumption, SMT DEF Init, TypeOK, NoReply, Reply, NoDenial, NoExpiry
<1>4. NoOverAdmission /\ ExpiresWithItsWindow /\ ChargedInFull /\ FutureUntouched
  BY <1>2, FixedWindowAssumption, SMT
  DEF Init, NoOverAdmission, ExpiresWithItsWindow, ChargedInFull, FutureUntouched
<1>5. DenialHolds
  BY SMT DEF Init, DenialHolds, NoDenial
<1> QED BY <1>3, <1>4, <1>5 DEF IInv

-----------------------------------------------------------------------------
(* One lemma per action.                                                   *)

\* A check leaves the clock alone; this is what the repair does to a key.
LEMMA RepairFacts ==
    ASSUME IInv, NEW w \in Starts
    PROVE  /\ Repaired(w) = NoExpiry \/ Repaired(w) = EndMs(w)
           /\ Repaired(w) # NoExpiry => counter[w] > 0
           /\ counter[w] > 0 => Repaired(w) = EndMs(w)
BY DEF IInv, ExpiresWithItsWindow, Repaired, NoExpiry, TypeOK

LEMMA EndMsNat == ASSUME NEW w \in Starts PROVE EndMs(w) \in Nat
<1>1. WindowEnd(w) \in Nat
  BY StartsAreNumbers, FixedWindowAssumption, SMT DEF WindowEnd
<1> QED BY <1>1, FixedWindowAssumption, SMT DEF EndMs

LEMMA DenyOversizedIInv ==
    ASSUME IInv, NEW c \in Costs, DenyOversized(c)
    PROVE  IInv'
<1> USE DEF IInv
<1>0. Window \in Starts /\ Window' = Window
  BY CurrentWindow DEF DenyOversized, Window, TypeOK
<1>1. TypeOK'
  <2>1. expiry' \in [Starts -> Nat \cup {NoExpiry}]
    BY <1>0, RepairFacts, EndMsNat DEF TypeOK, DenyOversized
  <2>2. AtLeast0(MaxRequests - counter[Window]) \in 0..MaxRequests
    BY <1>0, FixedWindowAssumption, SMT DEF TypeOK, AtLeast0
  <2>3. c \in Nat
    BY FixedWindowAssumption
  <2> QED BY <2>1, <2>2, <2>3, SMT DEF TypeOK, DenyOversized, Reply
<1>2. ExpiresWithItsWindow'
  <2> SUFFICES ASSUME NEW w \in Starts, expiry'[w] # NoExpiry
               PROVE  counter'[w] > 0 /\ expiry'[w] = EndMs(w)
    BY DEF ExpiresWithItsWindow, EndMs, WindowEnd
  <2>1. expiry'[w] = IF w = Window THEN Repaired(Window) ELSE expiry[w]
    BY <1>0 DEF DenyOversized, TypeOK
  <2>2. counter' = counter
    BY DEF DenyOversized
  <2> QED BY <1>0, <2>1, <2>2, RepairFacts DEF ExpiresWithItsWindow
<1>3. NoOverAdmission' /\ ChargedInFull' /\ FutureUntouched' /\ DenialHolds'
  BY <1>0 DEF DenyOversized, NoOverAdmission, ChargedInFull, FutureUntouched, DenialHolds,
              EndMs, WindowEnd, WindowStart, Second
<1> QED BY <1>1, <1>2, <1>3

LEMMA AdmitIInv ==
    ASSUME IInv, NEW c \in Costs, Admit(c)
    PROVE  IInv'
<1> USE DEF IInv
<1>0. /\ Window \in Starts /\ Window' = Window /\ now \in Nat /\ EndMs(Window) \in Nat
      /\ now < EndMs(Window) /\ WindowEnd(Window) \in Nat /\ c \in Nat /\ c > 0
  BY CurrentWindow, FixedWindowAssumption, SMT DEF Admit, Window, TypeOK
<1>1. /\ counter[Window] \in Nat
      /\ counter[Window] + c <= MaxRequests
      /\ counter' = [counter EXCEPT ![Window] = counter[Window] + c]
      /\ granted' = [granted EXCEPT ![Window] = granted[Window] + c]
      /\ counter'[Window] = counter[Window] + c
      /\ granted'[Window] = counter[Window] + c
  BY <1>0, SMT DEF Admit, Fits, TypeOK, ChargedInFull
<1>2. expiry' = [expiry EXCEPT ![Window] = EndMs(Window)]
  <2>1. counter'[Window] = c \/ counter[Window] > 0
    BY <1>0, <1>1, SMT
  <2> QED BY <1>0, <2>1, RepairFacts DEF Admit
<1>3. TypeOK'
  <2>1. expiry' \in [Starts -> Nat \cup {NoExpiry}] /\ expiry'[Window] = EndMs(Window)
    BY <1>0, <1>2 DEF TypeOK
  <2>2. counter' \in [Starts -> 0..MaxRequests] /\ granted' \in [Starts -> Nat]
    BY <1>0, <1>1, FixedWindowAssumption, SMT DEF TypeOK
  <2>3. MaxRequests - counter'[Window] \in 0..MaxRequests
    BY <1>0, <1>1, FixedWindowAssumption, SMT
  <2>4. RetryMs(Window, expiry'[Window]) \in Nat
    BY <1>0, <2>1, SMT DEF RetryMs, NoExpiry
  <2>5. now' = now /\ denial' = denial
    BY DEF Admit
  <2>6. reply' = Reply(c, TRUE, MaxRequests - counter'[Window],
                       RetryMs(Window, expiry'[Window]), WindowEnd(Window))
    BY DEF Admit
  <2>7. reply' \in [cost : Nat, allowed : BOOLEAN, remaining : 0..MaxRequests,
                    retry : Nat \cup {-1}, resetAt : Nat]
    BY <1>0, <2>3, <2>4, <2>6 DEF Reply
  <2> QED BY <2>1, <2>2, <2>5, <2>7 DEF TypeOK
<1>4. NoOverAdmission' /\ ChargedInFull'
  BY <1>0, <1>1, SMT DEF NoOverAdmission, ChargedInFull, TypeOK
<1>5. ExpiresWithItsWindow'
  <2> SUFFICES ASSUME NEW w \in Starts, expiry'[w] # NoExpiry
               PROVE  counter'[w] > 0 /\ expiry'[w] = EndMs(w)
    BY DEF ExpiresWithItsWindow, EndMs, WindowEnd
  <2>1. CASE w = Window
    BY <2>1, <1>0, <1>1, <1>2, SMT DEF TypeOK
  <2>2. CASE w # Window
    BY <2>2, <1>0, <1>1, <1>2 DEF TypeOK, ExpiresWithItsWindow
  <2> QED BY <2>1, <2>2
<1>6. FutureUntouched'
  <2> SUFFICES ASSUME NEW w \in Starts, w > Window
               PROVE  counter'[w] = 0 /\ granted'[w] = 0
    BY <1>0 DEF FutureUntouched
  <2>1. w # Window
    BY <1>0, StartsAreNumbers, SMT
  <2> QED BY <2>1, <1>0, <1>1 DEF FutureUntouched, TypeOK
<1>7. DenialHolds'
  <2>1. now' = now /\ denial' = denial
    BY DEF Admit
  <2>2. counter[Window] + denial.cost > MaxRequests => counter'[Window'] + denial.cost > MaxRequests
    BY <1>0, <1>1, FixedWindowAssumption, SMT DEF TypeOK
  <2> QED BY <2>1, <2>2 DEF DenialHolds
<1> QED BY <1>3, <1>4, <1>5, <1>6, <1>7

LEMMA DenyIInv ==
    ASSUME IInv, NEW c \in Costs, Deny(c)
    PROVE  IInv'
<1> USE DEF IInv
<1>0. /\ Window \in Starts /\ Window' = Window /\ now \in Nat /\ EndMs(Window) \in Nat
      /\ now < EndMs(Window) /\ WindowEnd(Window) \in Nat /\ c \in Nat /\ c > 0
  BY CurrentWindow, FixedWindowAssumption, SMT DEF Deny, Window, TypeOK
<1>1. /\ counter[Window] \in 0..MaxRequests
      /\ counter[Window] > 0
      /\ counter[Window] + c > MaxRequests
  BY <1>0, FixedWindowAssumption, SMT DEF Deny, Fits, TypeOK
\* The denied request found a counter, so there was an expiry to answer or to repair.
<1>2. RetryMs(Window, expiry[Window]) = EndMs(Window) - now
  BY <1>0, <1>1, SMT DEF RetryMs, AtLeast0, ExpiresWithItsWindow
<1>3. TypeOK'
  <2>1. expiry' \in [Starts -> Nat \cup {NoExpiry}]
    BY <1>0, RepairFacts DEF Deny, TypeOK
  <2>2. AtLeast0(MaxRequests - counter[Window]) \in 0..MaxRequests
    BY <1>1, FixedWindowAssumption, SMT DEF AtLeast0
  <2>3. RetryMs(Window, expiry[Window]) \in Nat
    BY <1>0, <1>2, SMT
  <2>4. reply' = Reply(c, FALSE, AtLeast0(MaxRequests - counter[Window]),
                       RetryMs(Window, expiry[Window]), WindowEnd(Window))
    BY DEF Deny
  <2>5. reply' \in [cost : Nat, allowed : BOOLEAN, remaining : 0..MaxRequests,
                    retry : Nat \cup {-1}, resetAt : Nat]
    BY <1>0, <2>2, <2>3, <2>4 DEF Reply
  <2>6. denial' = [cost |-> c, at |-> now, until |-> now + (EndMs(Window) - now)]
    BY <2>4, <1>2 DEF Deny, Reply
  <2>7. now + (EndMs(Window) - now) = EndMs(Window)
    BY <1>0, SMT
  <2>8. denial' \in [cost : Nat, at : Nat, until : Nat]
    BY <1>0, <2>6, <2>7
  <2>9. now' = now /\ counter' = counter /\ granted' = granted
    BY DEF Deny
  <2> QED BY <2>1, <2>5, <2>8, <2>9 DEF TypeOK
<1>4. ExpiresWithItsWindow'
  <2> SUFFICES ASSUME NEW w \in Starts, expiry'[w] # NoExpiry
               PROVE  counter'[w] > 0 /\ expiry'[w] = EndMs(w)
    BY DEF ExpiresWithItsWindow, EndMs, WindowEnd
  <2>1. expiry'[w] = IF w = Window THEN Repaired(Window) ELSE expiry[w]
    BY <1>0 DEF Deny, TypeOK
  <2>2. counter' = counter
    BY DEF Deny
  <2> QED BY <1>0, <2>1, <2>2, RepairFacts DEF ExpiresWithItsWindow
<1>5. NoOverAdmission' /\ ChargedInFull' /\ FutureUntouched'
  BY <1>0 DEF Deny, NoOverAdmission, ChargedInFull, FutureUntouched
<1>6. DenialHolds'
  <2>1. denial' = [cost |-> c, at |-> now, until |-> now + (EndMs(Window) - now)]
    BY <1>2 DEF Deny, Reply
  <2>2. denial'.cost = c /\ denial'.at = now /\ denial'.until = EndMs(Window)
    BY <1>0, <2>1, SMT
  <2>3. EndMs(WindowStart(denial'.at)) = EndMs(Window)
    BY <2>2 DEF Window
  <2>4. now' = now /\ counter' = counter
    BY DEF Deny
  <2> QED BY <1>0, <1>1, <2>2, <2>3, <2>4, SMT DEF DenialHolds
<1> QED BY <1>3, <1>4, <1>5, <1>6

LEMMA ResetIInv ==
    ASSUME IInv, NEW r \in Starts, Reset(r)
    PROVE  IInv'
<1> USE DEF IInv
<1>0. Window \in Starts /\ Window' = Window
  BY CurrentWindow DEF Reset, Window, TypeOK
<1>1. TypeOK'
  BY FixedWindowAssumption, SMT DEF Reset, TypeOK, NoReply, Reply, NoDenial, NoExpiry
<1>2. NoOverAdmission' /\ ExpiresWithItsWindow' /\ ChargedInFull' /\ FutureUntouched'
  BY <1>0, FixedWindowAssumption, SMT
  DEF Reset, TypeOK, NoOverAdmission, ExpiresWithItsWindow, ChargedInFull, FutureUntouched,
      EndMs, WindowEnd
<1>3. DenialHolds'
  BY SMT DEF Reset, DenialHolds, NoDenial
<1> QED BY <1>1, <1>2, <1>3

LEMMA PersistIInv ==
    ASSUME IInv, NEW p \in Starts, Persist(p)
    PROVE  IInv'
<1> USE DEF IInv
<1>0. Window \in Starts /\ Window' = Window
  BY CurrentWindow DEF Persist, Window, TypeOK
<1>1. TypeOK'
  BY FixedWindowAssumption, SMT DEF Persist, TypeOK, NoReply, Reply, NoExpiry
<1>2. NoOverAdmission' /\ ExpiresWithItsWindow' /\ ChargedInFull' /\ FutureUntouched'
  BY <1>0, SMT
  DEF Persist, TypeOK, NoOverAdmission, ExpiresWithItsWindow, ChargedInFull, FutureUntouched,
      EndMs, WindowEnd
<1>3. DenialHolds'
  BY <1>0 DEF Persist, DenialHolds
<1> QED BY <1>1, <1>2, <1>3

LEMMA TickIInv ==
    ASSUME IInv, NEW t \in 0..Horizon, Tick(t)
    PROVE  IInv'
<1> USE DEF IInv
<1>0. /\ now \in Nat /\ t \in Nat /\ now' = t /\ now < t /\ Window' = WindowStart(t)
      /\ Window \in Starts /\ Window' \in Starts /\ Window \in Nat /\ Window' \in Nat
  <2>1. now \in Nat /\ t \in Nat /\ now' = t /\ now < t
    BY FixedWindowAssumption, SMT DEF Tick, TypeOK
  <2>2. Window' = WindowStart(t)
    BY <2>1 DEF Window
  <2> QED BY <2>1, <2>2, CurrentWindow, WindowHasCounter, WindowFacts DEF TypeOK
<1>1. TypeOK'
  <2>1. now' \in 0..Horizon
    BY <1>0
  <2>2. counter' \in [Starts -> 0..MaxRequests] /\ expiry' \in [Starts -> Nat \cup {NoExpiry}]
    BY FixedWindowAssumption, SMT DEF Tick, TypeOK
  <2>3. reply' \in [cost : Nat, allowed : BOOLEAN, remaining : 0..MaxRequests,
                    retry : Nat \cup {-1}, resetAt : Nat]
    BY FixedWindowAssumption, SMT DEF Tick, NoReply, Reply
  <2>4. granted' = granted /\ denial' = denial
    BY DEF Tick
  <2> QED BY <2>1, <2>2, <2>3, <2>4 DEF TypeOK
<1>2. NoOverAdmission'
  BY DEF Tick, NoOverAdmission
<1>3. ExpiresWithItsWindow'
  <2> SUFFICES ASSUME NEW w \in Starts, expiry'[w] # NoExpiry
               PROVE  counter'[w] > 0 /\ expiry'[w] = EndMs(w)
    BY DEF ExpiresWithItsWindow, EndMs, WindowEnd
  <2> QED BY DEF Tick, ExpiresWithItsWindow
<1>4. Window' >= Window
  BY <1>0, WindowOrder, FixedWindowAssumption, SMT DEF Window, WindowEnd
\* A counter of a window that is not over is not dropped.
<1>5. ASSUME t < EndMs(Window) PROVE ~Lapsed(Window, t)
  BY <1>0, <1>5, EndMsNat, SMT DEF Lapsed, ExpiresWithItsWindow
<1>6. ChargedInFull'
  <2>1. CASE Window' = Window
    <3>1. t < EndMs(Window)
      BY <2>1, <1>0, WindowOrder DEF Window
    <3>2. counter'[Window] = counter[Window] /\ granted' = granted
      BY <3>1, <1>0, <1>5 DEF Tick
    <3> QED BY <2>1, <3>2 DEF ChargedInFull
  <2>2. CASE Window' # Window
    <3>1. Window' > Window
      BY <2>2, <1>0, <1>4, SMT
    <3>2. counter[Window'] = 0 /\ granted[Window'] = 0
      BY <3>1, <1>0 DEF FutureUntouched
    <3>3. counter'[Window'] = 0 /\ granted'[Window'] = 0
      BY <3>2, <1>0 DEF Tick
    <3> QED BY <3>3 DEF ChargedInFull
  <2> QED BY <2>1, <2>2
<1>7. FutureUntouched'
  <2> SUFFICES ASSUME NEW w \in Starts, w > Window'
               PROVE  counter'[w] = 0 /\ granted'[w] = 0
    BY DEF FutureUntouched
  <2>1. w > Window
    BY <1>0, <1>4, StartsAreNumbers, SMT
  <2> QED BY <2>1 DEF Tick, FutureUntouched
<1>8. DenialHolds'
  <2>0. denial' = denial
    BY DEF Tick
  <2> SUFFICES ASSUME denial.cost > 0
               PROVE  /\ denial.at <= t
                      /\ denial.until = EndMs(WindowStart(denial.at))
                      /\ denial.at < denial.until
                      /\ t < denial.until => counter'[Window'] + denial.cost > MaxRequests
    BY <1>0, <2>0 DEF DenialHolds
  <2>1. /\ denial.at \in Nat /\ denial.at <= now /\ denial.until = EndMs(WindowStart(denial.at))
        /\ denial.at < denial.until /\ denial.until \in Nat
        /\ now < denial.until => counter[Window] + denial.cost > MaxRequests
    BY DEF DenialHolds, TypeOK
  <2>2. denial.at <= t
    BY <1>0, <2>1, SMT
  <2>3. ASSUME t < denial.until PROVE counter'[Window'] + denial.cost > MaxRequests
    <3>1. Window' = WindowStart(denial.at)
      BY <1>0, <2>1, <2>2, <2>3, WindowOrder
    <3>2. now < denial.until
      BY <1>0, <2>1, <2>3, SMT
    <3>3. Window = WindowStart(denial.at)
      BY <1>0, <2>1, <3>2, WindowOrder DEF Window
    <3>4. counter'[Window] = counter[Window]
      BY <1>0, <1>5, <2>1, <2>3, <3>3 DEF Tick
    <3> QED BY <2>1, <3>1, <3>2, <3>3, <3>4
  <2> QED BY <2>1, <2>2, <2>3
<1> QED BY <1>1, <1>2, <1>3, <1>6, <1>7, <1>8

LEMMA NextIInv == IInv /\ [Next]_vars => IInv'
<1> SUFFICES ASSUME IInv, [Next]_vars PROVE IInv'
  OBVIOUS
<1>1. ASSUME NEW c \in Costs, DenyOversized(c) PROVE IInv'
  BY <1>1, DenyOversizedIInv
<1>2. ASSUME NEW c \in Costs, Admit(c) PROVE IInv'
  BY <1>2, AdmitIInv
<1>3. ASSUME NEW c \in Costs, Deny(c) PROVE IInv'
  BY <1>3, DenyIInv
<1>4. ASSUME NEW w \in Starts, Reset(w) PROVE IInv'
  BY <1>4, ResetIInv
<1>5. ASSUME NEW w \in Starts, Persist(w) PROVE IInv'
  BY <1>5, PersistIInv
<1>6. ASSUME NEW t \in 0..Horizon, Tick(t) PROVE IInv'
  BY <1>6, TickIInv
<1>7. CASE UNCHANGED vars
  BY <1>7 DEF vars, IInv, TypeOK, NoOverAdmission, ExpiresWithItsWindow, ChargedInFull,
              FutureUntouched, DenialHolds, Window, EndMs, WindowEnd, WindowStart, Second
<1> QED BY <1>1, <1>2, <1>3, <1>4, <1>5, <1>6, <1>7 DEF Next

LEMMA Inductive == Spec => []IInv
BY InitIInv, NextIInv, PTL DEF Spec

-----------------------------------------------------------------------------
\* Type correctness of every reachable state of the fixed window.
THEOREM TypeCorrect == Spec => []TypeOK
<1>1. IInv => TypeOK
  BY DEF IInv
<1> QED BY <1>1, Inductive, PTL

\* The counters of fixed_window.lua, whenever they are created, repaired,
\* persisted, dropped or deleted, never let a window admit more than its
\* capacity between two resets.
THEOREM QuotaKept == Spec => []NoOverAdmission
<1>1. IInv => NoOverAdmission
  BY DEF IInv
<1> QED BY <1>1, Inductive, PTL

\* Whichever branch of the script wrote an expiry, it is the end of the
\* counter's own window.
THEOREM ExpiryCorrect == Spec => []ExpiresWithItsWindow
<1>1. IInv => ExpiresWithItsWindow
  BY DEF IInv
<1> QED BY <1>1, Inductive, PTL

\* The Retry-After of a denial is exactly the first millisecond of the next
\* window, for every window length and clock resolution.
THEOREM RetryCorrect == Spec => []RetryIsExact
<1>1. IInv => RetryIsExact
  <2> SUFFICES ASSUME IInv, denial.cost > 0, NEW t \in denial.at..denial.until
               PROVE  (WindowStart(t) = WindowStart(denial.at)) <=> t < denial.until
    BY DEF RetryIsExact
  <2>1. denial.at \in Nat /\ denial.until \in Nat /\ denial.until = EndMs(WindowStart(denial.at))
    BY DEF IInv, DenialHolds, TypeOK
  <2>2. t \in Nat /\ denial.at <= t
    BY <2>1, SMT
  <2> QED BY <2>1, <2>2, WindowOrder
<1> QED BY <1>1, Inductive, PTL

\* Nothing as large as a denied request is admitted before the time its denial
\* named, unless the window is reset.
THEOREM NothingEarly == Spec => NoEarlyAdmission
<1> DEFINE Early == denial.cost > 0 /\ reply'.allowed /\ reply'.cost >= denial.cost
                    => now >= denial.until
<1>1. IInv /\ [Next]_vars => [Early]_vars
  <2> SUFFICES ASSUME IInv, Next, denial.cost > 0, reply'.allowed, reply'.cost >= denial.cost
               PROVE  now >= denial.until
    OBVIOUS
  <2>1. ASSUME NEW c \in Costs, Admit(c) PROVE now >= denial.until
    <3>1. now \in Nat /\ c \in Nat /\ denial.cost \in Nat /\ denial.until \in Nat
          /\ counter[Window] \in Nat
      BY CurrentWindow, FixedWindowAssumption, SMT DEF IInv, TypeOK
    <3>2. reply'.cost = c /\ counter[Window] + c <= MaxRequests
      BY <2>1 DEF Admit, Fits, Reply
    <3>3. now < denial.until => counter[Window] + denial.cost > MaxRequests
      BY DEF IInv, DenialHolds
    <3> QED BY <3>1, <3>2, <3>3, FixedWindowAssumption, SMT
  <2>2. ASSUME NEW c \in Costs, DenyOversized(c) \/ Deny(c) PROVE FALSE
    BY <2>2 DEF DenyOversized, Deny, Reply
  <2>3. ASSUME NEW w \in Starts, Reset(w) \/ Persist(w) PROVE FALSE
    BY <2>3 DEF Reset, Persist, NoReply, Reply
  <2>4. ASSUME NEW t \in 0..Horizon, Tick(t) PROVE FALSE
    BY <2>4 DEF Tick, NoReply, Reply
  <2> QED BY <2>1, <2>2, <2>3, <2>4 DEF Next
<1> QED BY <1>1, Inductive, PTL DEF Spec, NoEarlyAdmission

\* No check, not even a refused or an oversized one, leaves the counter it
\* looked at without an expiry.
LEMMA CheckRepairs == IInv /\ [Next]_vars /\ CheckedCounterExpires => CheckedCounterExpires'
<1> SUFFICES ASSUME IInv, [Next]_vars, CheckedCounterExpires,
                    reply'.cost > 0, counter'[Window'] > 0
             PROVE  expiry'[Window'] # NoExpiry
  BY DEF CheckedCounterExpires
<1> USE DEF IInv
<1>0. Window \in Starts /\ EndMs(Window) \in Nat /\ EndMs(Window) # NoExpiry
  BY CurrentWindow, SMT DEF TypeOK, NoExpiry
<1>1. ASSUME NEW c \in Costs, DenyOversized(c) \/ Deny(c) PROVE expiry'[Window'] # NoExpiry
  <2>1. Window' = Window /\ counter' = counter /\ expiry'[Window] = Repaired(Window)
    BY <1>0, <1>1 DEF DenyOversized, Deny, Window, TypeOK
  <2> QED BY <1>0, <2>1, RepairFacts
<1>2. ASSUME NEW c \in Costs, Admit(c) PROVE expiry'[Window'] # NoExpiry
  <2>1. /\ Window' = Window /\ c \in Nat \ {0} /\ counter[Window] \in Nat
        /\ counter'[Window] = counter[Window] + c
        /\ expiry'[Window] = IF counter'[Window] = c THEN EndMs(Window) ELSE Repaired(Window)
    BY <1>0, <1>2, FixedWindowAssumption DEF Admit, Window, TypeOK
  <2>2. counter'[Window] # c => counter[Window] > 0
    BY <2>1, SMT
  <2> QED BY <1>0, <2>1, <2>2, RepairFacts
<1>3. ASSUME NEW w \in Starts, Reset(w) \/ Persist(w) PROVE FALSE
  BY <1>3 DEF Reset, Persist, NoReply, Reply
<1>4. ASSUME NEW t \in 0..Horizon, Tick(t) PROVE FALSE
  BY <1>4 DEF Tick, NoReply, Reply
<1>5. CASE UNCHANGED vars
  BY <1>5 DEF vars, Window, CheckedCounterExpires
<1> QED BY <1>1, <1>2, <1>3, <1>4, <1>5 DEF Next

\* An orphaned counter, one that would never expire, survives no check.
THEOREM NoOrphanSurvives == Spec => []CheckedCounterExpires
<1>1. Init => CheckedCounterExpires
  BY DEF Init, CheckedCounterExpires, NoReply, Reply
<1> QED BY <1>1, CheckRepairs, Inductive, PTL DEF Spec

-----------------------------------------------------------------------------
(* The script implements the abstract quota.                               *)

LEMMA StartOfTime == WindowStart(0) = 0
<1>1. 0 \in Nat
  OBVIOUS
<1>2. WindowStart(0) \in Nat /\ MsPerSecond * Second(0) <= 0 /\ WindowStart(0) <= Second(0)
      /\ Second(0) \in Nat
  BY <1>1, WindowFacts
<1> QED BY <1>2, FixedWindowAssumption, SMT

LEMMA QuotaInit == Init => Quota!Init
<1> SUFFICES ASSUME Init PROVE Quota!Init
  OBVIOUS
<1>1. Window = 0
  BY StartOfTime DEF Init, Window
<1>2. counter[0] = 0
  BY FixedWindowAssumption, CurrentWindow, <1>1, SMT DEF Init
<1> QED BY <1>1, <1>2 DEF Init, Quota!Init, Quota!NoVerdict, NoReply, Reply

\* Every step of the script, of time and of an operator is a step of the
\* abstract quota, or changes nothing that it shows.
LEMMA QuotaStep == IInv /\ [Next]_vars => [Quota!Next]_(Quota!quotaVars)
<1> SUFFICES ASSUME IInv, [Next]_vars PROVE [Quota!Next]_(Quota!quotaVars)
  OBVIOUS
<1> USE DEF IInv
<1>0. /\ now \in Nat /\ Window \in Starts /\ Window \in Nat
      /\ counter \in [Starts -> 0..MaxRequests] /\ counter[Window] \in 0..MaxRequests
      /\ MaxRequests \in Nat
  BY CurrentWindow, FixedWindowAssumption DEF TypeOK
<1>1. ASSUME NEW c \in Costs, DenyOversized(c) PROVE Quota!Refuse(c)
  <2>1. Window' = Window /\ counter' = counter
    BY <1>1 DEF DenyOversized, Window
  <2>2. c \in Nat /\ counter[Window] + c > MaxRequests
    BY <1>0, <1>1, FixedWindowAssumption, SMT DEF DenyOversized
  <2>3. AtLeast0(MaxRequests - counter[Window]) = MaxRequests - counter[Window]
    BY <1>0, SMT DEF AtLeast0
  <2>4. reply'.cost = c /\ reply'.allowed = FALSE
        /\ reply'.remaining = MaxRequests - counter[Window]
    BY <1>1, <2>3 DEF DenyOversized, Reply
  <2> QED BY <2>1, <2>2, <2>4 DEF Quota!Refuse, Quota!Verdict
<1>2. ASSUME NEW c \in Costs, Admit(c) PROVE Quota!Admit(c)
  <2>1. Window' = Window /\ counter'[Window] = counter[Window] + c
    BY <1>0, <1>2 DEF Admit, Window
  <2>2. reply'.cost = c /\ reply'.allowed = TRUE
        /\ reply'.remaining = MaxRequests - counter'[Window]
    BY <1>2 DEF Admit, Reply
  <2> QED BY <1>2, <2>1, <2>2 DEF Admit, Fits, Quota!Admit, Quota!Verdict
<1>3. ASSUME NEW c \in Costs, Deny(c) PROVE Quota!Refuse(c)
  <2>1. Window' = Window /\ counter' = counter
    BY <1>3 DEF Deny, Window
  <2>2. c \in Nat /\ counter[Window] + c > MaxRequests
    BY <1>0, <1>3, FixedWindowAssumption, SMT DEF Deny, Fits
  <2>3. AtLeast0(MaxRequests - counter[Window]) = MaxRequests - counter[Window]
    BY <1>0, SMT DEF AtLeast0
  <2>4. reply'.cost = c /\ reply'.allowed = FALSE
        /\ reply'.remaining = MaxRequests - counter[Window]
    BY <1>3, <2>3 DEF Deny, Reply
  <2> QED BY <2>1, <2>2, <2>4 DEF Quota!Refuse, Quota!Verdict
<1>4. ASSUME NEW w \in Starts, Reset(w) PROVE Quota!Forgive \/ Quota!Idle
  <2>1. Window' = Window
    BY <1>4 DEF Reset, Window
  <2>2. reply' = NoReply
    BY <1>4 DEF Reset
  <2>3. counter'[Window] = 0 \/ counter'[Window] = counter[Window]
    BY <1>0, <1>4 DEF Reset
  <2> QED BY <2>1, <2>2, <2>3 DEF Quota!Forgive, Quota!Idle, Quota!NoVerdict, NoReply, Reply
<1>5. ASSUME NEW w \in Starts, Persist(w) PROVE Quota!Idle
  BY <1>5 DEF Persist, Window, Quota!Idle, Quota!NoVerdict, NoReply, Reply
<1>6. ASSUME NEW t \in 0..Horizon, Tick(t) PROVE Quota!Roll \/ Quota!Idle
  <2>1. /\ now \in Nat /\ t \in Nat /\ now' = t /\ now < t /\ Window' = WindowStart(t)
        /\ Window' \in Starts /\ Window' \in Nat /\ reply' = NoReply
    BY <1>0, <1>6, FixedWindowAssumption, WindowHasCounter, WindowFacts, SMT DEF Tick, Window
  <2>2. IInv'
    BY <1>6, TickIInv
  <2>3. CASE Window' = Window
    <3>1. t < EndMs(Window)
      BY <2>1, <2>3, WindowOrder DEF Window
    <3>2. ~Lapsed(Window, t)
      BY <1>0, <2>1, <3>1, EndMsNat, SMT DEF Lapsed, ExpiresWithItsWindow
    <3>3. counter'[Window] = counter[Window]
      BY <1>0, <1>6, <3>2 DEF Tick
    <3> QED BY <2>1, <2>3, <3>3 DEF Quota!Idle, Quota!NoVerdict, NoReply, Reply
  <2>4. CASE Window' # Window
    <3>1. Window' >= WindowEnd(Window)
      BY <2>1, <2>4, WindowOrder DEF Window
    <3>2. Window' > Window
      BY <1>0, <2>1, <3>1, FixedWindowAssumption, SMT DEF WindowEnd
    <3>3. counter[Window'] = 0
      BY <2>1, <3>2 DEF FutureUntouched
    <3>4. counter'[Window'] = 0
      BY <1>6, <2>1, <3>3 DEF Tick
    <3> QED BY <2>1, <3>2, <3>4 DEF Quota!Roll, Quota!NoVerdict, NoReply, Reply
  <2> QED BY <2>3, <2>4
<1>7. CASE UNCHANGED vars
  BY <1>7 DEF vars, Quota!quotaVars, Window
<1> QED BY <1>1, <1>2, <1>3, <1>4, <1>5, <1>6, <1>7 DEF Next, Quota!Next

\* fixed_window.lua implements the abstract quota: it spends on admission
\* only, answers what is left, never overspends and starts each window whole.
THEOREM ImplementsQuota == Spec => QuotaSpec
BY QuotaInit, QuotaStep, Inductive, PTL DEF Spec, QuotaSpec, Quota!Spec

-----------------------------------------------------------------------------
(* Snapshots of the usage.  While only the time has been read, the counter *)
(* that will be read is one that the window of that time has now, or an    *)
(* empty one of a window that has passed; a newer window began empty too.  *)

ReaderType == [stage : {"idle", "timed", "answered"}, window : Nat, remaining : Int]

Readable ==
    reader.stage = "timed" =>
        /\ reader.window \in Starts /\ reader.window <= Window
        /\ Left(reader.window) \in seen
        /\ reader.window # Window => MaxRequests \in seen

UsageInv ==
    /\ reader \in ReaderType
    /\ Readable
    /\ SnapshotIsTrue

\* What becomes of a counter and of the window in one step.
LEMMA CounterStep ==
    ASSUME IInv, [Next]_vars
    PROVE  /\ Window' \in Starts /\ Window' >= Window
           /\ Window' # Window => counter'[Window'] = 0
           /\ \A w \in Starts : w # Window' => counter'[w] = counter[w] \/ counter'[w] = 0
<1> USE DEF IInv
<1>0. /\ now \in Nat /\ Window \in Starts /\ Window \in Nat
      /\ counter \in [Starts -> 0..MaxRequests]
  BY CurrentWindow DEF TypeOK
<1>1. ASSUME NEW c \in Costs, DenyOversized(c) \/ Deny(c)
      PROVE  Window' = Window /\ counter' = counter
  BY <1>1 DEF DenyOversized, Deny, Window
<1>2. ASSUME NEW c \in Costs, Admit(c)
      PROVE  Window' = Window /\ \A w \in Starts : w # Window => counter'[w] = counter[w]
  BY <1>0, <1>2 DEF Admit, Window
<1>3. ASSUME NEW w \in Starts, Reset(w) \/ Persist(w)
      PROVE  Window' = Window /\ \A v \in Starts : counter'[v] = counter[v] \/ counter'[v] = 0
  BY <1>0, <1>3 DEF Reset, Persist, Window
<1>4. ASSUME NEW t \in 0..Horizon, Tick(t)
      PROVE  /\ Window' \in Starts /\ Window' >= Window
             /\ Window' # Window => counter'[Window'] = 0
             /\ \A w \in Starts : counter'[w] = counter[w] \/ counter'[w] = 0
  <2>1. t \in Nat /\ now < t /\ Window' = WindowStart(t) /\ Window' \in Starts /\ Window' \in Nat
    BY <1>0, <1>4, FixedWindowAssumption, WindowHasCounter, WindowFacts, SMT DEF Tick, Window
  <2>2. Window' # Window => Window' > Window
    <3>1. Window' # Window => Window' >= WindowEnd(Window)
      BY <1>0, <2>1, WindowOrder DEF Window
    <3> QED BY <1>0, <2>1, <3>1, FixedWindowAssumption, SMT DEF WindowEnd
  <2>3. Window' # Window => counter[Window'] = 0
    BY <2>1, <2>2 DEF FutureUntouched
  <2>4. \A w \in Starts : counter'[w] = counter[w] \/ counter'[w] = 0
    BY <1>4 DEF Tick
  <2> QED BY <1>0, <2>1, <2>2, <2>3, <2>4, SMT
<1>5. CASE UNCHANGED vars
  BY <1>0, <1>5 DEF vars, Window
<1>6. Window >= Window
  BY <1>0, SMT
<1> QED BY <1>0, <1>1, <1>2, <1>3, <1>4, <1>5, <1>6 DEF Next

LEMMA LeftFacts ==
    ASSUME counter \in [Starts -> 0..MaxRequests], NEW w \in Starts
    PROVE  Left(w) \in Nat
BY FixedWindowAssumption, SMT DEF Left, AtLeast0

LEMMA UsageStep == IInv /\ UsageInv /\ [UsageNext]_usageVars => UsageInv'
<1> SUFFICES ASSUME IInv, UsageInv, [UsageNext]_usageVars PROVE UsageInv'
  OBVIOUS
<1>0. /\ Window \in Starts /\ Window \in Nat /\ counter \in [Starts -> 0..MaxRequests]
      /\ reader \in ReaderType
  BY CurrentWindow DEF IInv, TypeOK, UsageInv
<1>1. CASE ReadTime
  <2>1. /\ reader' = [stage |-> "timed", window |-> Window, remaining |-> 0]
        /\ seen' = {Left(Window)} /\ Window' = Window /\ counter' = counter
    BY <1>1 DEF ReadTime, vars, Window
  <2>2. reader' \in ReaderType
    BY <1>0, <2>1 DEF ReaderType
  <2>3. Left(Window)' = Left(Window)
    BY <2>1 DEF Left
  <2>4. Readable'
    BY <1>0, <2>1, <2>3 DEF Readable, Left
  <2> QED BY <2>1, <2>2, <2>4 DEF UsageInv, SnapshotIsTrue
<1>2. CASE ReadCounter
  <2>1. /\ reader.stage = "timed" /\ reader.window \in Starts /\ Left(reader.window) \in seen
        /\ seen' = seen
        /\ reader' = [reader EXCEPT !.stage = "answered", !.remaining = Left(reader.window)]
    BY <1>2 DEF ReadCounter, UsageInv, Readable
  <2>2. reader' \in ReaderType /\ reader'.stage = "answered" /\ reader'.remaining = Left(reader.window)
    <3>1. Left(reader.window) \in Nat
      BY <1>0, <2>1, LeftFacts
    <3> DEFINE left == Left(reader.window)
    <3>2. left \in Int
      BY <3>1
    <3>3. reader' = [stage |-> "answered", window |-> reader.window, remaining |-> left]
      BY <1>0, <2>1 DEF ReaderType
    <3>4. reader.window \in Nat
      BY <1>0 DEF ReaderType
    <3> QED BY <3>2, <3>3, <3>4 DEF ReaderType
  <2> QED BY <2>1, <2>2 DEF UsageInv, Readable, SnapshotIsTrue
<1>3. CASE ReadFails
  BY <1>3 DEF ReadFails, Idle, UsageInv, Readable, SnapshotIsTrue, ReaderType
<1>4. CASE Meanwhile /\ reader.stage = "timed"
  <2>1. reader' = reader /\ seen' = seen \cup {Left(Window)'}
    BY <1>4 DEF Meanwhile
  <2>2. /\ Window' \in Starts /\ Window' >= Window
        /\ Window' # Window => counter'[Window'] = 0
        /\ \A w \in Starts : w # Window' => counter'[w] = counter[w] \/ counter'[w] = 0
    BY <1>4, CounterStep DEF Meanwhile
  <2>3. /\ reader.window \in Starts /\ reader.window <= Window
        /\ Left(reader.window) \in seen
        /\ reader.window # Window => MaxRequests \in seen
    BY <1>4 DEF UsageInv, Readable
  <2>4. \A w \in Starts : /\ counter'[w] = 0 => Left(w)' = MaxRequests
                          /\ counter'[w] = counter[w] => Left(w)' = Left(w)
    BY FixedWindowAssumption, SMT DEF Left, AtLeast0
  <2>5. reader.window <= Window'
    <3>1. reader.window \in Nat /\ Window' \in Nat
      BY <2>2, <2>3, StartsAreNumbers
    <3> QED BY <1>0, <2>2, <2>3, <3>1
  <2>6. reader.window # Window' => MaxRequests \in seen'
    <3>1. CASE Window' = Window
      BY <2>1, <2>3, <3>1
    <3>2. CASE Window' # Window
      BY <2>1, <2>2, <2>4, <3>2 DEF Left
    <3> QED BY <3>1, <3>2
  <2>7. Left(reader.window)' \in seen'
    <3>1. CASE reader.window = Window'
      BY <2>1, <3>1 DEF Left
    <3>2. CASE reader.window # Window'
      <4>1. counter'[reader.window] = counter[reader.window] \/ counter'[reader.window] = 0
        BY <2>2, <2>3, <3>2
      <4>2. (counter'[reader.window] = 0 => Left(reader.window)' = MaxRequests)
            /\ (counter'[reader.window] = counter[reader.window]
                  => Left(reader.window)' = Left(reader.window))
        BY <2>1, <2>3, <2>4 DEF Left
      <4> QED BY <2>1, <2>3, <2>6, <3>2, <4>1, <4>2
    <3> QED BY <3>1, <3>2
  <2> QED BY <1>0, <1>4, <2>1, <2>3, <2>5, <2>6, <2>7 DEF UsageInv, Readable, SnapshotIsTrue
<1>5. CASE Meanwhile /\ reader.stage # "timed"
  BY <1>5 DEF Meanwhile, Idle, UsageInv, Readable, SnapshotIsTrue, ReaderType
<1>6. CASE UNCHANGED usageVars
  BY <1>6 DEF usageVars, vars, UsageInv, Readable, SnapshotIsTrue, Left, Window
<1> QED BY <1>1, <1>2, <1>3, <1>4, <1>5, <1>6 DEF UsageNext

\* The reader only looks on: what is proved of Spec holds under it.
LEMMA ReadersLookOn == UsageSpec => Spec
<1>1. UsageInit => Init
  BY DEF UsageInit
<1>2. [UsageNext]_usageVars => [Next]_vars
  BY DEF UsageNext, usageVars, ReadTime, ReadCounter, ReadFails, Meanwhile
<1> QED BY <1>1, <1>2, PTL DEF UsageSpec, Spec

\* get_usage, whose time and counter are of two moments, answers what was left
\* at one moment of the call.
THEOREM SnapshotsAreTrue == UsageSpec => []SnapshotIsTrue
<1>1. UsageInit => UsageInv
  BY DEF UsageInit, Idle, UsageInv, Readable, SnapshotIsTrue, ReaderType
<1>2. UsageInv => SnapshotIsTrue
  BY DEF UsageInv
<1> QED BY <1>1, <1>2, UsageStep, ReadersLookOn, Inductive, PTL DEF UsageSpec
=============================================================================
