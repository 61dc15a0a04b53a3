------------------------ MODULE SlidingWindowProofs ------------------------
(***************************************************************************)
(* Proofs about the sliding-window algorithm and the estimates its usage   *)
(* is read from, for every capacity, window length, weight scale, cost set *)
(* and horizon.                                                            *)
(***************************************************************************)
EXTENDS SlidingWindowUsage, ArithmeticProofs

-----------------------------------------------------------------------------
(* Arithmetic of windows.                                                  *)

LEMMA Constants ==
    /\ MaxRequests \in Nat \ {0} /\ WindowSeconds \in Nat \ {0} /\ MsPerSecond \in Nat \ {0}
    /\ Permille \in Nat \ {0} /\ Horizon \in Nat /\ Costs \subseteq Nat \ {0}
BY SlidingWindowAssumption

LEMMA SecondFacts ==
    ASSUME NEW t \in Nat
    PROVE  /\ Second(t) \in Nat
           /\ Second(t) * MsPerSecond \in Nat
           /\ Second(t) * MsPerSecond <= t /\ t < Second(t) * MsPerSecond + MsPerSecond
           /\ WindowStart(t) \in Nat
           /\ WindowStart(t) = WindowSeconds * (Second(t) \div WindowSeconds)
           /\ WindowStart(t) <= Second(t) /\ Second(t) < WindowStart(t) + WindowSeconds
<1>1. /\ Second(t) \in Nat /\ MsPerSecond * Second(t) <= t
      /\ t < MsPerSecond * Second(t) + MsPerSecond
  BY Constants, DivisionFacts, SMT DEF Second
<1>2. Second(t) * MsPerSecond = MsPerSecond * Second(t) /\ Second(t) * MsPerSecond \in Nat
  BY <1>1, Constants, SMT
<1> DEFINE r == Second(t) % WindowSeconds
           q == Second(t) \div WindowSeconds
           p == WindowSeconds * q
<1>3. r \in 0..(WindowSeconds - 1) /\ Second(t) = p + r /\ q \in Nat
  BY <1>1, Constants, DivisionFacts
<1>4. p \in Nat
  BY <1>3, Constants, SMT
<1>5. WindowStart(t) = Second(t) - r
  BY DEF WindowStart
<1> HIDE DEF r, p
<1>6. WindowStart(t) = p
  BY <1>1, <1>3, <1>4, <1>5, Constants
<1>7. p <= Second(t) /\ Second(t) < p + WindowSeconds
  BY <1>1, <1>3, <1>4, Constants
<1> QED BY <1>1, <1>2, <1>4, <1>6, <1>7 DEF p

LEMMA SecondsPass ==
    ASSUME NEW n \in Nat, NEW t \in Nat, n <= t
    PROVE  Second(n) <= Second(t)
BY Constants, DivisionMonotone DEF Second

\* A later instant is in the same window, in the next, or further on.
LEMMA LaterWindow ==
    ASSUME NEW n \in Nat, NEW t \in Nat, n <= t
    PROVE  LET w == WindowStart(n)
               len == WindowSeconds
           IN  /\ Second(t) < w + len => WindowStart(t) = w
               /\ Second(t) >= w + len /\ Second(t) < w + 2 * len => WindowStart(t) = w + len
               /\ Second(t) >= w + 2 * len => WindowStart(t) >= w + 2 * len
<1> DEFINE W == WindowSeconds
           w == WindowStart(n)
           q == Second(n) \div W
           s == Second(t)
<1>1. /\ W \in Nat \ {0} /\ w \in Nat /\ w = W * q /\ s \in Nat
      /\ w <= Second(n) /\ Second(n) <= s /\ Second(n) \in Nat
      /\ WindowStart(t) = W * (s \div W)
  BY Constants, SecondFacts, SecondsPass
<1>2. q \in Nat
  BY <1>1, DivisionFacts
<1> HIDE DEF W, w, q, s
<1>3. W * (q + 1) = w + W /\ W * (q + 2) = w + 2 * W
  BY <1>1, <1>2, SMT
<1>4. ASSUME s < w + W PROVE WindowStart(t) = w
  <2>1. W * q <= s /\ s < W * q + W /\ q \in Int /\ s \in Int
    BY <1>1, <1>2, <1>4
  <2>2. s \div W = q
    BY <1>1, <1>2, <2>1, FloorIsUnique
  <2> QED BY <1>1, <2>2
<1>5. ASSUME s >= w + W, s < w + 2 * W PROVE WindowStart(t) = w + W
  <2>1. W * (q + 1) <= s /\ s < W * (q + 1) + W /\ q + 1 \in Int
    BY <1>1, <1>2, <1>3, <1>5
  <2>2. s \div W = q + 1
    BY <1>1, <2>1, FloorIsUnique
  <2> QED BY <1>1, <1>3, <2>2
<1>6. ASSUME s >= w + 2 * W PROVE WindowStart(t) >= w + 2 * W
  <2>1. q + 2 <= s \div W
    <3>1. W * (q + 2) <= s /\ q + 2 \in Int
      BY <1>1, <1>2, <1>3, <1>6
    <3> QED BY <1>1, <3>1, FloorAtLeast
  <2>2. s \div W \in Nat
    BY <1>1, DivisionFacts
  <2>3. W * (q + 2) <= W * (s \div W)
    BY <1>1, <1>2, <2>1, <2>2, ProductMonotone
  <2> QED BY <1>1, <1>3, <2>3
<1> QED BY <1>4, <1>5, <1>6 DEF w, s, W

-----------------------------------------------------------------------------
(* The weight.                                                             *)

LEMMA WeightFacts ==
    ASSUME NEW left \in Nat
    PROVE  /\ Weight(left) \in Nat
           /\ left <= WindowSeconds => Weight(left) <= Permille
           /\ left = 0 => Weight(left) = 0
           /\ \A more \in Nat : left <= more => Weight(left) <= Weight(more)
<1> DEFINE W == WindowSeconds
           P == Permille
<1>1. W \in Nat \ {0} /\ P \in Nat \ {0} /\ left * P \in Nat
  BY Constants, SMT
<1>2. Weight(left) = (left * P) \div W /\ Weight(left) \in Nat
  BY <1>1, DivisionFacts DEF Weight
<1>3. ASSUME left <= W PROVE Weight(left) <= P
  <2>1. P * left <= P * W /\ P * left = left * P /\ P * W = W * P
    BY <1>1, <1>3, ProductMonotone
  <2>2. W * ((left * P) \div W) <= left * P
    BY <1>1, FloorFacts
  <2>3. W * Weight(left) < W * P + W
    <3>1. W * P \in Int /\ W * Weight(left) \in Int
      BY <1>1, <1>2, SMT
    <3> QED BY <1>1, <1>2, <2>1, <2>2, <3>1
  <2> QED BY <1>1, <1>2, <2>3, ProductOrder
<1>4. ASSUME left = 0 PROVE Weight(left) = 0
  <2>1. left * P = 0
    BY <1>1, <1>4, SMT
  <2>2. W * 0 <= 0 /\ 0 < W * 0 + W
    BY <1>1, SMT
  <2> QED BY <1>1, <1>2, <2>1, <2>2, FloorIsUnique
<1>5. ASSUME NEW more \in Nat, left <= more PROVE Weight(left) <= Weight(more)
  <2>1. P * left <= P * more /\ P * left = left * P /\ P * more = more * P /\ more * P \in Nat
    BY <1>1, <1>5, ProductMonotone, SMT
  <2> QED BY <1>1, <2>1, DivisionMonotone DEF Weight
<1> QED BY <1>2, <1>3, <1>4, <1>5

\* A weighted count is at most the count, and falls with it and with the weight.
LEMMA WeightedFacts ==
    ASSUME NEW count \in Nat, NEW left \in Nat
    PROVE  /\ Weighted(count, left) \in Nat
           /\ left <= WindowSeconds => Weighted(count, left) <= count
           /\ count = 0 \/ left = 0 => Weighted(count, left) = 0
           /\ \A most, more \in Nat :
                  count <= most /\ left <= more => Weighted(count, left) <= Weighted(most, more)
<1> DEFINE P == Permille
           x == Weight(left)
<1>1. P \in Nat \ {0} /\ x \in Nat /\ count * x \in Nat
  <2>1. x \in Nat
    BY WeightFacts
  <2> QED BY <2>1, Constants, SMT
<1>2. Weighted(count, left) = (count * x) \div P /\ Weighted(count, left) \in Nat
  BY <1>1, DivisionFacts DEF Weighted
<1>3. left <= WindowSeconds => x <= P
  BY WeightFacts
<1>4. left = 0 => x = 0
  BY WeightFacts
<1>5. ASSUME NEW more \in Nat, left <= more PROVE x <= Weight(more) /\ Weight(more) \in Nat
  BY <1>5, WeightFacts
<1> HIDE DEF x
<1>6. ASSUME x <= P PROVE Weighted(count, left) <= count
  <2>1. count * x <= count * P /\ count * P = P * count /\ P * count \in Int
    BY <1>1, <1>6, ProductMonotone
  <2>2. P * ((count * x) \div P) <= count * x
    BY <1>1, FloorFacts
  <2>3. P * Weighted(count, left) < P * count + P
    <3>1. P * Weighted(count, left) \in Int
      BY <1>1, <1>2, SMT
    <3> QED BY <1>1, <1>2, <2>1, <2>2, <3>1
  <2> QED BY <1>1, <1>2, <2>3, ProductOrder
<1>7. ASSUME count = 0 \/ x = 0 PROVE Weighted(count, left) = 0
  <2>1. count * x = 0
    BY <1>1, <1>7, SMT
  <2>2. P * 0 <= 0 /\ 0 < P * 0 + P
    BY <1>1, SMT
  <2> QED BY <1>1, <1>2, <2>1, <2>2, FloorIsUnique
<1>8. ASSUME NEW most \in Nat, NEW more \in Nat, count <= most, left <= more
      PROVE  Weighted(count, left) <= Weighted(most, more)
  <2> DEFINE y == Weight(more)
  <2>1. x <= y /\ y \in Nat
    BY <1>5, <1>8
  <2>2. Weighted(most, more) = (most * y) \div P
    BY DEF Weighted
  <2> HIDE DEF y
  <2>3. count * x <= count * y /\ y * count <= y * most /\ y * count = count * y /\ y * most = most * y
    BY <1>1, <1>8, <2>1, ProductMonotone
  <2>4. most * y \in Nat /\ count * y \in Nat
    BY <2>1, SMT
  <2>5. count * x <= most * y
    BY <1>1, <2>3, <2>4
  <2> QED BY <1>1, <1>2, <2>2, <2>4, <2>5, DivisionMonotone
<1> QED BY <1>2, <1>3, <1>4, <1>6, <1>7, <1>8

\* Rounding down twice loses less than a thousandth of the count and one unit.
LEMMA RoundingLosesLittle ==
    ASSUME NEW count \in Nat, NEW left \in Nat
    PROVE  LET share == count * left
               counted == WindowSeconds * Weighted(count, left)
           IN  /\ counted <= share
               /\ Permille * (share - counted) < WindowSeconds * (count + Permille)
<1> DEFINE W == WindowSeconds
           P == Permille
           x == Weight(left)
           y == Weighted(count, left)
           a == count * left
           b == count * x
           k == W * y
<1>1. W \in Nat \ {0} /\ P \in Nat \ {0} /\ left * P \in Nat /\ x \in Nat /\ y \in Nat
  BY Constants, WeightFacts, WeightedFacts, SMT
<1>2. W * x <= left * P /\ left * P < W * x + W
  BY <1>1, FloorFacts DEF Weight
<1>3. b \in Nat /\ P * y <= b /\ b < P * y + P
  <2>1. b \in Nat
    BY <1>1, SMT
  <2>2. b \in Int /\ y = b \div P
    BY <2>1 DEF Weighted
  <2> HIDE DEF b, y
  <2> QED BY <1>1, <2>1, <2>2, FloorFacts
<1> HIDE DEF W, P, x, y
<1>4. /\ a \in Nat /\ k \in Nat /\ P * a \in Nat /\ P * k \in Nat /\ W * b \in Nat /\ W * count \in Nat
      /\ W * P \in Nat /\ W * (P * y) \in Nat /\ P * y \in Nat /\ W * x \in Nat
  BY <1>1, <1>3, SMT
<1>5. P * k = W * (P * y)
  BY <1>1, SMT
<1>6. count * (W * x) <= count * (left * P) /\ count * (left * P) <= count * (W * x + W)
  BY <1>1, <1>2, <1>4, ProductMonotone
<1>7. /\ count * (W * x) = W * b /\ count * (left * P) = P * a
      /\ count * (W * x + W) = W * b + W * count
  BY <1>1, <1>4, SMT
<1>8. W * (P * y) <= W * b
  BY <1>1, <1>3, <1>4, ProductMonotone
<1>9. W * b + W <= W * (P * y) + W * P
  <2>1. b + 1 <= P * y + P
    BY <1>1, <1>3, <1>4
  <2>2. W * (b + 1) <= W * (P * y + P)
    BY <1>1, <1>3, <1>4, <2>1, ProductMonotone
  <2>3. W * (b + 1) = W * b + W /\ W * (P * y + P) = W * (P * y) + W * P
    BY <1>1, <1>3, <1>4, SMT
  <2> QED BY <2>2, <2>3
<1> HIDE DEF a, b, k
<1>10. P * k <= P * a
  BY <1>4, <1>5, <1>6, <1>7, <1>8
<1>11. k <= a
  BY <1>1, <1>4, <1>10, ProductOrder
<1>12. P * (a - k) = P * a - P * k /\ W * (count + P) = W * count + W * P
  BY <1>1, <1>4, SMT
<1>13. P * (a - k) < W * (count + P)
  BY <1>1, <1>4, <1>5, <1>6, <1>7, <1>9, <1>12
<1> QED BY <1>11, <1>13 DEF a, k, W, P, y

-----------------------------------------------------------------------------
(* The inductive invariant.  EstimateWithinCapacity alone is not inductive: *)
(* it needs that a counter of a later window is fresh at the rollover and   *)
(* that no key expires while it still has a weight.                         *)

\* The seconds of the current window that are still to come.
ToCome == WindowEnd(Window) - Second(now)

PreviousExists == WindowSeconds <= Window

FutureUntouched ==
    \A w \in Starts : w > Window => counter[w] = 0 /\ granted[w] = 0

ExpiresLate ==
    \A w \in Starts : expiry[w] # NoExpiry => (w + 2 * WindowSeconds) * MsPerSecond <= expiry[w]

IInv ==
    /\ TypeOK
    /\ PreviousExists
    /\ WeightedCountsRetained
    /\ EstimateWithinCapacity
    /\ FutureUntouched
    /\ ExpiresLate

\* What the counters of the two windows are worth now.
LEMMA CountsFacts ==
    ASSUME TypeOK, PreviousExists
    PROVE  /\ now \in Nat /\ Second(now) \in Nat
           /\ Window \in Starts /\ Previous \in Starts /\ Window \in Nat /\ Previous \in Nat
           /\ Window <= Second(now) /\ Second(now) < Window + WindowSeconds
           /\ WindowEnd(Window) = Window + WindowSeconds
           /\ ToCome \in 1..WindowSeconds /\ ToCome \in Nat /\ ToCome <= WindowSeconds
           /\ counter[Window] \in Nat /\ counter[Previous] \in Nat
           /\ counter[Window] <= MaxRequests /\ counter[Previous] <= MaxRequests
           /\ Estimate = counter[Window] + Weighted(counter[Previous], ToCome)
           /\ Weighted(counter[Previous], ToCome) \in Nat
           /\ Estimate \in Nat /\ counter[Window] <= Estimate
<1>1. now \in Nat /\ now \in 0..Horizon /\ now <= Horizon
  BY Constants DEF TypeOK
<1>2. /\ Second(now) \in Nat /\ Window \in Nat /\ Window <= Second(now)
      /\ Second(now) < Window + WindowSeconds
  BY <1>1, SecondFacts DEF Window
<1>3. Second(now) <= Second(Horizon) /\ Second(Horizon) \in Nat
  BY <1>1, Constants, SecondsPass, SecondFacts
<1>4. Window \in Starts /\ Previous \in Starts /\ Previous \in Nat
  BY <1>2, <1>3, Constants DEF Starts, Previous, PreviousExists
<1>5. /\ counter[Window] \in Nat /\ counter[Previous] \in Nat
      /\ counter[Window] <= MaxRequests /\ counter[Previous] <= MaxRequests
  <2>1. counter[Window] \in 0..MaxRequests /\ counter[Previous] \in 0..MaxRequests
    BY <1>4 DEF TypeOK
  <2> QED BY <2>1, Constants
<1>6. /\ WindowEnd(Window) = Window + WindowSeconds
      /\ ToCome \in 1..WindowSeconds /\ ToCome \in Nat /\ ToCome <= WindowSeconds
  BY <1>2, Constants DEF ToCome, WindowEnd
<1>7. Weighted(counter[Previous], ToCome) \in Nat
  BY <1>5, <1>6, WeightedFacts
<1>8. Estimate = counter[Window] + Weighted(counter[Previous], ToCome)
  BY DEF Estimate, ToCome
<1> QED BY <1>1, <1>2, <1>4, <1>5, <1>6, <1>7, <1>8

\* No key expires before the window after its own is over.
LEMMA KeyStillThere ==
    ASSUME TypeOK, ExpiresLate, NEW w \in Starts, NEW t \in Nat,
           Second(t) < w + 2 * WindowSeconds
    PROVE  ~Lapsed(w, t)
<1> DEFINE e == w + 2 * WindowSeconds
           M == MsPerSecond
<1>1. w \in Nat /\ e \in Nat /\ Second(t) \in Nat /\ M \in Nat \ {0} /\ Second(Horizon) \in Nat
  BY Constants, SecondFacts DEF Starts
<1>2. Second(t) + 1 <= e
  BY <1>1
<1>3. M * (Second(t) + 1) <= M * e
  BY <1>1, <1>2, ProductMonotone
<1>4. M * (Second(t) + 1) = Second(t) * M + M /\ M * e = e * M /\ e * M \in Nat
  BY <1>1, SMT
<1>5. t < e * M
  BY <1>1, <1>3, <1>4, SecondFacts
<1>6. expiry[w] # NoExpiry => e * M <= expiry[w]
  BY DEF ExpiresLate
<1>7. expiry[w] \in Nat \cup {NoExpiry}
  BY DEF TypeOK
<1> QED BY <1>1, <1>4, <1>5, <1>6, <1>7 DEF Lapsed

LEMMA InitHolds == Init => IInv
<1> SUFFICES ASSUME Init PROVE IInv
  OBVIOUS
<1> DEFINE t == WindowSeconds * MsPerSecond
<1>1. t \in Nat /\ now = t /\ t <= Horizon
  BY Constants, SlidingWindowAssumption, SMT DEF Init
<1>2. Starts \subseteq Nat
  BY Constants, SecondFacts DEF Starts
<1>3. TypeOK
  BY <1>1, Constants DEF Init, TypeOK, NoReply, Reply
<1>4. PreviousExists
  <2>1. Second(t) = WindowSeconds
    <3>1. MsPerSecond * WindowSeconds = t
      BY Constants, SMT
    <3>2. t \div MsPerSecond = WindowSeconds
      BY <1>1, <3>1, Constants, FloorIsUnique
    <3> QED BY <3>2 DEF Second
  <2>2. WindowSeconds \div WindowSeconds = 1
    <3>1. WindowSeconds * 1 <= WindowSeconds /\ WindowSeconds < WindowSeconds * 1 + WindowSeconds
      BY Constants
    <3> QED BY <3>1, Constants, FloorIsUnique
  <2>3. WindowStart(t) = WindowSeconds * 1
    BY <1>1, <2>1, <2>2, SecondFacts
  <2> QED BY <1>1, <2>3, Constants DEF PreviousExists, Window
<1>5. counter[Window] = 0 /\ counter[Previous] = 0 /\ granted[Window] = 0 /\ granted[Previous] = 0
  BY <1>3, <1>4, CountsFacts DEF Init
<1>6. Estimate = 0
  <2>1. Weighted(counter[Previous], ToCome) = 0
    BY <1>3, <1>4, <1>5, CountsFacts, WeightedFacts
  <2> QED BY <1>3, <1>4, <1>5, <2>1, CountsFacts
<1>7. EstimateWithinCapacity
  BY <1>6, Constants DEF EstimateWithinCapacity
<1>8. FutureUntouched /\ ExpiresLate
  BY DEF Init, FutureUntouched, ExpiresLate
<1> QED BY <1>3, <1>4, <1>5, <1>7, <1>8 DEF IInv, WeightedCountsRetained

\* A smaller counter or less of the window to come lowers the estimate.
LEMMA EstimateFalls ==
    ASSUME TypeOK, PreviousExists, TypeOK', PreviousExists', Window' = Window,
           now <= now',
           counter'[Window] <= counter[Window], counter'[Previous] <= counter[Previous]
    PROVE  Estimate' <= Estimate
<1> DEFINE a == counter'[Window]
           b == counter'[Previous]
           left == ToCome'
<1>1. /\ (ToCome \in Nat /\ counter[Window] \in Nat /\ counter[Previous] \in Nat
          /\ WindowEnd(Window) = Window + WindowSeconds
          /\ Estimate = counter[Window] + Weighted(counter[Previous], ToCome) /\ now \in Nat)'
  BY CountsFacts, PTL
<1>2. Previous' = Previous
  BY DEF Previous
<1>3. /\ left \in Nat /\ a \in Nat /\ b \in Nat /\ now' \in Nat
      /\ Estimate' = a + Weighted(b, left)
  <2>1. Estimate' = a + Weighted(b, left)
    BY <1>1, <1>2 DEF Weighted, Weight
  <2> QED BY <1>1, <1>2, <2>1
<1>4. left <= ToCome
  <2>1. PICK n \in Nat, m \in Nat : n = now /\ m = now'
    BY <1>3, CountsFacts
  <2>2. Second(n) <= Second(m) /\ Second(m) \in Nat /\ Second(n) \in Nat
    BY <2>1, SecondsPass, SecondFacts
  <2>3. ToCome = WindowEnd(Window) - Second(n)
    BY <2>1 DEF ToCome
  <2>4. ToCome' = WindowEnd(Window)' - Second(m)
    BY <2>1 DEF ToCome, Second
  <2>5. WindowEnd(Window)' = Window + WindowSeconds /\ WindowEnd(Window) = Window + WindowSeconds
    BY <1>1, CountsFacts
  <2> QED BY <2>2, <2>3, <2>4, <2>5, CountsFacts, Constants
<1> HIDE DEF a, b, left
<1>5. Weighted(b, left) <= Weighted(counter[Previous], ToCome)
  <2>1. PICK c \in Nat, l \in Nat, m \in Nat, k \in Nat :
            c = b /\ l = left /\ m = counter[Previous] /\ k = ToCome
    BY <1>3, CountsFacts
  <2>2. Weighted(c, l) <= Weighted(m, k)
    BY <1>4, <2>1, WeightedFacts DEF b
  <2> QED BY <2>1, <2>2
<1>6. Weighted(b, left) \in Nat
  BY <1>3, WeightedFacts
<1> QED BY <1>3, <1>5, <1>6, CountsFacts DEF a

-----------------------------------------------------------------------------
(* The steps.                                                              *)

ReplyType == [cost : Nat, allowed : BOOLEAN, remaining : 0..MaxRequests,
              retry : Nat \cup {-1}, resetAt : Nat]

LEMMA NoReplyType == NoReply \in ReplyType
BY Constants DEF NoReply, Reply, ReplyType

LEMMA LeftType ==
    ASSUME NEW used \in Nat
    PROVE  AtLeast0(MaxRequests - used) \in 0..MaxRequests
BY Constants DEF AtLeast0

\* An answer that changes nothing but the reply.
LEMMA OnlyReplyChanges ==
    ASSUME IInv, reply' \in ReplyType, UNCHANGED <<now, counter, expiry, granted>>
    PROVE  IInv' /\ Estimate' = Estimate
<1>1. UNCHANGED <<Window, Previous, Estimate>>
  BY DEF Window, WindowStart, Second, Previous, Estimate, Weighted, Weight, WindowEnd
<1> QED BY <1>1 DEF IInv, TypeOK, ReplyType, PreviousExists, WeightedCountsRetained,
           EstimateWithinCapacity, FutureUntouched, ExpiresLate

LEMMA DenyOversizedStep ==
    ASSUME IInv, NEW c \in Costs, DenyOversized(c)
    PROVE  IInv' /\ Estimate' = Estimate
<1>1. Estimate \in Nat /\ c \in Nat
  BY CountsFacts, Constants DEF IInv
<1>2. reply' \in ReplyType
  BY <1>1, LeftType DEF DenyOversized, Reply, ReplyType
<1> QED BY <1>2, OnlyReplyChanges DEF DenyOversized

LEMMA AdmitStep ==
    ASSUME IInv, NEW c \in Costs, Admit(c)
    PROVE  IInv'
<1> DEFINE W == WindowSeconds
           w == Window
<1>1. /\ now \in Nat /\ w \in Starts /\ Previous \in Starts /\ w \in Nat /\ Previous \in Nat
      /\ w <= Second(now) /\ WindowEnd(w) = w + W /\ W \in Nat \ {0}
      /\ counter[w] \in Nat /\ counter[w] <= Estimate /\ Estimate \in Nat
      /\ Estimate = counter[w] + Weighted(counter[Previous], ToCome)
      /\ Weighted(counter[Previous], ToCome) \in Nat
      /\ Second(now) \in Nat
  BY CountsFacts, Constants DEF IInv
<1>2. /\ c \in Nat \ {0} /\ Estimate + c <= MaxRequests /\ MaxRequests \in Nat
      /\ counter[w] + c \in 0..MaxRequests
  BY <1>1, Constants DEF Admit, Fits
<1>3. /\ counter' = [counter EXCEPT ![w] = counter[w] + c]
      /\ expiry' = [expiry EXCEPT ![w] = now + KeptMs]
      /\ granted' = [granted EXCEPT ![w] = granted[w] + c]
      /\ UNCHANGED now
      /\ counter \in [Starts -> 0..MaxRequests] /\ granted \in [Starts -> 0..MaxRequests]
      /\ expiry \in [Starts -> Nat \cup {NoExpiry}]
      /\ granted[w] = counter[w] /\ granted[Previous] = counter[Previous]
  BY DEF Admit, IInv, TypeOK, WeightedCountsRetained
<1>4. reply' \in ReplyType
  <2>1. Estimate + c \in Nat /\ w + W \in Nat
    BY <1>1, <1>2
  <2>2. AtLeast0(MaxRequests - (Estimate + c)) \in 0..MaxRequests
    BY <2>1, LeftType
  <2>3. reply' = Reply(c, TRUE, AtLeast0(MaxRequests - (Estimate + c)), 0, w + W)
    BY <1>1 DEF Admit
  <2> QED BY <1>2, <2>1, <2>2, <2>3 DEF Reply, ReplyType
<1>5. KeptMs \in Nat /\ (w + 2 * W) * MsPerSecond <= now + KeptMs /\ now + KeptMs \in Nat
  <2>1. KeptMs \in Nat /\ KeptMs = (2 * W) * MsPerSecond /\ w * MsPerSecond \in Nat
        /\ (w + 2 * W) * MsPerSecond = w * MsPerSecond + (2 * W) * MsPerSecond
    BY <1>1, Constants, SMT DEF KeptMs
  <2>2. MsPerSecond * w <= MsPerSecond * Second(now)
    BY <1>1, Constants, ProductMonotone
  <2>3. MsPerSecond * w = w * MsPerSecond /\ MsPerSecond * Second(now) = Second(now) * MsPerSecond
        /\ Second(now) * MsPerSecond \in Nat
    BY <1>1, Constants, SMT
  <2>4. Second(now) * MsPerSecond <= now
    BY <1>1, SecondFacts
  <2> QED BY <1>1, <2>1, <2>2, <2>3, <2>4
<1>6. Window' = w /\ Previous' = Previous /\ Previous # w /\ PreviousExists'
  <2>1. Window' = w
    BY <1>3 DEF Window, WindowStart, Second
  <2>2. Previous' = Previous
    BY <2>1 DEF Previous
  <2>3. Previous # w
    BY <1>1 DEF Previous
  <2> QED BY <2>1, <2>2, <2>3 DEF IInv, PreviousExists
<1> HIDE DEF w, W
<1>7. counter'[w] = counter[w] + c /\ counter'[Previous] = counter[Previous]
      /\ granted'[w] = granted[w] + c /\ granted'[Previous] = granted[Previous]
  BY <1>1, <1>3, <1>6
<1>8. TypeOK'
  <2>1. counter' \in [Starts -> 0..MaxRequests] /\ granted' \in [Starts -> 0..MaxRequests]
    BY <1>2, <1>3
  <2>2. expiry' \in [Starts -> Nat \cup {NoExpiry}]
    BY <1>3, <1>5
  <2>3. now' \in 0..Horizon
    BY <1>3 DEF IInv, TypeOK
  <2> QED BY <1>4, <2>1, <2>2, <2>3 DEF TypeOK, ReplyType
<1>9. WeightedCountsRetained'
  BY <1>3, <1>6, <1>7 DEF WeightedCountsRetained, w
<1>10. EstimateWithinCapacity'
  <2>1. Estimate' = counter'[w] + Weighted(counter'[Previous], ToCome)
    BY <1>3, <1>6 DEF Estimate, ToCome, Weighted, Weight, WindowEnd, Second, w
  <2>2. Estimate' = Estimate + c
    BY <1>1, <1>2, <1>7, <2>1
  <2> QED BY <1>2, <2>2 DEF EstimateWithinCapacity
<1>11. FutureUntouched'
  <2> SUFFICES ASSUME NEW v \in Starts, v > w PROVE counter'[v] = 0 /\ granted'[v] = 0
    BY <1>6 DEF FutureUntouched
  <2>1. v # w
    BY <1>1
  <2>2. counter[v] = 0 /\ granted[v] = 0
    BY DEF IInv, FutureUntouched, w
  <2> QED BY <1>3, <2>1, <2>2
<1>12. ExpiresLate'
  <2> SUFFICES ASSUME NEW v \in Starts, expiry'[v] # NoExpiry
               PROVE  (v + 2 * WindowSeconds) * MsPerSecond <= expiry'[v]
    BY DEF ExpiresLate, NoExpiry
  <2>1. CASE v = w
    BY <1>1, <1>3, <1>5, <2>1 DEF W
  <2>2. CASE v # w
    <3>1. expiry'[v] = expiry[v]
      BY <1>3, <2>2
    <3> QED BY <3>1 DEF IInv, ExpiresLate
  <2> QED BY <2>1, <2>2
<1> QED BY <1>6, <1>8, <1>9, <1>10, <1>11, <1>12 DEF IInv

\* The estimate only falls over the rest of this window and the next, and at
\* the end of the next nothing is left of it.
LEMMA EstimateInFalls ==
    ASSUME TypeOK, PreviousExists,
           NEW i \in Nat, NEW j \in Nat, Second(now) <= i, i <= j, j <= Window + 2 * WindowSeconds
    PROVE  /\ EstimateIn(i) \in Nat /\ EstimateIn(j) \in Nat /\ EstimateIn(j) <= EstimateIn(i)
           /\ i = Second(now) => EstimateIn(i) = Estimate
           /\ j = Window + 2 * WindowSeconds => EstimateIn(j) = 0
<1> DEFINE a == counter[Window]
           b == counter[Previous]
           W == WindowSeconds
           end == Window + W
<1>1. /\ a \in Nat /\ b \in Nat /\ W \in Nat \ {0} /\ end \in Nat /\ Second(now) \in Nat
      /\ Window \in Nat /\ WindowEnd(Window) = end /\ Second(now) < end /\ Window <= Second(now)
      /\ Estimate = a + Weighted(b, end - Second(now))
  BY CountsFacts, Constants DEF ToCome
<1>2. \A s \in Nat : EstimateIn(s) = IF s < end THEN a + Weighted(b, end - s)
                                                ELSE Weighted(a, end + W - s)
  BY <1>1 DEF EstimateIn
<1> HIDE DEF a, b, W, end
<1>3. end + W = Window + 2 * WindowSeconds
  BY <1>1 DEF end, W
<1>4. ASSUME NEW s \in Nat, Window <= s, s < end
      PROVE  EstimateIn(s) = a + Weighted(b, end - s) /\ end - s \in Nat /\ Weighted(b, end - s) \in Nat
  <2>1. end - s \in Nat
    BY <1>1, <1>4
  <2>2. Weighted(b, end - s) \in Nat
    BY <1>1, <2>1, WeightedFacts
  <2> QED BY <1>2, <1>4, <2>1, <2>2
<1>5. ASSUME NEW s \in Nat, s >= end, s <= end + W
      PROVE  /\ EstimateIn(s) = Weighted(a, end + W - s) /\ end + W - s \in Nat
             /\ Weighted(a, end + W - s) \in Nat /\ Weighted(a, end + W - s) <= a
  <2>1. end + W - s \in Nat /\ end + W - s <= W
    BY <1>1, <1>5
  <2>2. Weighted(a, end + W - s) \in Nat /\ Weighted(a, end + W - s) <= a
    BY <1>1, <2>1, WeightedFacts DEF W
  <2>3. ~(s < end)
    BY <1>1, <1>5
  <2> QED BY <1>2, <2>1, <2>2, <2>3
<1>6. EstimateIn(i) \in Nat /\ EstimateIn(j) \in Nat /\ EstimateIn(j) <= EstimateIn(i)
  <2>1. CASE j < end
    <3>1. Window <= i /\ i < end /\ Window <= j /\ end - j <= end - i
      BY <1>1, <2>1
    <3>2. EstimateIn(i) = a + Weighted(b, end - i) /\ end - i \in Nat /\ Weighted(b, end - i) \in Nat
      BY <1>4, <3>1
    <3>3. EstimateIn(j) = a + Weighted(b, end - j) /\ end - j \in Nat /\ Weighted(b, end - j) \in Nat
      BY <1>4, <2>1, <3>1
    <3>4. b <= b
      BY <1>1
    <3>5. Weighted(b, end - j) <= Weighted(b, end - i)
      BY <1>1, <3>1, <3>2, <3>3, <3>4, WeightedFacts
    <3> QED BY <1>1, <3>2, <3>3, <3>5
  <2>2. CASE i < end /\ ~(j < end)
    <3>1. Window <= i /\ j >= end /\ j <= end + W
      BY <1>1, <1>3, <2>2
    <3>2. EstimateIn(i) = a + Weighted(b, end - i) /\ Weighted(b, end - i) \in Nat
      BY <1>4, <2>2, <3>1
    <3>3. /\ EstimateIn(j) = Weighted(a, end + W - j) /\ Weighted(a, end + W - j) \in Nat
          /\ Weighted(a, end + W - j) <= a
      BY <1>5, <3>1
    <3> QED BY <1>1, <3>2, <3>3
  <2>3. CASE ~(i < end)
    <3>1. i >= end /\ i <= end + W /\ j >= end /\ j <= end + W /\ end + W - j <= end + W - i
      BY <1>1, <1>3, <2>3
    <3>2. EstimateIn(i) = Weighted(a, end + W - i) /\ end + W - i \in Nat /\ Weighted(a, end + W - i) \in Nat
      BY <1>5, <3>1
    <3>3. EstimateIn(j) = Weighted(a, end + W - j) /\ end + W - j \in Nat /\ Weighted(a, end + W - j) \in Nat
      BY <1>5, <3>1
    <3>4. a <= a
      BY <1>1
    <3>5. Weighted(a, end + W - j) <= Weighted(a, end + W - i)
      BY <1>1, <3>1, <3>2, <3>3, <3>4, WeightedFacts
    <3> QED BY <3>2, <3>3, <3>5
  <2>4. j < end => i < end
    BY <1>1
  <2> QED BY <2>1, <2>2, <2>3, <2>4
<1>7. ASSUME i = Second(now) PROVE EstimateIn(i) = Estimate
  BY <1>1, <1>2, <1>7
<1>8. ASSUME j = Window + 2 * WindowSeconds PROVE EstimateIn(j) = 0
  <2>1. j >= end /\ j <= end + W /\ end + W - j = 0
    BY <1>1, <1>3, <1>8
  <2>2. EstimateIn(j) = Weighted(a, 0)
    BY <1>5, <2>1
  <2>3. Weighted(a, 0) = 0
    BY <1>1, WeightedFacts
  <2> QED BY <2>2, <2>3
<1> QED BY <1>6, <1>7, <1>8

\* Before the window after the next begins, a check finds what the script
\* looked ahead to: no counter it counts has expired, and none is new.
LEMMA EstimateAhead ==
    ASSUME IInv, NEW t \in Nat, now <= t, Second(t) <= Window + 2 * WindowSeconds
    PROVE  EstimateAt(t) = EstimateIn(Second(t))
<1> DEFINE a == counter[Window]
           b == counter[Previous]
           W == WindowSeconds
           w == Window
           s == Second(t)
           u == WindowStart(t)
<1>1. /\ a \in Nat /\ b \in Nat /\ W \in Nat \ {0} /\ w \in Nat /\ s \in Nat /\ now \in Nat
      /\ WindowEnd(w) = w + W /\ w \in Starts /\ Previous \in Starts /\ Previous = w - W
      /\ TypeOK /\ PreviousExists /\ ExpiresLate /\ FutureUntouched
  BY CountsFacts, Constants, SecondFacts DEF IInv, Previous
<1>2. /\ s < w + W => u = w
      /\ s >= w + W /\ s < w + 2 * W => u = w + W
      /\ s >= w + 2 * W => u >= w + 2 * W
      /\ u \in Nat /\ u <= s
  BY <1>1, LaterWindow, SecondFacts DEF Window
<1>3. EstimateAt(t) = Retained(u, t) + Weighted(Retained(u - W, t), (u + W) - s)
  BY DEF EstimateAt, WindowEnd
<1>4. EstimateIn(s) = IF s < w + W THEN a + Weighted(b, w + W - s) ELSE Weighted(a, (w + W) + W - s)
  BY <1>1 DEF EstimateIn
<1>5. s < w + 2 * W => Retained(w, t) = a
  BY <1>1, KeyStillThere DEF Retained
<1>6. s < w + W => Retained(w - W, t) = b
  <2>1. s < w + W => s < Previous + 2 * W
    BY <1>1
  <2> QED BY <1>1, <2>1, KeyStillThere DEF Retained
<1>7. \A v \in Int : v > w => Retained(v, t) = 0
  BY <1>1 DEF Retained, FutureUntouched
<1> HIDE DEF a, b, W, w, s, u
<1>8. CASE s < w + W
  <2>1. u = w /\ s < w + 2 * W
    BY <1>1, <1>2, <1>8
  <2>2. (u + W) - s = w + W - s
    BY <1>1, <1>2, <2>1
  <2> QED BY <1>3, <1>4, <1>5, <1>6, <1>8, <2>1, <2>2 DEF s
<1>9. CASE s >= w + W /\ s < w + 2 * W
  <2>1. u = w + W /\ u > w /\ u \in Int /\ u - W = w /\ (u + W) - s \in Nat
        /\ (w + W) + W - s = (u + W) - s /\ ~(s < w + W)
    BY <1>1, <1>2, <1>9
  <2>2. Retained(u, t) = 0 /\ Retained(u - W, t) = a
    BY <1>5, <1>7, <1>9, <2>1
  <2>3. Weighted(a, (u + W) - s) \in Nat
    BY <1>1, <2>1, WeightedFacts
  <2>4. EstimateAt(t) = 0 + Weighted(a, (u + W) - s)
    BY <1>3, <2>2
  <2>5. EstimateIn(s) = Weighted(a, (u + W) - s)
    BY <1>4, <2>1
  <2> QED BY <2>3, <2>4, <2>5 DEF s
<1>10. CASE s >= w + 2 * W
  <2>1. s = w + 2 * W
    BY <1>1, <1>10 DEF w, W, s
  <2>2. u = s /\ u > w /\ u - W > w /\ u \in Int /\ u - W \in Int /\ (u + W) - s = W
        /\ (w + W) + W - s = 0 /\ ~(s < w + W)
    BY <1>1, <1>2, <2>1
  <2>3. Retained(u, t) = 0 /\ Retained(u - W, t) = 0
    BY <1>7, <2>2
  <2>4. Weighted(0, W) = 0 /\ Weighted(a, 0) = 0
    BY <1>1, WeightedFacts
  <2> QED BY <1>3, <1>4, <2>2, <2>3, <2>4 DEF s
<1> QED BY <1>1, <1>8, <1>9, <1>10 DEF s

\* The search names the first later second at which the cost fits.
LEMMA FirstFitFacts ==
    ASSUME IInv, NEW c \in 0..MaxRequests
    PROVE  /\ FirstFit(c) \in (Second(now) + 1)..(Window + 2 * WindowSeconds)
           /\ \A i \in (Second(now) + 1)..(Window + 2 * WindowSeconds) :
                  EstimateIn(i) + c <= MaxRequests <=> FirstFit(c) <= i
<1> DEFINE last == Window + 2 * WindowSeconds
           next == Second(now) + 1
           good == {i \in next..last : EstimateIn(i) + c <= MaxRequests}
<1>1. /\ TypeOK /\ PreviousExists /\ Second(now) \in Nat /\ Window \in Nat /\ last \in Int /\ next \in Int
      /\ Second(now) < Window + WindowSeconds /\ WindowEnd(Window) + WindowSeconds = last
      /\ MaxRequests \in Nat /\ c \in Nat /\ c <= MaxRequests /\ next <= last
  BY CountsFacts, Constants DEF IInv
<1>2. FirstFit(c) = FirstIn(good, next, last)
  BY <1>1 DEF FirstFit
<1>3. ASSUME NEW i \in next..last, NEW j \in next..last, i <= j
      PROVE  /\ EstimateIn(i) \in Nat /\ EstimateIn(j) \in Nat /\ EstimateIn(j) <= EstimateIn(i)
             /\ j = last => EstimateIn(j) = 0
  <2>1. i \in Nat /\ j \in Nat /\ Second(now) <= i /\ j <= last
    BY <1>1
  <2> QED BY <1>1, <1>3, <2>1, EstimateInFalls
<1>4. last \in good
  <2>1. last \in next..last /\ last <= last
    BY <1>1
  <2>2. EstimateIn(last) = 0
    BY <1>3, <2>1
  <2> QED BY <1>1, <2>1, <2>2
<1>5. \A i, j \in next..last : i <= j /\ i \in good => j \in good
  <2> SUFFICES ASSUME NEW i \in next..last, NEW j \in next..last, i <= j, i \in good
               PROVE  EstimateIn(j) + c <= MaxRequests
    OBVIOUS
  <2>1. EstimateIn(i) \in Nat /\ EstimateIn(j) \in Nat /\ EstimateIn(j) <= EstimateIn(i)
    BY <1>3
  <2>2. EstimateIn(i) + c <= MaxRequests
    OBVIOUS
  <2> QED BY <1>1, <2>1, <2>2
<1>6. \A i \in next..last : i \in good <=> EstimateIn(i) + c <= MaxRequests
  OBVIOUS
<1> HIDE DEF last, next, good
<1>7. /\ FirstIn(good, next, last) \in next..last
      /\ \A i \in next..last : i \in good <=> FirstIn(good, next, last) <= i
  BY <1>1, <1>4, <1>5, SearchFindsFirst
<1> QED BY <1>2, <1>6, <1>7 DEF last, next

LEMMA CeilingCovers ==
    ASSUME NEW n \in Nat
    PROVE  /\ Ceiling(n, MsPerSecond) \in Nat
           /\ Ceiling(n, MsPerSecond) * MsPerSecond \in Nat
           /\ n <= Ceiling(n, MsPerSecond) * MsPerSecond
<1> DEFINE k == Ceiling(n, MsPerSecond)
           m == n + MsPerSecond - 1
<1>1. m \in Nat /\ MsPerSecond \in Nat \ {0}
  BY Constants
<1>2. k \in Nat
  <2>1. m \div MsPerSecond \in Nat
    BY <1>1, DivisionFacts
  <2> QED BY <2>1 DEF Ceiling
<1>3. k <= k <=> n <= MsPerSecond * k
  <2>1. \A i \in Int : k <= i <=> n <= MsPerSecond * i
    BY <1>1, CeilingAtMost DEF Ceiling
  <2> QED BY <1>2, <2>1
<1> HIDE DEF k
<1>4. MsPerSecond * k = k * MsPerSecond /\ k * MsPerSecond \in Nat
  BY <1>1, <1>2, SMT
<1> QED BY <1>2, <1>3, <1>4 DEF k

\* A denial's deadline is a later second, and its reset_at is no earlier.
LEMMA DenyFacts ==
    ASSUME IInv, NEW c \in Costs, Deny(c)
    PROVE  LET retry == FirstFit(c) * MsPerSecond - now
           IN  /\ c \in 0..MaxRequests /\ c \in Nat
               /\ FirstFit(c) \in Nat /\ FirstFit(c) * MsPerSecond \in Nat
               /\ retry \in Nat /\ retry > 0
               /\ reply'.retry = retry /\ reply'.cost = c /\ ~reply'.allowed
               /\ now + retry <= reply'.resetAt * MsPerSecond
               /\ reply' \in ReplyType
<1> DEFINE M == MsPerSecond
           x == FirstFit(c)
           retry == x * M - now
           wholeSeconds == IF retry > M THEN Ceiling(retry, M) ELSE 1
           resetAt == Ceiling(now + wholeSeconds * M, M)
<1>1. /\ now \in Nat /\ Second(now) \in Nat /\ Window \in Nat /\ Estimate \in Nat
      /\ M \in Nat \ {0} /\ WindowSeconds \in Nat /\ c \in Nat /\ c \in 0..MaxRequests
  BY CountsFacts, Constants DEF IInv, Deny
<1>2. x \in (Second(now) + 1)..(Window + 2 * WindowSeconds)
  BY <1>1, FirstFitFacts
<1>3. x \in Nat /\ Second(now) + 1 <= x
  BY <1>1, <1>2
<1>4. reply' = Reply(c, FALSE, AtLeast0(MaxRequests - Estimate), retry, resetAt)
  BY DEF Deny
<1> HIDE DEF x
<1>5. x * M \in Nat /\ now < x * M
  <2>1. M * (Second(now) + 1) <= M * x /\ M * x = x * M /\ x * M \in Nat
        /\ M * (Second(now) + 1) = Second(now) * M + M /\ Second(now) * M \in Nat
    BY <1>1, <1>3, ProductMonotone, SMT
  <2>2. now < Second(now) * M + M
    BY <1>1, SecondFacts
  <2> QED BY <1>1, <2>1, <2>2
<1>6. retry \in Nat /\ retry > 0
  BY <1>1, <1>5
<1> HIDE DEF retry
<1>7. wholeSeconds \in Nat /\ retry <= wholeSeconds * M /\ wholeSeconds * M \in Nat
  <2>1. Ceiling(retry, M) \in Nat /\ Ceiling(retry, M) * M \in Nat /\ retry <= Ceiling(retry, M) * M
    BY <1>6, CeilingCovers
  <2>2. 1 * M = M
    BY <1>1, SMT
  <2> QED BY <1>1, <1>6, <2>1, <2>2
<1> HIDE DEF wholeSeconds
<1>8. resetAt \in Nat /\ now + wholeSeconds * M <= resetAt * M /\ resetAt * M \in Nat
  <2>1. now + wholeSeconds * M \in Nat
    BY <1>1, <1>7
  <2> QED BY <2>1, CeilingCovers
<1> HIDE DEF resetAt
<1>9. now + retry <= resetAt * M
  BY <1>1, <1>6, <1>7, <1>8
<1>10. AtLeast0(MaxRequests - Estimate) \in 0..MaxRequests
  BY <1>1, LeftType
<1>11. /\ reply'.retry = retry /\ reply'.cost = c /\ reply'.allowed = FALSE
       /\ reply'.resetAt = resetAt /\ reply' \in ReplyType
  BY <1>1, <1>4, <1>6, <1>8, <1>10 DEF Reply, ReplyType
<1> QED BY <1>1, <1>3, <1>5, <1>6, <1>9, <1>11 DEF retry, x

LEMMA DenyStep ==
    ASSUME IInv, NEW c \in Costs, Deny(c)
    PROVE  IInv' /\ Estimate' = Estimate
<1>1. reply' \in ReplyType
  BY DenyFacts
<1> QED BY <1>1, OnlyReplyChanges DEF Deny

LEMMA ResetStep ==
    ASSUME IInv, NEW w \in Starts, Reset(w)
    PROVE  IInv' /\ Estimate' <= Estimate
<1>1. /\ Window \in Starts /\ Previous \in Starts /\ Window \in Nat /\ now \in Nat
      /\ counter[Window] \in Nat /\ counter[Previous] \in Nat /\ Estimate <= MaxRequests
      /\ Estimate \in Nat /\ MaxRequests \in Nat /\ Starts \subseteq Nat
  <2>1. Starts \subseteq Nat
    BY Constants, SecondFacts DEF Starts
  <2> QED BY <2>1, CountsFacts, Constants DEF IInv, EstimateWithinCapacity
<1>2. /\ counter \in [Starts -> 0..MaxRequests] /\ granted \in [Starts -> 0..MaxRequests]
      /\ expiry \in [Starts -> Nat \cup {NoExpiry}] /\ 0 \in 0..MaxRequests
      /\ counter' = [counter EXCEPT ![w] = 0] /\ granted' = [granted EXCEPT ![w] = 0]
      /\ expiry' = [expiry EXCEPT ![w] = NoExpiry] /\ reply' = NoReply /\ now' = now
  BY <1>1 DEF IInv, TypeOK, Reset
<1>3. \A v \in Starts : /\ counter'[v] = IF v = w THEN 0 ELSE counter[v]
                        /\ granted'[v] = IF v = w THEN 0 ELSE granted[v]
                        /\ expiry'[v] = IF v = w THEN NoExpiry ELSE expiry[v]
  BY <1>2
<1>4. Window' = Window /\ Previous' = Previous /\ PreviousExists'
  <2>1. Window' = Window
    BY <1>2 DEF Window, WindowStart, Second
  <2> QED BY <2>1 DEF Previous, IInv, PreviousExists
<1>5. TypeOK'
  <2>1. counter' \in [Starts -> 0..MaxRequests] /\ granted' \in [Starts -> 0..MaxRequests]
        /\ expiry' \in [Starts -> Nat \cup {NoExpiry}]
    BY <1>2
  <2>2. reply' \in ReplyType
    BY <1>2, NoReplyType
  <2>3. now' \in 0..Horizon
    BY <1>2 DEF IInv, TypeOK
  <2> QED BY <2>1, <2>2, <2>3 DEF TypeOK, ReplyType
<1>6. WeightedCountsRetained'
  BY <1>1, <1>3, <1>4 DEF IInv, WeightedCountsRetained
<1>7. Estimate' <= Estimate
  <2>1. counter'[Window] <= counter[Window] /\ counter'[Previous] <= counter[Previous] /\ now <= now'
    BY <1>1, <1>2, <1>3
  <2> QED BY <1>4, <1>5, <2>1, EstimateFalls DEF IInv
<1>8. EstimateWithinCapacity'
  <2>1. (TypeOK /\ PreviousExists => Estimate \in Nat)'
    BY CountsFacts, PTL
  <2> QED BY <1>1, <1>4, <1>5, <1>7, <2>1 DEF EstimateWithinCapacity
<1>9. FutureUntouched'
  BY <1>3, <1>4 DEF IInv, FutureUntouched
<1>10. ExpiresLate'
  BY <1>3 DEF IInv, ExpiresLate, NoExpiry
<1> QED BY <1>4, <1>5, <1>6, <1>7, <1>8, <1>9, <1>10 DEF IInv

\* Time passes: within the window the weight falls; at its end the current
\* counter becomes the previous one, and the new window's is fresh; later,
\* nothing is left.
LEMMA TickStep ==
    ASSUME IInv, NEW t \in 0..Horizon, Tick(t)
    PROVE  IInv' /\ Estimate' <= Estimate
<1> DEFINE W == WindowSeconds
           w == Window
           u == WindowStart(t)
<1>1. /\ w \in Starts /\ Previous \in Starts /\ w \in Nat /\ now \in Nat /\ Previous = w - W
      /\ counter[w] \in Nat /\ counter[Previous] \in Nat /\ Estimate <= MaxRequests
      /\ Estimate \in Nat /\ MaxRequests \in Nat /\ Starts \subseteq Nat /\ counter[w] <= Estimate
      /\ W \in Nat \ {0} /\ W <= w /\ TypeOK /\ ExpiresLate
  <2>1. Starts \subseteq Nat
    BY Constants, SecondFacts DEF Starts
  <2> QED BY <2>1, CountsFacts, Constants DEF IInv, EstimateWithinCapacity, Previous, PreviousExists
<1>2. /\ t \in Nat /\ now < t /\ now' = t /\ reply' = NoReply /\ granted' = granted
      /\ counter' = [v \in Starts |-> IF Lapsed(v, t) THEN 0 ELSE counter[v]]
      /\ expiry' = [v \in Starts |-> IF Lapsed(v, t) THEN NoExpiry ELSE expiry[v]]
      /\ counter \in [Starts -> 0..MaxRequests] /\ granted \in [Starts -> 0..MaxRequests]
      /\ expiry \in [Starts -> Nat \cup {NoExpiry}] /\ 0 \in 0..MaxRequests
  BY <1>1, Constants DEF IInv, TypeOK, Tick
<1>3. \A v \in Starts : /\ counter'[v] = IF Lapsed(v, t) THEN 0 ELSE counter[v]
                        /\ expiry'[v] = IF Lapsed(v, t) THEN NoExpiry ELSE expiry[v]
                        /\ granted'[v] = granted[v]
  BY <1>2
<1>4. Window' = u /\ Previous' = u - W
  BY <1>2 DEF Window, WindowStart, Second, Previous
<1>5. TypeOK'
  <2>1. counter' \in [Starts -> 0..MaxRequests] /\ granted' \in [Starts -> 0..MaxRequests]
        /\ expiry' \in [Starts -> Nat \cup {NoExpiry}]
    BY <1>2
  <2>2. reply' \in ReplyType
    BY <1>2, NoReplyType
  <2> QED BY <1>2, <2>1, <2>2 DEF TypeOK, ReplyType
<1>6. /\ Second(t) < w + W => u = w
      /\ Second(t) >= w + W /\ Second(t) < w + 2 * W => u = w + W
      /\ Second(t) >= w + 2 * W => u >= w + 2 * W
      /\ u \in Nat /\ Second(t) \in Nat /\ Second(t) < u + W
  BY <1>1, <1>2, LaterWindow, SecondFacts DEF Window
<1> HIDE DEF w, u, W
<1>7. w <= u /\ PreviousExists'
  <2>1. w <= u /\ W <= u
    BY <1>1, <1>6
  <2> QED BY <1>4, <2>1 DEF PreviousExists, W
<1>8. /\ \A v \in Starts : v > w => counter'[v] = 0 /\ granted'[v] = 0
      /\ \A v \in Starts : Second(t) < v + 2 * W => counter'[v] = counter[v]
  <2>1. \A v \in Starts : v > w => counter[v] = 0 /\ granted[v] = 0
    BY DEF IInv, FutureUntouched, w
  <2>2. \A v \in Starts : Second(t) < v + 2 * W => ~Lapsed(v, t)
    BY <1>1, <1>2, KeyStillThere DEF W
  <2> QED BY <1>3, <2>1, <2>2
<1>9. FutureUntouched' /\ ExpiresLate'
  <2>1. \A v \in Starts : v > u => v > w
    BY <1>1, <1>6, <1>7
  <2>2. FutureUntouched'
    BY <1>4, <1>8, <2>1 DEF FutureUntouched
  <2>3. ExpiresLate'
    BY <1>1, <1>3 DEF ExpiresLate, NoExpiry
  <2> QED BY <2>2, <2>3
<1>10. /\ (Window \in Starts /\ Previous \in Starts /\ counter[Window] \in Nat
           /\ counter[Previous] \in Nat /\ ToCome \in Nat /\ ToCome <= WindowSeconds
           /\ Estimate = counter[Window] + Weighted(counter[Previous], ToCome) /\ Estimate \in Nat)'
  BY <1>5, <1>7, CountsFacts, PTL
<1>11. u \in Starts /\ u - W \in Starts /\ counter'[u] \in Nat /\ counter'[u - W] \in Nat
       /\ Estimate' = counter'[u] + Weighted(counter'[u - W], ToCome') /\ Estimate' \in Nat
  BY <1>4, <1>10 DEF Weighted, Weight
<1>12. granted[w] = counter[w] /\ granted[Previous] = counter[Previous]
  BY DEF IInv, WeightedCountsRetained, w
<1>13. Estimate' <= Estimate /\ WeightedCountsRetained'
  <2>1. CASE u = w
    <3>1. Second(t) < w + 2 * W /\ Second(t) < Previous + 2 * W /\ u - W = Previous
      BY <1>1, <1>6, <2>1
    <3>2. counter'[w] = counter[w] /\ counter'[Previous] = counter[Previous]
      BY <1>1, <1>8, <3>1
    <3>3. WeightedCountsRetained'
      BY <1>2, <1>4, <1>12, <2>1, <3>1, <3>2 DEF WeightedCountsRetained
    <3>4. counter'[w] <= counter[w] /\ counter'[Previous] <= counter[Previous] /\ now <= now'
      BY <1>1, <1>2, <3>2
    <3>5. Estimate' <= Estimate
      BY <1>1, <1>4, <1>5, <1>7, <2>1, <3>4, EstimateFalls DEF IInv, w
    <3> QED BY <3>3, <3>5
  <2>2. CASE u = w + W
    <3>1. Second(t) < w + 2 * W /\ u - W = w /\ u > w
      BY <1>1, <1>6, <2>2
    <3>2. counter'[u - W] = counter[w] /\ counter'[u] = 0 /\ granted'[u] = 0
      BY <1>1, <1>8, <1>11, <3>1
    <3>3. WeightedCountsRetained'
      BY <1>2, <1>4, <1>12, <3>1, <3>2 DEF WeightedCountsRetained
    <3>4. Weighted(counter'[u - W], ToCome') <= counter'[u - W]
          /\ Weighted(counter'[u - W], ToCome') \in Nat
      BY <1>10, <1>11, WeightedFacts
    <3> QED BY <1>1, <1>11, <3>2, <3>3, <3>4
  <2>3. CASE u >= w + 2 * W
    <3>1. u > w /\ u - W > w
      BY <1>1, <1>6, <2>3
    <3>2. counter'[u - W] = 0 /\ counter'[u] = 0 /\ granted'[u] = 0 /\ granted'[u - W] = 0
      BY <1>8, <1>11, <3>1
    <3>3. WeightedCountsRetained'
      BY <1>2, <1>4, <3>2 DEF WeightedCountsRetained
    <3>4. Weighted(counter'[u - W], ToCome') = 0
      BY <1>10, <1>11, <3>2, WeightedFacts
    <3> QED BY <1>1, <1>11, <3>2, <3>3, <3>4
  <2> QED BY <1>1, <1>6, <2>1, <2>2, <2>3
<1>14. EstimateWithinCapacity'
  BY <1>1, <1>11, <1>13 DEF EstimateWithinCapacity
<1> QED BY <1>5, <1>7, <1>9, <1>13, <1>14 DEF IInv

LEMMA StepHolds == IInv /\ [Next]_vars => IInv'
<1> SUFFICES ASSUME IInv, [Next]_vars PROVE IInv'
  OBVIOUS
<1>1. CASE Next
  BY <1>1, DenyOversizedStep, AdmitStep, DenyStep, ResetStep, TickStep DEF Next
<1>2. CASE UNCHANGED vars
  <2>1. reply' \in ReplyType /\ UNCHANGED <<now, counter, expiry, granted>>
    BY <1>2 DEF vars, IInv, TypeOK, ReplyType
  <2> QED BY <2>1, OnlyReplyChanges
<1> QED BY <1>1, <1>2

LEMMA IInvHolds == Spec => []IInv
<1> QED BY InitHolds, StepHolds, PTL DEF Spec

\* The counters of the two windows that have a weight are what was granted in
\* them: no key expires early, no rollover finds a used counter.
THEOREM CountsAreSound == Spec => []CountsSound
<1>1. IInv => CountsSound
  BY DEF IInv, CountsSound
<1> QED BY <1>1, IInvHolds, PTL

\* The estimate never exceeds the capacity, and the permille weight loses less
\* than a thousandth of the previous count and one unit.
THEOREM EstimatesAreSound == Spec => []EstimateSound
<1>1. IInv => EstimateSound
  <2> SUFFICES ASSUME IInv PROVE RoundingBounded
    BY DEF IInv, EstimateSound
  <2>1. counter[Previous] \in Nat /\ ToCome \in Nat
    BY CountsFacts DEF IInv
  <2> QED BY <2>1, RoundingLosesLittle DEF RoundingBounded, ToCome
<1> QED BY <1>1, IInvHolds, PTL

\* Without an admission nothing ever raises the estimate.
THEOREM EstimatesDecay == Spec => EstimateDecays
<1>1. IInv /\ [Next]_vars => [~reply'.allowed => Estimate' <= Estimate]_vars
  <2> SUFFICES ASSUME IInv, Next, ~reply'.allowed PROVE Estimate' <= Estimate
    OBVIOUS
  <2>1. Estimate \in Nat /\ (Estimate' = Estimate => Estimate' <= Estimate)
    BY CountsFacts DEF IInv
  <2>2. ASSUME NEW c \in Costs, Admit(c) PROVE FALSE
    BY <2>2 DEF Admit, Reply
  <2> QED BY <2>1, <2>2, DenyOversizedStep, DenyStep, ResetStep, TickStep DEF Next
<1> QED BY <1>1, IInvHolds, PTL DEF Spec, EstimateDecays

\* A denial's Retry-After is the first millisecond at which the cost fits.
LEMMA RetryStep == IInv /\ RetryIsFirstFit /\ [Next]_vars => RetryIsFirstFit'
<1> SUFFICES ASSUME IInv, RetryIsFirstFit, [Next]_vars PROVE RetryIsFirstFit'
  OBVIOUS
<1>1. ASSUME NEW c \in Costs, DenyOversized(c) PROVE RetryIsFirstFit'
  BY <1>1 DEF DenyOversized, Reply, RetryIsFirstFit
<1>2. ASSUME NEW c \in Costs, Admit(c) PROVE RetryIsFirstFit'
  BY <1>2 DEF Admit, Reply, RetryIsFirstFit
<1>3. ASSUME NEW c \in Costs, Deny(c) PROVE RetryIsFirstFit'
  <2> DEFINE last == Window + 2 * WindowSeconds
  <2>0. /\ now \in Nat /\ Second(now) \in Nat /\ Window \in Nat /\ Estimate \in Nat
        /\ Second(now) < Window + WindowSeconds /\ WindowSeconds \in Nat \ {0}
        /\ MsPerSecond \in Nat \ {0} /\ MaxRequests \in Nat /\ TypeOK /\ PreviousExists
    BY CountsFacts, Constants DEF IInv
  <2>1. /\ c \in 0..MaxRequests /\ c \in Nat /\ FirstFit(c) \in Nat /\ FirstFit(c) * MsPerSecond \in Nat
        /\ FirstFit(c) * MsPerSecond - now \in Nat
        /\ reply'.retry = FirstFit(c) * MsPerSecond - now /\ reply'.cost = c
        /\ now + (FirstFit(c) * MsPerSecond - now) <= reply'.resetAt * MsPerSecond
    BY <1>3, DenyFacts
  <2>2. PICK x \in Nat : x = FirstFit(c)
    BY <2>1
  <2>3. /\ x \in (Second(now) + 1)..last
        /\ \A i \in (Second(now) + 1)..last : EstimateIn(i) + c <= MaxRequests <=> x <= i
    BY <2>1, <2>2, FirstFitFacts
  <2>4. PICK m \in Nat : m = x * MsPerSecond
    BY <2>1, <2>2
  <2>5. /\ Second(m) = x /\ now <= m
    <3>1. MsPerSecond * x = m
      BY <2>0, <2>4, SMT
    <3>2. m \div MsPerSecond = x
      BY <2>0, <3>1, FloorIsUnique
    <3> QED BY <2>0, <2>1, <2>2, <2>4, <3>2 DEF Second
  <2>6. /\ UNCHANGED <<now, counter, expiry>>
        /\ reply'.retry = m - now /\ now' + reply'.retry = m /\ now' + reply'.retry - 1 = m - 1
    <3>1. UNCHANGED <<now, counter, expiry>>
      BY <1>3 DEF Deny
    <3>2. reply'.retry = m - now
      BY <2>1, <2>2, <2>4
    <3> QED BY <2>0, <2>4, <3>1, <3>2
  <2>7. EstimateAt(m) + c <= MaxRequests
    <3>1. x <= last /\ last \in Nat /\ x <= x
      BY <2>0, <2>3
    <3>2. EstimateAt(m) = EstimateIn(x)
      BY <2>5, <3>1, EstimateAhead
    <3> QED BY <2>3, <3>1, <3>2
  <2>8. ASSUME NEW t \in now..(m - 1) PROVE EstimateAt(t) + c > MaxRequests
    <3>1. t \in Nat /\ now <= t /\ t < m
      BY <2>0, <2>8
    <3>2. Second(t) \in Nat /\ Second(now) <= Second(t) /\ Second(t) < x
      <4>1. Second(t) * MsPerSecond <= t /\ Second(t) \in Nat /\ Second(t) * MsPerSecond \in Nat
        BY <3>1, SecondFacts
      <4>2. Second(now) <= Second(t)
        BY <2>0, <3>1, SecondsPass
      <4>3. Second(t) < x
        <5>1. SUFFICES ASSUME x <= Second(t) PROVE FALSE
          BY <2>2, <4>1
        <5>2. MsPerSecond * x <= MsPerSecond * Second(t)
          BY <2>0, <2>2, <4>1, <5>1, ProductMonotone
        <5>3. MsPerSecond * x = m /\ MsPerSecond * Second(t) = Second(t) * MsPerSecond
          BY <2>0, <2>4, <4>1, SMT
        <5> QED BY <3>1, <4>1, <5>2, <5>3
      <4> QED BY <4>1, <4>2, <4>3
    <3>3. Second(t) <= last /\ last \in Nat
      BY <2>0, <2>3, <3>2
    <3>4. EstimateAt(t) = EstimateIn(Second(t)) /\ EstimateIn(Second(t)) \in Nat
      <4>1. Second(t) <= Second(t)
        BY <3>2
      <4> QED BY <2>0, <3>1, <3>2, <3>3, <4>1, EstimateAhead, EstimateInFalls
    <3>5. CASE Second(t) = Second(now)
      <4>1. EstimateIn(Second(t)) = Estimate
        <5>1. Second(t) <= Second(t)
          BY <3>2
        <5> QED BY <2>0, <3>2, <3>3, <3>5, <5>1, EstimateInFalls
      <4>2. ~(Estimate + c <= MaxRequests)
        BY <1>3 DEF Deny, Fits
      <4> QED BY <2>0, <2>1, <3>4, <4>1, <4>2
    <3>6. CASE Second(t) # Second(now)
      <4>1. Second(t) \in (Second(now) + 1)..last /\ ~(x <= Second(t))
        BY <2>0, <2>2, <3>2, <3>3, <3>6
      <4>2. ~(EstimateIn(Second(t)) + c <= MaxRequests)
        BY <2>3, <4>1
      <4> QED BY <2>0, <2>1, <3>4, <4>2
    <3> QED BY <3>5, <3>6
  <2>9. \A t : EstimateAt(t)' = EstimateAt(t)
    BY <2>6 DEF EstimateAt, Retained, Lapsed
  <2>10. EstimateAt(now + reply.retry)' = EstimateAt(m)'
    BY <2>6 DEF EstimateAt, Retained, Lapsed
  <2>11. EstimateAt(now + reply.retry)' + reply'.cost <= MaxRequests
    BY <2>1, <2>7, <2>9, <2>10
  <2>12. \A t \in now'..(now' + reply'.retry - 1) : EstimateAt(t)' + reply'.cost > MaxRequests
    <3>1. \A t \in now..(m - 1) : EstimateAt(t) + c > MaxRequests
      BY <2>8
    <3>2. ASSUME NEW t \in now'..(now' + reply'.retry - 1)
          PROVE  EstimateAt(t)' + reply'.cost > MaxRequests
      <4>1. t \in now..(m - 1)
        BY <2>6, <3>2
      <4>2. EstimateAt(t)' = EstimateAt(t)
        BY <2>6 DEF EstimateAt, Retained, Lapsed
      <4> QED BY <2>1, <3>1, <4>1, <4>2
    <3> QED BY <3>2
  <2>13. now' + reply'.retry <= reply'.resetAt * MsPerSecond
    BY <2>1, <2>6
  <2> QED BY <2>11, <2>12, <2>13 DEF RetryIsFirstFit
<1>4. ASSUME NEW w \in Starts, Reset(w) PROVE RetryIsFirstFit'
  BY <1>4 DEF Reset, NoReply, Reply, RetryIsFirstFit
<1>5. ASSUME NEW t \in 0..Horizon, Tick(t) PROVE RetryIsFirstFit'
  BY <1>5 DEF Tick, NoReply, Reply, RetryIsFirstFit
<1>6. CASE UNCHANGED vars
  BY <1>6 DEF vars, RetryIsFirstFit, EstimateAt, Retained, Lapsed
<1> QED BY <1>1, <1>2, <1>3, <1>4, <1>5, <1>6 DEF Next

THEOREM RetriesAreFirstFits == Spec => []RetryIsFirstFit
<1>1. Init => RetryIsFirstFit
  BY DEF Init, RetryIsFirstFit, NoReply, Reply
<1> QED BY <1>1, RetryStep, IInvHolds, PTL DEF Spec

-----------------------------------------------------------------------------
(* The usage reported from three round trips.                              *)

\* The window a second is in, and what the counter before it is worth to a
\* call that read the time in that second.
StartOf(s) == s - (s % WindowSeconds)
Share(s) == Weighted(counter[StartOf(s) - WindowSeconds], WindowEnd(StartOf(s)) - s)

\* A call in the window it began in will report at least the highest estimate.
ReadsEnough(s) ==
    StartOf(s) = Window =>
        /\ reader.stage = "timed" => highest <= counter[StartOf(s)] + Share(s)
        /\ reader.stage = "current" => highest <= reader.current + Share(s)
        /\ reader.stage = "answered" => highest <= reader.estimate

ReaderType == [stage : {"idle", "timed", "current", "answered"},
               second : Nat, current : Nat, estimate : Nat]

UsageInv ==
    /\ reader \in ReaderType
    /\ highest \in Nat
    /\ reader.stage # "idle" =>
          /\ WindowSeconds <= reader.second /\ reader.second <= Second(now)
          /\ ReadsEnough(reader.second)

\* What a call that read the time in second s can find.
Findable(s) ==
    WindowSeconds <= s /\ s <= Second(now) =>
        LET w == StartOf(s)
        IN  /\ w \in Starts /\ w \in Nat /\ w - WindowSeconds \in Starts /\ w - WindowSeconds \in Nat
            /\ w <= Window /\ w <= s
            /\ counter[w] \in Nat /\ Share(s) \in Nat
            /\ w = Window => Estimate <= counter[w] + Share(s)

AllFindable == \A s \in Nat : Findable(s)

LEMMA ReadFacts == TypeOK /\ PreviousExists => AllFindable
<1> SUFFICES ASSUME TypeOK, PreviousExists, NEW s \in Nat, WindowSeconds <= s, s <= Second(now)
             PROVE  Findable(s)
  BY DEF Findable, AllFindable
<1> DEFINE w == StartOf(s)
           W == WindowSeconds
           left == WindowEnd(w) - s
           c == counter[w - W]
<1>1. /\ W \in Nat \ {0} /\ now \in Nat /\ Second(now) \in Nat /\ Window \in Nat /\ Window \in Starts
      /\ Window <= Second(now) /\ ToCome \in Nat /\ Previous = Window - W
      /\ ToCome = Window + W - Second(now)
      /\ Estimate = counter[Window] + Weighted(counter[Previous], ToCome)
      /\ counter[Window] \in Nat /\ Weighted(counter[Previous], ToCome) \in Nat
  BY CountsFacts, Constants DEF Previous, ToCome, WindowEnd
<1>2. /\ w \in Nat /\ w <= s /\ s < w + W /\ W <= w
  <2> DEFINE q == s \div W
             r == s % W
  <2>1. q \in Nat /\ r \in 0..(W - 1) /\ s = W * q + r
    BY <1>1, DivisionFacts
  <2>2. W * q \in Nat /\ w = s - r
    BY <1>1, <2>1, SMT DEF StartOf
  <2> HIDE DEF q, r, w
  <2>3. w = W * q /\ w \in Nat /\ w <= s /\ s < w + W
    BY <1>1, <2>1, <2>2
  <2>4. q # 0
    <3>1. q = 0 => W * q = 0
      BY <1>1, SMT
    <3> QED BY <1>1, <2>3, <3>1
  <2>5. W * 1 <= W * q
    BY <1>1, <2>1, <2>4, ProductMonotone
  <2> QED BY <1>1, <2>3, <2>5
<1>3. w <= Window
  <2>1. PICK n \in Nat : n = Second(now)
    BY <1>1
  <2>2. \/ n - (n % W) = s - (s % W)
        \/ n - (n % W) >= s - (s % W) + W
    BY <1>1, <2>1, RoundedDown
  <2>3. Window = n - (n % W) /\ w = s - (s % W)
    BY <2>1 DEF Window, WindowStart, StartOf
  <2> HIDE DEF w
  <2> QED BY <1>1, <1>2, <2>2, <2>3
<1>4. w \in Starts /\ w - W \in Starts /\ w - W \in Nat
  <2>1. Second(Horizon) \in Nat
    BY Constants, SecondFacts
  <2> HIDE DEF w
  <2> QED BY <1>1, <1>2, <1>3, <2>1 DEF Starts
<1>5. counter[w] \in Nat /\ c \in Nat
  <2>1. counter[w] \in 0..MaxRequests /\ c \in 0..MaxRequests
    BY <1>4 DEF TypeOK
  <2> QED BY <2>1, Constants
<1>6. left \in Nat /\ left = w + W - s
  <2> HIDE DEF w
  <2> QED BY <1>1, <1>2 DEF WindowEnd
<1>7. Share(s) = Weighted(c, left) /\ Share(s) \in Nat
  <2>1. Share(s) = Weighted(c, left)
    BY DEF Share
  <2> HIDE DEF c, left
  <2> QED BY <1>5, <1>6, <2>1, WeightedFacts
<1>8. ASSUME w = Window PROVE Estimate <= counter[w] + Share(s)
  <2>1. counter[Previous] = c
    BY <1>1, <1>8
  <2>2. ToCome <= left
    BY <1>1, <1>6, <1>8
  <2>3. PICK k \in Nat, l \in Nat, m \in Nat : k = ToCome /\ l = left /\ m = c
    BY <1>1, <1>5, <1>6
  <2>4. Weighted(m, k) <= Weighted(m, l)
    <3>1. k <= l /\ m <= m
      BY <2>2, <2>3
    <3> QED BY <3>1, WeightedFacts
  <2>5. Weighted(counter[Previous], ToCome) <= Share(s)
    BY <1>7, <2>1, <2>3, <2>4
  <2> QED BY <1>1, <1>5, <1>7, <1>8, <2>5
<1> QED BY <1>2, <1>3, <1>4, <1>5, <1>7, <1>8 DEF Findable

\* A step that resets nothing and stays in a window: its counter does not fall,
\* and the counter before it stands.
LEMMA QuietStep ==
    ASSUME IInv, IInv', Next, ~(\E w \in Starts : Reset(w)), Window' = Window
    PROVE  /\ counter[Window] <= counter'[Window]
           /\ counter'[Previous] = counter[Previous]
<1>1. /\ now \in Nat /\ Window \in Starts /\ Previous \in Starts /\ Window \in Nat /\ Previous \in Nat
      /\ Window # Previous /\ Window = Previous + WindowSeconds /\ counter[Window] \in Nat
      /\ TypeOK /\ ExpiresLate /\ counter \in [Starts -> 0..MaxRequests]
      /\ Second(now) < Window + WindowSeconds /\ WindowSeconds \in Nat \ {0}
  BY CountsFacts, Constants DEF IInv, Previous, TypeOK
<1>2. ASSUME UNCHANGED counter
      PROVE  counter[Window] <= counter'[Window] /\ counter'[Previous] = counter[Previous]
  BY <1>1, <1>2
<1>3. ASSUME NEW c \in Costs, Admit(c)
      PROVE  counter[Window] <= counter'[Window] /\ counter'[Previous] = counter[Previous]
  <2>1. counter' = [counter EXCEPT ![Window] = counter[Window] + c] /\ c \in Nat
    BY <1>3, Constants DEF Admit
  <2> QED BY <1>1, <2>1
<1>4. ASSUME NEW t \in 0..Horizon, Tick(t)
      PROVE  counter[Window] <= counter'[Window] /\ counter'[Previous] = counter[Previous]
  <2>1. t \in Nat /\ now' = t
    BY <1>4, Constants DEF Tick
  <2>2. Second(t) < Window + WindowSeconds /\ Second(t) \in Nat
    <3>1. Window' = WindowStart(t)
      BY <2>1 DEF Window, WindowStart, Second
    <3> QED BY <2>1, <3>1, SecondFacts
  <2>3. Second(t) < Window + 2 * WindowSeconds /\ Second(t) < Previous + 2 * WindowSeconds
    BY <1>1, <2>2
  <2>4. ~Lapsed(Window, t) /\ ~Lapsed(Previous, t)
    <3>1. \A w \in Starts : Second(t) < w + 2 * WindowSeconds => ~Lapsed(w, t)
      BY <1>1, <2>1, KeyStillThere
    <3> QED BY <1>1, <2>3, <3>1
  <2>5. counter'[Window] = counter[Window] /\ counter'[Previous] = counter[Previous]
    BY <1>1, <1>4, <2>4 DEF Tick
  <2> QED BY <1>1, <2>5
<1> QED BY <1>2, <1>3, <1>4 DEF Next, DenyOversized, Deny

\* Time does not run back.
LEMMA TimePasses == IInv /\ Next => now <= now' /\ Second(now) <= Second(now')
<1> SUFFICES ASSUME IInv, Next PROVE now <= now' /\ Second(now) <= Second(now')
  OBVIOUS
<1>1. now \in Nat /\ Horizon \in Nat
  BY CountsFacts, Constants DEF IInv
<1>2. now' \in Nat /\ now <= now'
  <2>1. ASSUME NEW t \in 0..Horizon, Tick(t) PROVE now' \in Nat /\ now <= now'
    BY <1>1, <2>1 DEF Tick
  <2>2. ASSUME UNCHANGED now PROVE now' \in Nat /\ now <= now'
    BY <1>1, <2>2
  <2> QED BY <2>1, <2>2 DEF Next, DenyOversized, Admit, Deny, Reset
<1> QED BY <1>1, <1>2, SecondsPass

\* What a call that is waiting for its next reply will report stays enough.
LEMMA WaitingStep ==
    ASSUME IInv, IInv', Next, UNCHANGED reader,
           NEW s \in Nat, WindowSeconds <= s, s <= Second(now), ReadsEnough(s),
           highest \in Nat, reader.current \in Nat, reader.stage \in {"timed", "current"},
           highest' = IF \E w \in Starts : Reset(w)
                      THEN 0
                      ELSE IF reader.stage = "timed" THEN Higher(highest, Estimate') ELSE highest
    PROVE  highest' \in Nat /\ s <= Second(now)' /\ ReadsEnough(s)'
<1> DEFINE w == StartOf(s)
<1>1. Findable(s) /\ Findable(s)'
  <2>1. (TypeOK /\ PreviousExists => AllFindable)'
    BY ReadFacts, PTL
  <2>2. AllFindable /\ AllFindable'
    BY <2>1, ReadFacts DEF IInv
  <2> QED BY <2>2 DEF AllFindable
<1>2. /\ Second(now)' \in Nat /\ Second(now) \in Nat /\ Window \in Nat /\ Window' \in Nat
      /\ Estimate' \in Nat /\ Previous = Window - WindowSeconds
  <2>1. (TypeOK /\ PreviousExists => Second(now) \in Nat /\ Window \in Nat /\ Estimate \in Nat)'
    BY CountsFacts, PTL
  <2> QED BY <2>1, CountsFacts DEF IInv, Previous
<1>3. s <= Second(now)'
  <2>1. Second(now) <= Second(now)'
    BY TimePasses DEF Second
  <2> QED BY <1>2, <2>1
<1>4. /\ w \in Nat /\ w <= Window /\ counter[w] \in Nat /\ Share(s) \in Nat
      /\ counter'[w] \in Nat /\ Share(s)' \in Nat
      /\ w = Window' => Estimate' <= counter'[w] + Share(s)'
  BY <1>1, <1>3 DEF Findable, StartOf, Starts
<1>5. highest' \in Nat
  BY <1>2 DEF Higher
<1>6. CASE \E i \in Starts : Reset(i)
  <2>1. highest' = 0
    BY <1>6
  <2> QED BY <1>3, <1>4, <1>5, <2>1 DEF ReadsEnough, StartOf
<1>7. CASE ~(\E i \in Starts : Reset(i)) /\ w = Window'
  <2>1. Window' = Window /\ w = Window
    <3>1. PICK n \in Nat, m \in Nat : n = now /\ m = now'
      <4>1. now \in Nat /\ now' \in Nat
        BY Constants DEF IInv, TypeOK
      <4> QED BY <4>1
    <3>2. n <= m
      BY <3>1, TimePasses
    <3>3. WindowStart(n) = Window /\ WindowStart(m) = Window'
      BY <3>1 DEF Window, WindowStart, Second
    <3>4. WindowStart(n) <= WindowStart(m)
      <4>1. Second(m) \in Nat /\ Second(n) \in Nat /\ WindowSeconds \in Nat \ {0}
        BY SecondFacts, Constants
      <4> QED BY <1>2, <3>2, <3>3, <4>1, LaterWindow
    <3> QED BY <1>2, <1>4, <1>7, <3>3, <3>4
  <2>2. counter[w] <= counter'[w] /\ counter'[w - WindowSeconds] = counter[w - WindowSeconds]
    BY <1>2, <1>7, <2>1, QuietStep
  <2>3. Share(s)' = Share(s)
    BY <2>2 DEF Share, StartOf, WindowEnd, Weighted, Weight
  <2>4. CASE reader.stage = "timed"
    <3>1. highest <= counter[w] + Share(s)
      BY <2>1, <2>4 DEF ReadsEnough
    <3>2. highest' <= counter'[w] + Share(s)'
      BY <1>2, <1>4, <1>7, <2>2, <2>3, <2>4, <3>1 DEF Higher
    <3> QED BY <1>3, <1>5, <2>4, <3>2 DEF ReadsEnough, StartOf
  <2>5. CASE reader.stage = "current"
    <3>1. highest' <= reader.current + Share(s)'
      BY <1>7, <2>1, <2>3, <2>5 DEF ReadsEnough
    <3> QED BY <1>3, <1>5, <2>5, <3>1 DEF ReadsEnough, StartOf
  <2> QED BY <2>4, <2>5
<1>8. CASE w # Window'
  BY <1>3, <1>5, <1>8 DEF ReadsEnough, StartOf
<1> QED BY <1>6, <1>7, <1>8

LEMMA UsageStep == IInv /\ IInv' /\ UsageInv /\ [UsageNext]_usageVars => UsageInv'
<1> SUFFICES ASSUME IInv, IInv', UsageInv, [UsageNext]_usageVars PROVE UsageInv'
  OBVIOUS
<1> DEFINE s == reader.second
<1>0. /\ reader \in ReaderType /\ s \in Nat /\ reader.current \in Nat /\ highest \in Nat
      /\ Estimate \in Nat /\ Second(now) \in Nat /\ Window \in Nat
      /\ Window <= Second(now) /\ WindowSeconds <= Window /\ WindowSeconds \in Nat \ {0}
  BY CountsFacts, Constants DEF UsageInv, ReaderType, IInv, PreviousExists
<1>1. CASE ReadTime
  <2>1. /\ reader' = [stage |-> "timed", second |-> Second(now), current |-> 0, estimate |-> 0]
        /\ highest' = Estimate /\ UNCHANGED vars
    BY <1>1 DEF ReadTime, NotReading
  <2>2. UNCHANGED <<Window, Estimate>> /\ Second(now)' = Second(now)
    BY <2>1 DEF vars, Window, WindowStart, Second, Previous, Estimate, Weighted, Weight, WindowEnd
  <2>3. PICK n \in Nat : n = Second(now)
    BY <1>0
  <2>4. WindowSeconds <= n
    BY <1>0, <2>3
  <2>5. StartOf(n) = Window
    BY <2>3 DEF StartOf, Window, WindowStart
  <2>6. Estimate <= counter[StartOf(n)] + Share(n)
    BY <1>0, <2>3, <2>4, <2>5, ReadFacts DEF AllFindable, Findable, IInv
  <2>7. Share(n)' = Share(n) /\ counter' = counter
    BY <2>1 DEF Share, vars, StartOf, WindowEnd, Weighted, Weight
  <2>8. reader'.second = n /\ reader'.stage = "timed"
    BY <2>1, <2>3
  <2>9. ReadsEnough(n)'
    BY <2>1, <2>6, <2>7, <2>8 DEF ReadsEnough, StartOf
  <2>10. ReadsEnough(reader.second)'
    BY <2>8, <2>9 DEF ReadsEnough, StartOf, Share
  <2> QED BY <1>0, <2>1, <2>2, <2>3, <2>4, <2>8, <2>10 DEF UsageInv, ReaderType
<1>2. CASE ReadCurrent
  <2>1. PICK n \in Nat : n = s
    BY <1>0
  <2>2. /\ reader.stage = "timed" /\ n \in Nat /\ WindowSeconds <= n /\ n <= Second(now)
        /\ ReadsEnough(n)
    BY <1>0, <1>2, <2>1 DEF ReadCurrent, UsageInv
  <2>3. counter[StartOf(n)] \in Nat
    BY <1>0, <2>2, ReadFacts DEF AllFindable, Findable, IInv
  <2>4. /\ reader' = [reader EXCEPT !.stage = "current", !.current = counter[StartOf(n)]]
        /\ UNCHANGED <<vars, highest>>
    BY <1>2, <2>1 DEF ReadCurrent, ReadWindow, StartOf
  <2>5. /\ reader'.stage = "current" /\ reader'.second = n /\ reader'.current = counter[StartOf(n)]
        /\ reader' \in ReaderType
    BY <1>0, <2>1, <2>3, <2>4 DEF ReaderType
  <2>6. UNCHANGED <<Window, Share(n)>> /\ Second(now)' = Second(now)
    BY <2>4 DEF vars, Window, WindowStart, Second, Share, StartOf, WindowEnd, Weighted, Weight
  <2>7. ReadsEnough(n)'
    BY <2>2, <2>4, <2>5, <2>6 DEF ReadsEnough, StartOf
  <2>8. ReadsEnough(reader.second)'
    BY <2>5, <2>7 DEF ReadsEnough, StartOf, Share
  <2> QED BY <1>0, <2>2, <2>4, <2>5, <2>6, <2>8 DEF UsageInv
<1>3. CASE ReadPrevious
  <2>1. PICK n \in Nat : n = s
    BY <1>0
  <2>2. /\ reader.stage = "current" /\ n \in Nat /\ WindowSeconds <= n /\ n <= Second(now)
        /\ ReadsEnough(n)
    BY <1>0, <1>3, <2>1 DEF ReadPrevious, UsageInv
  <2>3. Share(n) \in Nat
    BY <1>0, <2>2, ReadFacts DEF AllFindable, Findable, IInv
  <2>4. /\ reader' = [reader EXCEPT !.stage = "answered", !.estimate = reader.current + Share(n)]
        /\ UNCHANGED <<vars, highest>>
    BY <1>3, <2>1 DEF ReadPrevious, PreviousShare, ReadWindow, Share, StartOf
  <2>5. /\ reader'.stage = "answered" /\ reader'.second = n
        /\ reader'.estimate = reader.current + Share(n) /\ reader' \in ReaderType
    <3> DEFINE e == reader.current + Share(n)
    <3>1. e \in Nat /\ reader' = [reader EXCEPT !.stage = "answered", !.estimate = e]
      BY <1>0, <2>3, <2>4
    <3> HIDE DEF e
    <3>2. /\ reader'.stage = "answered" /\ reader'.second = n /\ reader'.estimate = e
          /\ reader' \in ReaderType
      BY <1>0, <2>1, <3>1 DEF ReaderType
    <3> QED BY <3>2 DEF e
  <2>6. UNCHANGED Window /\ Second(now)' = Second(now)
    BY <2>4 DEF vars, Window, WindowStart, Second
  <2>7. ReadsEnough(n)'
    BY <2>2, <2>4, <2>5, <2>6 DEF ReadsEnough, StartOf
  <2>8. ReadsEnough(reader.second)'
    BY <2>5, <2>7 DEF ReadsEnough, StartOf, Share
  <2> QED BY <1>0, <2>2, <2>4, <2>5, <2>6, <2>8 DEF UsageInv
<1>4. CASE ReadFails
  BY <1>0, <1>4 DEF ReadFails, NotReading, UsageInv, ReaderType
<1>5. CASE Meanwhile /\ reader.stage \in {"timed", "current"}
  <2>1. PICK n \in Nat : n = s
    BY <1>0
  <2>2. /\ WindowSeconds <= n /\ n <= Second(now) /\ ReadsEnough(n) /\ UNCHANGED reader /\ Next
        /\ highest' = IF \E w \in Starts : Reset(w)
                      THEN 0
                      ELSE IF reader.stage = "timed" THEN Higher(highest, Estimate') ELSE highest
    BY <1>0, <1>5, <2>1 DEF Meanwhile, UsageInv
  <2>3. highest' \in Nat /\ n <= Second(now)' /\ ReadsEnough(n)'
    BY <1>0, <1>5, <2>2, WaitingStep
  <2>4. reader'.second = n
    BY <2>1, <2>2
  <2>5. ReadsEnough(reader.second)'
    BY <2>3, <2>4 DEF ReadsEnough, StartOf, Share
  <2> QED BY <1>0, <2>2, <2>3, <2>4, <2>5 DEF UsageInv
<1>6. CASE Meanwhile /\ reader.stage \notin {"timed", "current"}
  <2>1. reader' = NotReading \/ (reader' = reader /\ reader.stage = "idle")
    <3>1. reader.stage \in {"idle", "timed", "current", "answered"}
      BY <1>0 DEF ReaderType
    <3>2. reader' = IF reader.stage = "answered" THEN NotReading ELSE reader
      BY <1>6 DEF Meanwhile
    <3> QED BY <1>6, <3>1, <3>2
  <2>2. reader' \in ReaderType /\ reader'.stage = "idle"
    BY <1>0, <2>1 DEF NotReading, ReaderType
  <2>3. highest' \in Nat
    BY <1>0, <1>6 DEF Meanwhile
  <2> QED BY <2>2, <2>3 DEF UsageInv
<1>7. CASE UNCHANGED usageVars
  BY <1>7 DEF usageVars, vars, UsageInv, ReadsEnough, StartOf, Share, Window, WindowStart, Second,
              WindowEnd, Weighted, Weight
<1> QED BY <1>1, <1>2, <1>3, <1>4, <1>5, <1>6, <1>7 DEF UsageNext

\* The reader only looks on: what is proved of Spec holds under it.
LEMMA ReadersLookOn == UsageSpec => Spec
<1>1. UsageInit => Init
  BY DEF UsageInit
<1>2. [UsageNext]_usageVars => [Next]_vars
  BY DEF UsageNext, usageVars, ReadTime, ReadCurrent, ReadPrevious, ReadFails, Meanwhile
<1> QED BY <1>1, <1>2, PTL DEF UsageSpec, Spec

LEMMA UsageInvHolds == UsageSpec => []UsageInv
<1>1. UsageInit => UsageInv
  BY DEF UsageInit, NotReading, UsageInv, ReaderType
<1> QED BY <1>1, UsageStep, ReadersLookOn, IInvHolds, PTL DEF UsageSpec

\* get_usage, whose weight and counters are of three moments, reports at least
\* the highest use there was while it ran, if it ends in the window it began in.
LEMMA EnoughIsReported == UsageInv => NeverOptimistic
BY DEF UsageInv, ReaderType, ReadsEnough, StartOf, NeverOptimistic, ReadWindow

THEOREM NeverTooOptimistic == UsageSpec => []NeverOptimistic
BY EnoughIsReported, UsageInvHolds, PTL

\* What get_usage says remains would have been admitted while it ran; of what
\* the strategy says remains, all but the last request.
THEOREM RemainingIsThere == UsageSpec => []PromisesKept
<1>1. UsageInv => PromisesKept
  <2> SUFFICES ASSUME UsageInv, reader.stage = "answered", ReadWindow = Window
               PROVE  /\ Remaining > 0 => highest + Scaled(Remaining) <= MaxRequests
                      /\ StrategyRemaining > 0 =>
                           highest + Scaled(StrategyRemaining - 1) <= MaxRequests
    BY DEF PromisesKept
  <2> DEFINE e == reader.estimate
             q == MaxRequests \div 1000
             u == e \div 1000
  <2>1. highest <= e /\ e \in Nat /\ highest \in Nat /\ MaxRequests \in Nat
    BY EnoughIsReported, Constants DEF NeverOptimistic, UsageInv, ReaderType
  <2>2. /\ q \in Int /\ 1000 * q <= MaxRequests
        /\ u \in Int /\ e < 1000 * u + 1000
    BY <2>1, FloorFacts
  <2>3. ASSUME Remaining > 0 PROVE highest + Scaled(Remaining) <= MaxRequests
    <3> DEFINE left == AtLeast0(q * 1000 - e)
    <3>1. Remaining = left \div 1000
      BY DEF Remaining, Requests, WholeRequests, Scaled
    <3> HIDE DEF q, e
    <3>2. left \in Nat /\ (left = 0 \/ left = q * 1000 - e)
      BY <2>1, <2>2 DEF AtLeast0
    <3> HIDE DEF left
    <3>3. Remaining \in Int /\ 1000 * Remaining <= left
      BY <3>1, <3>2, FloorFacts
    <3> QED BY <2>1, <2>2, <2>3, <3>2, <3>3 DEF Scaled
  <2>4. ASSUME StrategyRemaining > 0
        PROVE  highest + Scaled(StrategyRemaining - 1) <= MaxRequests
    <3>1. StrategyRemaining = AtLeast0(q - u)
      BY DEF StrategyRemaining, Requests, WholeRequests
    <3> HIDE DEF q, u, e
    <3>2. StrategyRemaining = q - u
      BY <2>2, <2>4, <3>1 DEF AtLeast0
    <3> QED BY <2>1, <2>2, <3>2 DEF Scaled
  <2> QED BY <2>3, <2>4
<1> QED BY <1>1, UsageInvHolds, PTL
=============================================================================
