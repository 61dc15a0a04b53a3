------------------------- MODULE TokenBucketProofs -------------------------
(***************************************************************************)
(* Proofs about the token-bucket algorithm, for every capacity, window     *)
(* length, cost set and horizon.                                           *)
(***************************************************************************)
EXTENDS TokenBucketUsage, ArithmeticProofs

-----------------------------------------------------------------------------
(* The script's arithmetic.                                                *)

LEMMA WindowMsNat == WindowMs \in Nat \ {0} /\ Capacity \in Nat \ {0} /\ TtlMs \in Nat
<1>1. WindowMs \in Nat /\ WindowMs # 0
  BY TokenBucketAssumption, SMT DEF WindowMs
<1>2. 2 * WindowSeconds + TtlSlack \in Nat
  BY TokenBucketAssumption
<1>3. TtlMs \in Nat
  BY <1>2, TokenBucketAssumption, SMT DEF TtlMs
<1> QED BY <1>1, <1>3, TokenBucketAssumption

\* The key lives for at least two windows.
LEMMA TtlCoversTwoWindows == 2 * WindowMs <= TtlMs
<1>1. 2 * WindowMs = (2 * WindowSeconds) * MsPerSecond
  BY TokenBucketAssumption, SMT DEF WindowMs
<1>2. TtlMs = (2 * WindowSeconds) * MsPerSecond + TtlSlack * MsPerSecond
  BY TokenBucketAssumption, SMT DEF TtlMs
<1>3. TtlSlack * MsPerSecond \in Nat
  BY TokenBucketAssumption, SMT
<1> QED BY <1>1, <1>2, <1>3, WindowMsNat, SMT

\* The product is split into quotient and remainder, and still nothing is lost:
\* what is credited in e milliseconds is exactly the whole units they earn.
LEMMA CreditIsExact ==
    ASSUME NEW e \in Nat
    PROVE  Credit(e) \in Nat /\ Credit(e) = (Capacity * e) \div WindowMs
<1> DEFINE W == WindowMs
           C == Capacity
           q == e \div W
           r == e % W
           u == C \div W
           v == C % W
           p == (v * r) \div W
<1>1. W \in Nat \ {0} /\ C \in Nat \ {0}
  BY WindowMsNat
<1>2. q \in Nat /\ r \in Nat /\ r < W /\ e = W * q + r
  BY <1>1, DivisionFacts
<1>3. u \in Nat /\ v \in Nat /\ v < W /\ C = W * u + v
  BY <1>1, DivisionFacts
<1>4. Credit(e) = q * C + u * r + p
  BY DEF Credit, UnitsPerMs, PartialProduct, Remainder
<1> HIDE DEF W, C, q, r, u, v
<1>5. v * r \in Nat /\ q * C \in Nat /\ u * r \in Nat
  BY <1>1, <1>2, <1>3, SMT
<1>6. p \in Nat /\ W * p <= v * r /\ v * r < W * p + W
  <2>1. \A n \in Nat : n \div W \in Nat /\ W * (n \div W) <= n /\ n < W * (n \div W) + W
    BY <1>1, DivisionFacts, FloorFacts
  <2> QED BY <1>5, <2>1
<1> HIDE DEF p
<1>7. C * e = C * (W * q) + C * r
  BY <1>1, <1>2, SMT
<1>8. C * (W * q) = W * (q * C)
  BY <1>1, <1>2, SMT
<1>9. C * r = W * (u * r) + v * r
  BY <1>2, <1>3, <1>1, SMT
<1>10. W * (q * C + u * r + p) = W * (q * C) + W * (u * r) + W * p
  BY <1>1, <1>2, <1>3, <1>5, <1>6, SMT
<1> DEFINE k == q * C + u * r + p
<1>11. k \in Nat /\ C * e \in Nat /\ W * (q * C) \in Nat /\ W * (u * r) \in Nat /\ W * p \in Nat
  BY <1>1, <1>2, <1>3, <1>5, <1>6, SMT
<1>12. W * k <= C * e /\ C * e < W * k + W
  BY <1>1, <1>5, <1>6, <1>7, <1>8, <1>9, <1>10, <1>11, SMT
<1>13. (C * e) \div W = k
  BY <1>1, <1>11, <1>12, FloorIsUnique
<1> QED BY <1>4, <1>11, <1>13 DEF W, C

LEMMA CreditFacts ==
    ASSUME NEW e \in Nat
    PROVE  /\ Credit(e) \in Nat /\ Capacity * e \in Nat
           /\ WindowMs * Credit(e) <= Capacity * e
           /\ Capacity * e < WindowMs * Credit(e) + WindowMs
           /\ \A m \in Int : m <= Credit(e) <=> WindowMs * m <= Capacity * e
<1>1. Capacity * e \in Nat
  BY WindowMsNat, SMT
<1>2. \A m \in Int : m <= (Capacity * e) \div WindowMs <=> WindowMs * m <= Capacity * e
  BY <1>1, WindowMsNat, FloorAtLeast
<1>3. LET k == (Capacity * e) \div WindowMs
      IN  WindowMs * k <= Capacity * e /\ Capacity * e < WindowMs * k + WindowMs
  BY <1>1, WindowMsNat, FloorFacts
<1> QED BY <1>1, <1>2, <1>3, CreditIsExact

LEMMA CreditOfPhase ==
    ASSUME NEW e \in 0..WindowMs
    PROVE  Credit(e) \in 0..Capacity
<1>1. e \in Nat /\ e <= WindowMs
  BY WindowMsNat
<1>2. Capacity * e <= Capacity * WindowMs
  BY <1>1, WindowMsNat, ProductMonotone
<1>3. WindowMs * Credit(e) < WindowMs * Capacity + WindowMs
  <2>1. WindowMs * Credit(e) <= Capacity * e /\ Credit(e) \in Nat /\ Capacity * e \in Nat
    BY <1>1, CreditFacts
  <2>2. /\ Capacity * WindowMs = WindowMs * Capacity /\ WindowMs \in Nat \ {0}
        /\ WindowMs * Credit(e) \in Nat /\ WindowMs * Capacity \in Nat
    BY <2>1, WindowMsNat, SMT
  <2> QED BY <1>2, <2>1, <2>2
<1>4. Credit(e) <= Capacity
  BY <1>1, <1>3, CreditFacts, WindowMsNat, ProductOrder
<1> QED BY <1>1, <1>4, CreditFacts, WindowMsNat

-----------------------------------------------------------------------------
(* The inductive invariant.  IntervalBound alone is not inductive: it      *)
(* needs that the meter leaves room for what the bucket is worth now, and  *)
(* that a key only expires after as much has flowed in as fills a bucket.  *)

LastWrite == expiry - TtlMs

\* What the bucket is worth, in 1/WindowMs of a token: its tokens and what has
\* flowed in since its origin but not been credited yet.
Worth(tokens, origin, units) ==
    tokens * WindowMs + AtLeast0((now - origin) * Capacity - units * WindowMs)
Value == Least(Capacity * WindowMs, Worth(Stored.tokens, Stored.origin, Stored.units))

KeyAlive == expiry # NoKey => now <= expiry

MeterLeavesRoom == meter.granted * WindowMs + Value <= Capacity * (WindowMs + meter.passed)

NothingGrantedSince ==
    expiry # NoKey /\ meter.granted > 0 =>
        meter.granted * WindowMs <= Capacity * (WindowMs + meter.passed - (now - LastWrite))

IInv ==
    /\ TypeOK
    /\ BookkeepingBounded
    /\ KeyAlive
    /\ MeterLeavesRoom
    /\ NothingGrantedSince

-----------------------------------------------------------------------------
(* What a refill does, whatever the clock did before.                      *)

LEMMA StoredFacts ==
    ASSUME TypeOK, BookkeepingBounded
    PROVE  /\ now \in Nat
           /\ Stored \in [tokens : 0..Capacity, origin : Nat, units : 0..Capacity]
BY WindowMsNat, TokenBucketAssumption DEF TypeOK, BookkeepingBounded, Stored, Bucket

LEMMA IdleFacts ==
    ASSUME TypeOK, BookkeepingBounded
    PROVE  /\ Idle \in Nat /\ WholeWindows \in Nat /\ Phase \in 0..(WindowMs - 1)
           /\ Idle = WholeWindows * WindowMs + Phase
           /\ WholeWindows * Capacity \in Nat /\ WholeWindows * WindowMs \in Nat
           /\ Accrued \in 0..Capacity /\ UnitsCarried \in Int /\ UnitsCarried <= Capacity
           /\ Origin \in Nat
<1>0. /\ now \in Nat /\ Stored.tokens \in 0..Capacity /\ Stored.origin \in Nat
      /\ Stored.units \in 0..Capacity /\ WindowMs \in Nat \ {0} /\ Capacity \in Nat \ {0}
  BY StoredFacts, WindowMsNat
<1>1. Idle \in Nat
  BY <1>0 DEF Idle, AtLeast0
<1>2. /\ WholeWindows \in Nat /\ Phase \in 0..(WindowMs - 1)
      /\ Idle = WindowMs * WholeWindows + Phase
  BY <1>0, <1>1, DivisionFacts DEF WholeWindows, Phase
<1>3. /\ WholeWindows * Capacity \in Nat /\ WholeWindows * WindowMs \in Nat
      /\ WindowMs * WholeWindows = WholeWindows * WindowMs
  BY <1>0, <1>2, SMT
<1>4. Accrued \in 0..Capacity
  BY <1>0, <1>2, CreditOfPhase DEF Accrued
<1>5. UnitsCarried \in Int /\ UnitsCarried <= Capacity /\ Origin \in Nat
  BY <1>0, <1>3 DEF UnitsCarried, Origin
<1> QED BY <1>1, <1>2, <1>3, <1>4, <1>5

LEMMA RefilledFacts ==
    ASSUME TypeOK, BookkeepingBounded
    PROVE  /\ Tokens \in 0..Capacity
           /\ Refilled \in [tokens : 0..Capacity, origin : Nat, units : 0..Capacity]
           /\ Refilled.tokens = Tokens
           /\ now - Refilled.origin < WindowMs
           /\ RefillPhase \in 0..(WindowMs - 1)
<1>0. /\ now \in Nat /\ Stored.tokens \in 0..Capacity /\ Stored.origin \in Nat
      /\ WindowMs \in Nat \ {0} /\ Capacity \in Nat \ {0}
  BY StoredFacts, WindowMsNat
<1>1. Earned \in Nat
  BY IdleFacts DEF Earned, AtLeast0
<1>2. Tokens \in 0..Capacity
  BY <1>0, <1>1 DEF Tokens, Least
<1>3. Greatest(UnitsCarried, Accrued) \in 0..Capacity
  BY IdleFacts, <1>0 DEF Greatest
<1>4. now - Origin < WindowMs
  BY <1>0, IdleFacts DEF Idle, AtLeast0, Origin
<1>5. RefillPhase \in 0..(WindowMs - 1)
  <2>1. Phase \in 0..(WindowMs - 1) /\ 0 \in 0..(WindowMs - 1)
    BY <1>0, IdleFacts
  <2> QED BY <2>1 DEF RefillPhase
<1>6. CASE Tokens = Capacity
  BY <1>0, <1>2, <1>5, <1>6 DEF Refilled, Bucket
<1>7. CASE Tokens # Capacity
  <2>1. Refilled = [tokens |-> Tokens, origin |-> Origin, units |-> Greatest(UnitsCarried, Accrued)]
    BY <1>7 DEF Refilled, Bucket
  <2>2. Origin \in Nat
    BY IdleFacts
  <2> QED BY <1>2, <1>3, <1>4, <1>5, <2>1, <2>2
<1> QED BY <1>6, <1>7

\* The arithmetic of a refill: T tokens, U units credited since O, at time t,
\* which is k whole windows and a phase p after O unless the clock was set back,
\* and a the units credited in the phase.  Either the bucket is full, or its
\* tokens with the e earned ones are all that it is worth, but for a rest r.
RefillIsFair(W, C, t, O, T, U, k, p, a) ==
    LET u == U - k * C
        e == AtLeast0(a - u)
        v == Least(C * W, T * W + AtLeast0((t - O) * C - U * W))
        r == AtLeast0((t - (O + k * W)) * C - Greatest(u, a) * W)
    IN  /\ T + e >= C => v = C * W
        /\ T + e < C => v = (T + e) * W + r /\ r < W /\ v <= C * W
        /\ r \in Nat

LEMMA RefillArithmetic ==
    ASSUME NEW W \in Nat \ {0}, NEW C \in Nat \ {0}, NEW t \in Nat, NEW O \in Nat,
           NEW T \in 0..C, NEW U \in 0..C, NEW k \in Nat, NEW p \in 0..(W - 1), NEW a \in 0..C,
           W * a <= C * p, C * p < W * a + W,
           AtLeast0(t - O) = k * W + p
    PROVE  RefillIsFair(W, C, t, O, T, U, k, p, a)
<1> DEFINE u == U - k * C
           d == t - O
           e == AtLeast0(a - u)
           x == d * C - U * W
           y == C * p - a * W
           r == AtLeast0((t - (O + k * W)) * C - Greatest(u, a) * W)
<1>1. /\ T \in Int /\ U \in Int /\ a \in Int /\ p \in Int /\ 0 <= T /\ T <= C /\ 0 <= U /\ U <= C
      /\ 0 <= a /\ a <= C /\ 0 <= p /\ p < W /\ d \in Int
  OBVIOUS
<1>2. /\ T * W \in Int /\ U * W \in Int /\ a * W \in Int /\ C * W \in Int /\ C * p \in Int
      /\ k * C \in Int /\ k * W \in Int /\ (k * C) * W \in Int /\ d * C \in Int /\ u \in Int
      /\ a * W = W * a
  BY <1>1, SMT
<1>3. 0 <= y /\ y < W /\ y \in Int /\ x \in Int
  BY <1>1, <1>2
<1>4. u * W = U * W - (k * C) * W
  BY <1>1, <1>2, SMT
<1>5. /\ d >= 0 /\ a >= u => x = y + (a - u) * W /\ r = y /\ e = a - u
      /\ d >= 0 /\ a < u => x < 0 /\ r = 0 /\ e = 0
  <2> SUFFICES ASSUME d >= 0
               PROVE  /\ a >= u => x = y + (a - u) * W /\ r = y /\ e = a - u
                      /\ a < u => x < 0 /\ r = 0 /\ e = 0
    OBVIOUS
  <2>1. d = k * W + p /\ t - (O + k * W) = p
    BY <1>1, <1>2 DEF AtLeast0
  <2>2. d * C = (k * C) * W + C * p
    BY <1>1, <2>1, SMT
  <2>3. (a - u) * W = a * W - u * W
    BY <1>1, <1>2, SMT
  <2>4. x = y + (a - u) * W
    BY <1>1, <1>2, <1>4, <2>2, <2>3
  <2>5. (t - (O + k * W)) * C = C * p
    BY <1>1, <2>1, SMT
  <2>6. ASSUME a >= u PROVE r = y /\ e = a - u
    BY <1>1, <1>2, <1>3, <2>5, <2>6 DEF AtLeast0, Greatest
  <2>7. ASSUME a < u PROVE x < 0 /\ r = 0 /\ e = 0
    <3>1. a + 1 <= u
      BY <1>1, <1>2, <2>7
    <3>2. W * (a + 1) <= W * u
      BY <1>1, <1>2, <3>1, ProductMonotone
    <3>3. W * (a + 1) = a * W + W /\ W * u = u * W /\ u * W \in Int
      BY <1>1, <1>2, SMT
    <3>4. u * W >= a * W + W
      BY <3>2, <3>3
    <3>5. x < 0
      BY <1>2, <1>3, <2>3, <2>4, <3>3, <3>4
    <3>6. r = 0
      BY <1>1, <1>2, <2>5, <2>7, <3>3, <3>4 DEF AtLeast0, Greatest
    <3> QED BY <1>1, <1>2, <2>7, <3>5, <3>6 DEF AtLeast0
  <2> QED BY <2>4, <2>6, <2>7
<1>6. d < 0 => x <= 0 /\ r = 0 /\ e = 0
  <2> SUFFICES ASSUME d < 0 PROVE x <= 0 /\ r = 0 /\ e = 0
    OBVIOUS
  <2>1. k * W = 0 /\ p = 0 /\ k = 0
    <3>1. k * W >= 0 /\ k * W + p = 0
      BY <1>1, <1>2, SMT DEF AtLeast0
    <3>2. k * W = 0 /\ p = 0
      BY <1>1, <1>2, <3>1
    <3> QED BY <1>1, <3>2, SMT
  <2>2. a = 0 /\ u = U
    <3>1. W * a <= 0
      BY <2>1, SMT
    <3> QED BY <1>1, <2>1, <3>1, SMT
  <2>3. d * C <= 0 /\ U * W >= 0
    BY <1>1, SMT
  <2>4. Greatest(u, a) = U /\ e = 0
    BY <1>1, <2>2 DEF Greatest, AtLeast0
  <2>5. x <= 0
    BY <1>2, <2>3
  <2>6. r = AtLeast0(d * C - U * W)
    BY <1>1, <2>1, <2>4
  <2> QED BY <1>2, <2>3, <2>4, <2>5, <2>6 DEF AtLeast0
<1> HIDE DEF u, d, e, x, y, r
<1>7. e \in Nat /\ r \in Nat /\ r < W /\ AtLeast0(x) = e * W + r
  <2>1. CASE d >= 0 /\ a >= u
    <3>1. (a - u) * W \in Int /\ (a - u) * W >= 0 /\ a - u \in Nat
      BY <1>1, <1>2, <2>1, SMT
    <3> QED BY <1>3, <1>5, <2>1, <3>1 DEF AtLeast0
  <2>2. CASE d >= 0 /\ a < u
    <3>1. x < 0 /\ r = 0 /\ e = 0
      BY <1>5, <2>2
    <3> QED BY <1>3, <3>1 DEF AtLeast0
  <2>3. CASE d < 0
    <3>1. x <= 0 /\ r = 0 /\ e = 0
      BY <1>6, <2>3
    <3>2. AtLeast0(x) = 0
      BY <1>3, <3>1 DEF AtLeast0
    <3> QED BY <3>1, <3>2
  <2> QED BY <1>1, <1>2, <2>1, <2>2, <2>3
<1>8. T * W + AtLeast0(x) = (T + e) * W + r /\ e * W \in Int /\ (T + e) * W \in Int
  BY <1>1, <1>7, SMT
<1>9. T + e >= C => C * W <= (T + e) * W
  <2>1. T + e >= C => W * C <= W * (T + e)
    BY <1>1, <1>7, ProductMonotone
  <2>2. W * C = C * W /\ W * (T + e) = (T + e) * W
    BY <1>1, <1>7, SMT
  <2> QED BY <2>1, <2>2
<1>10. T + e < C => (T + e) * W + W <= C * W
  <2>1. T + e < C => W * (T + e + 1) <= W * C
    BY <1>1, <1>7, ProductMonotone
  <2>2. W * C = C * W /\ W * (T + e + 1) = (T + e) * W + W
    BY <1>1, <1>7, SMT
  <2> QED BY <2>1, <2>2
<1>11. T + e >= C => Least(C * W, T * W + AtLeast0(x)) = C * W
  BY <1>2, <1>7, <1>8, <1>9 DEF Least
<1>12. T + e < C => Least(C * W, T * W + AtLeast0(x)) = (T + e) * W + r /\ (T + e) * W + r <= C * W
  BY <1>2, <1>7, <1>8, <1>10 DEF Least
<1> QED BY <1>7, <1>11, <1>12 DEF u, d, e, x, r, RefillIsFair

\* A refill changes how the bucket is written down, not what it is worth: no
\* fraction of a token is lost and none is given, and the whole tokens it finds
\* are all there are.
LEMMA RefillKeepsWorth ==
    ASSUME TypeOK, BookkeepingBounded
    PROVE  /\ Value \in Nat /\ Value <= Capacity * WindowMs
           /\ Worth(Refilled.tokens, Refilled.origin, Refilled.units) = Value
           /\ Tokens * WindowMs <= Value /\ Value < Tokens * WindowMs + WindowMs
<1> DEFINE W == WindowMs
           C == Capacity
           T == Stored.tokens
           O == Stored.origin
           U == Stored.units
           k == WholeWindows
           u == U - k * C
           e == AtLeast0(Accrued - u)
           r == AtLeast0((now - (O + k * W)) * C - Greatest(u, Accrued) * W)
<1>0. /\ now \in Nat /\ T \in 0..C /\ O \in Nat /\ U \in 0..C
      /\ W \in Nat \ {0} /\ C \in Nat \ {0}
  BY StoredFacts, WindowMsNat
<1>1. /\ k \in Nat /\ Phase \in 0..(W - 1) /\ AtLeast0(now - O) = k * W + Phase
      /\ Accrued \in 0..C
  BY IdleFacts DEF Idle
<1>2. W * Accrued <= C * Phase /\ C * Phase < W * Accrued + W
  <2>1. Phase \in Nat
    BY <1>1, <1>0
  <2> QED BY <2>1, CreditFacts DEF Accrued
<1>3. /\ Tokens = Least(C, T + e)
      /\ Refilled.tokens = Tokens
      /\ Tokens = C => Refilled.origin = now /\ Refilled.units = 0
      /\ Tokens # C => Refilled.origin = O + k * W /\ Refilled.units = Greatest(u, Accrued)
      /\ Value = Least(C * W, T * W + AtLeast0((now - O) * C - U * W))
  BY DEF Tokens, Earned, UnitsCarried, Refilled, Bucket, Origin, Value, Worth
<1> HIDE DEF W, C, T, O, U, k
<1>4. /\ T + e >= C => Value = C * W
      /\ T + e < C => Value = (T + e) * W + r /\ r < W /\ Value <= C * W
      /\ r \in Nat
  <2>1. RefillIsFair(W, C, now, O, T, U, k, Phase, Accrued)
    BY ONLY <1>0, <1>1, <1>2, RefillArithmetic, Zenon
  <2> QED BY ONLY <1>3, <2>1, Zenon DEF RefillIsFair
<1>5. C * W \in Nat /\ Tokens \in 0..C
  BY <1>0, RefilledFacts, SMT DEF C
<1>6. e \in Int
  BY <1>0, <1>1, IdleFacts DEF AtLeast0
<1>7. CASE T + e >= C
  <2>1. Tokens = C
    BY <1>0, <1>3, <1>6, <1>7 DEF Least
  <2>2. Worth(Tokens, now, 0) = C * W
    <3>1. (now - now) * C - 0 * W = 0
      BY <1>0, SMT
    <3> QED BY <1>0, <1>5, <2>1, <3>1 DEF Worth, AtLeast0, W, C
  <2> QED BY <1>0, <1>3, <1>4, <1>5, <1>7, <2>1, <2>2 DEF W, C
<1>8. CASE T + e < C
  <2>1. Tokens = T + e /\ Tokens # C
    BY <1>0, <1>3, <1>6, <1>8 DEF Least
  <2>2. Worth(Refilled.tokens, Refilled.origin, Refilled.units) = Tokens * W + r
    BY <1>3, <2>1 DEF Worth, W, C
  <2>3. Tokens * W \in Nat
    BY <1>0, <1>5, SMT
  <2> QED BY <1>0, <1>4, <1>8, <2>1, <2>2, <2>3 DEF W, C
<1> QED BY <1>0, <1>6, <1>7, <1>8

-----------------------------------------------------------------------------
(* Deadlines.                                                              *)

\* The search finds the first delay that credits n units, and within a window
\* there is one.
LEMMA RefillDelayFacts ==
    ASSUME RefillPhase \in 0..(WindowMs - 1), NEW n \in Int, n <= Capacity
    PROVE  /\ RefillDelay(n) \in 0..WindowMs
           /\ \A d \in 0..WindowMs :
                  RefillDelay(n) <= d
                      <=> WindowMs * (n + Credit(RefillPhase)) <= Capacity * (RefillPhase + d)
<1> DEFINE W == WindowMs
           C == Capacity
           p == RefillPhase
           need == n + Credit(p)
           good == {d \in 0..W : Credit(p + d) - Credit(p) >= n}
<1>1. W \in Nat \ {0} /\ C \in Nat \ {0} /\ p \in Nat /\ Credit(p) \in Nat /\ need \in Int
  BY WindowMsNat, CreditFacts
<1>2. RefillDelay(n) = FirstIn(good, 0, W)
  BY DEF RefillDelay
<1>3. ASSUME NEW d \in 0..W PROVE d \in good <=> W * need <= C * (p + d)
  <2>0. p + d \in Nat
    BY <1>1
  <2>1. Credit(p + d) \in Nat
    BY <2>0, CreditFacts
  <2>2. need <= Credit(p + d) <=> W * need <= C * (p + d)
    BY <1>1, <2>0, CreditFacts
  <2>3. d \in good <=> need <= Credit(p + d)
    BY <1>1, <2>1
  <2> QED BY <2>2, <2>3
<1> HIDE DEF W, C, p, need, good
<1>4. W \in good
  <2>1. W * Credit(p) <= C * p
    BY <1>1, CreditFacts DEF W, C
  <2>2. W * n <= W * C
    BY <1>1, ProductMonotone DEF C
  <2>3. W * need = W * n + W * Credit(p) /\ C * (p + W) = C * p + W * C
    BY <1>1, SMT DEF need
  <2>4. W * n \in Int /\ W * Credit(p) \in Int /\ C * p \in Int /\ W * C \in Int
    BY <1>1, SMT
  <2> QED BY <1>1, <1>3, <2>1, <2>2, <2>3, <2>4
<1>5. ASSUME NEW i \in 0..W, NEW j \in 0..W, i <= j, i \in good PROVE j \in good
  <2>1. C * (p + i) <= C * (p + j) /\ C * (p + i) \in Int /\ C * (p + j) \in Int
    BY <1>1, <1>5, ProductMonotone
  <2>2. W * need \in Int
    BY <1>1, SMT
  <2> QED BY <1>3, <1>5, <2>1, <2>2
<1>6. /\ FirstIn(good, 0, W) \in 0..W
      /\ \A d \in 0..W : d \in good <=> FirstIn(good, 0, W) <= d
  BY <1>1, <1>4, <1>5, SearchFindsFirst
<1> QED BY <1>2, <1>3, <1>6 DEF W, C, p, need

LEMMA FirstSecondFacts ==
    ASSUME NEW t \in Nat
    PROVE  FirstSecond(t) \in Nat
BY TokenBucketAssumption, DivisionFacts DEF FirstSecond, Ceiling

-----------------------------------------------------------------------------
(* The steps, whether or not the clock is set back.                        *)

LEMMA ValueFacts ==
    ASSUME TypeOK, BookkeepingBounded
    PROVE  Value \in Nat /\ Value <= Capacity * WindowMs /\ Capacity * WindowMs \in Nat
BY RefillKeepsWorth, WindowMsNat, SMT

\* What is written down is worth no more at an earlier time, and in d
\* milliseconds gains no more than flows in.
TimeMoves(W, C, T, O, U, t, t2) ==
    LET v == Least(C * W, T * W + AtLeast0((t - O) * C - U * W))
        v2 == Least(C * W, T * W + AtLeast0((t2 - O) * C - U * W))
    IN  /\ t2 <= t => v2 <= v
        /\ t <= t2 => v2 <= v + C * (t2 - t)

LEMMA TimeArithmetic ==
    ASSUME NEW W \in Nat \ {0}, NEW C \in Nat \ {0}, NEW T \in Int, NEW O \in Int,
           NEW U \in Int, NEW t \in Int, NEW t2 \in Int
    PROVE  TimeMoves(W, C, T, O, U, t, t2)
<1> DEFINE x == (t - O) * C
           y == (t2 - O) * C
           g == C * (t2 - t)
<1>1. x \in Int /\ y \in Int /\ g \in Int /\ C * W \in Int /\ T * W \in Int /\ U * W \in Int
  BY SMT
<1>2. y = x + g
  BY SMT
<1>3. (t <= t2 => g >= 0) /\ (t2 <= t => g <= 0)
  BY SMT
<1> HIDE DEF x, y, g
<1>4. t2 <= t => Least(C * W, T * W + AtLeast0(y - U * W)) <= Least(C * W, T * W + AtLeast0(x - U * W))
  BY <1>1, <1>2, <1>3 DEF Least, AtLeast0
<1>5. t <= t2 => Least(C * W, T * W + AtLeast0(y - U * W))
                     <= Least(C * W, T * W + AtLeast0(x - U * W)) + g
  BY <1>1, <1>2, <1>3 DEF Least, AtLeast0
<1> QED BY <1>4, <1>5 DEF TimeMoves, x, y, g

\* A check writes down what it decided on: the bucket is worth what it was
\* worth before, less the cost granted.
LEMMA WriteKeepsWorth ==
    ASSUME TypeOK, BookkeepingBounded, NEW c \in 0..Tokens, Write(Tokens - c), now' = now
    PROVE  /\ bucket' \in [tokens : 0..Capacity, origin : Nat, units : Int]
           /\ expiry' \in Nat /\ LastWrite' = now
           /\ BookkeepingBounded' /\ KeyAlive'
           /\ Value' = Value - c * WindowMs /\ Value' >= 0 /\ c * WindowMs \in Nat
<1> DEFINE W == WindowMs
           R == Refilled
<1>1. /\ W \in Nat \ {0} /\ Capacity \in Nat \ {0} /\ TtlMs \in Nat /\ now \in Nat
      /\ Tokens \in 0..Capacity /\ c \in Nat
  BY WindowMsNat, StoredFacts, RefilledFacts
<1>2. /\ R \in [tokens : 0..Capacity, origin : Nat, units : 0..Capacity] /\ R.tokens = Tokens
      /\ now - R.origin < W
  BY RefilledFacts
<1>3. /\ bucket' = [tokens |-> Tokens - c, origin |-> R.origin, units |-> R.units]
      /\ expiry' = now + TtlMs
  BY <1>2 DEF Write
<1> HIDE DEF R
<1>4. expiry' \in Nat /\ expiry' # NoKey /\ expiry' - TtlMs = now /\ now' <= expiry'
  BY <1>1, <1>3 DEF NoKey
<1>5. bucket' \in [tokens : 0..Capacity, origin : Nat, units : 0..Capacity]
  BY <1>1, <1>2, <1>3
<1>6. BookkeepingBounded'
  <2>1. bucket'.units \in 0..Capacity
    BY <1>5
  <2>2. expiry' - TtlMs - bucket'.origin < WindowMs
    BY <1>2, <1>3, <1>4
  <2> QED BY <2>1, <2>2 DEF BookkeepingBounded, TtlMs, WindowMs
<1>7. Stored' = [tokens |-> Tokens - c, origin |-> R.origin, units |-> R.units]
  BY <1>3, <1>4 DEF Stored
<1>8. Value' = Least(Capacity * W,
                     (Tokens - c) * W + AtLeast0((now - R.origin) * Capacity - R.units * W))
  BY <1>7 DEF Value, Worth, WindowMs
<1>9. Value = Tokens * W + AtLeast0((now - R.origin) * Capacity - R.units * W)
  BY <1>2, RefillKeepsWorth DEF Worth, R
<1> DEFINE x == AtLeast0((now - R.origin) * Capacity - R.units * W)
<1>10. x \in Nat
  <2>1. (now - R.origin) * Capacity \in Int /\ R.units * W \in Int
    BY <1>1, <1>2, SMT
  <2> QED BY <2>1 DEF AtLeast0
<1>11. (Tokens - c) * W = Tokens * W - c * W /\ (Tokens - c) * W \in Nat /\ c * W \in Nat /\ Tokens * W \in Nat
  <2>1. Tokens - c \in Nat
    BY <1>1
  <2>2. (Tokens - c) * W \in Nat /\ c * W \in Nat /\ Tokens * W \in Nat
    BY <1>1, <2>1, SMT
  <2> QED BY <1>1, <2>2, SMT
<1>12. Value <= Capacity * W /\ Capacity * W \in Nat
  BY ValueFacts
<1> HIDE DEF W, x
<1>13. Value' = Value - c * W /\ Value' >= 0
  <2>1. Value = Tokens * W + x /\ Value' = Least(Capacity * W, (Tokens - c) * W + x)
    BY <1>8, <1>9 DEF x
  <2> QED BY <1>10, <1>11, <1>12, <2>1 DEF Least
<1>14. LastWrite' = now
  BY <1>4 DEF LastWrite, TtlMs
<1> QED BY <1>4, <1>5, <1>6, <1>11, <1>13, <1>14 DEF KeyAlive, W

LEMMA MeterFacts ==
    ASSUME TypeOK
    PROVE  /\ meter \in [granted : Nat, passed : Nat] /\ meter.granted \in Nat /\ meter.passed \in Nat
           /\ meter.granted * WindowMs \in Nat /\ Capacity * (WindowMs + meter.passed) \in Nat
           /\ Capacity * (WindowMs + meter.passed) = Capacity * WindowMs + Capacity * meter.passed
<1>1. meter \in [granted : Nat, passed : Nat] /\ meter.granted \in Nat /\ meter.passed \in Nat
  BY DEF TypeOK
<1> QED BY <1>1, WindowMsNat, SMT

LEMMA DenyOversizedStep ==
    ASSUME IInv, NEW c \in Costs, DenyOversized(c)
    PROVE  IInv'
<1>1. reply' \in [cost : Nat, allowed : BOOLEAN, remaining : 0..Capacity,
                  retry : Nat \cup {-1}, resetAt : Nat]
  BY TokenBucketAssumption, RefilledFacts DEF IInv, DenyOversized, Reply
<1>2. UNCHANGED <<now, bucket, expiry, meter>>
  BY DEF DenyOversized
<1>3. UNCHANGED <<Stored, Value>>
  BY <1>2 DEF Stored, Value, Worth
<1> QED BY <1>1, <1>2, <1>3 DEF IInv, TypeOK, BookkeepingBounded, KeyAlive, MeterLeavesRoom,
           NothingGrantedSince, LastWrite

LEMMA AdmitStep ==
    ASSUME IInv, NEW c \in Costs, Admit(c)
    PROVE  IInv'
<1> DEFINE g == meter.granted
           W == WindowMs
           room == Capacity * (W + meter.passed)
<1>1. /\ c \in Nat /\ Tokens \in 0..Capacity /\ c \in 0..Tokens /\ Tokens - c \in 0..Capacity
      /\ now \in 0..Horizon /\ now \in Nat /\ Capacity \in Nat
  BY TokenBucketAssumption, RefilledFacts DEF IInv, Admit, TypeOK
<1>2. Write(Tokens - c) /\ now' = now
  BY DEF Admit
<1>3. /\ bucket' \in [tokens : 0..Capacity, origin : Nat, units : Int]
      /\ expiry' \in Nat /\ LastWrite' = now
      /\ BookkeepingBounded' /\ KeyAlive'
      /\ Value' = Value - c * W /\ Value' >= 0 /\ c * W \in Nat
  BY <1>1, <1>2, WriteKeepsWorth DEF IInv
<1>4. meter' = [granted |-> g + c, passed |-> meter.passed] /\ g \in Nat /\ meter.passed \in Nat
  BY MeterFacts DEF Admit, IInv
<1>5. RefillDelay(Capacity - (Tokens - c)) \in 0..W
  BY <1>1, RefilledFacts, RefillDelayFacts DEF IInv
<1>6. FirstSecond(now + RefillDelay(Capacity - (Tokens - c))) \in Nat
  BY <1>1, <1>5, WindowMsNat, FirstSecondFacts
<1>7. reply' \in [cost : Nat, allowed : BOOLEAN, remaining : 0..Capacity,
                  retry : Nat \cup {-1}, resetAt : Nat]
  BY <1>1, <1>6 DEF Admit, Reply
<1>8. TypeOK'
  BY <1>1, <1>2, <1>3, <1>4, <1>7 DEF TypeOK
<1>9. /\ (g + c) * W = g * W + c * W /\ g * W \in Nat /\ room \in Nat /\ Value \in Nat
  BY <1>1, <1>4, MeterFacts, ValueFacts, WindowMsNat, SMT DEF IInv
<1>10. meter'.granted = g + c /\ meter'.passed = meter.passed
  BY <1>4
<1>11. g * W + Value <= room
  BY DEF IInv, MeterLeavesRoom
<1>12. MeterLeavesRoom'
  <2>1. (g + c) * W + Value' <= room
    BY <1>3, <1>9, <1>11
  <2> QED BY <1>10, <2>1 DEF MeterLeavesRoom, WindowMs
<1>13. NothingGrantedSince'
  <2>1. (g + c) * W <= room
    BY <1>3, <1>9, <1>11
  <2>2. W + meter.passed - (now - now) = W + meter.passed
    BY <1>1, <1>4, WindowMsNat
  <2> QED BY <1>2, <1>3, <1>10, <2>1, <2>2 DEF NothingGrantedSince, WindowMs
<1> QED BY <1>3, <1>8, <1>12, <1>13 DEF IInv

LEMMA DenyStep ==
    ASSUME IInv, NEW c \in Costs, Deny(c)
    PROVE  IInv'
<1> DEFINE W == WindowMs
           retry == RefillDelay(c - Tokens)
           wholeSeconds == Greatest(1, FirstSecond(retry))
<1>1. /\ c \in Nat /\ Tokens \in 0..Capacity /\ c <= Capacity
      /\ now \in 0..Horizon /\ now \in Nat /\ Capacity \in Nat
  BY TokenBucketAssumption, RefilledFacts DEF IInv, Deny, TypeOK
<1>2. Write(Tokens - 0) /\ now' = now /\ meter' = meter /\ 0 \in 0..Tokens
  BY <1>1 DEF Deny
<1>3. /\ bucket' \in [tokens : 0..Capacity, origin : Nat, units : Int]
      /\ expiry' \in Nat /\ LastWrite' = now
      /\ BookkeepingBounded' /\ KeyAlive'
      /\ Value' = Value - 0 * W
  BY <1>2, WriteKeepsWorth DEF IInv
<1>4. retry \in 0..W
  BY <1>1, RefilledFacts, RefillDelayFacts DEF IInv
<1>5. wholeSeconds \in Nat
  BY <1>4, WindowMsNat, FirstSecondFacts DEF Greatest
<1>6. wholeSeconds * MsPerSecond \in Nat
  BY <1>5, TokenBucketAssumption, SMT
<1>7. FirstSecond(now + wholeSeconds * MsPerSecond) \in Nat
  BY <1>1, <1>6, FirstSecondFacts
<1> HIDE DEF wholeSeconds
<1>8. reply' \in [cost : Nat, allowed : BOOLEAN, remaining : 0..Capacity,
                  retry : Nat \cup {-1}, resetAt : Nat]
  <2>1. reply' = Reply(c, FALSE, Tokens, retry, FirstSecond(now + wholeSeconds * MsPerSecond))
    BY DEF Deny, wholeSeconds
  <2>2. retry \in Nat
    BY <1>4, WindowMsNat
  <2> HIDE DEF retry
  <2> QED BY <1>1, <1>7, <2>1, <2>2 DEF Reply
<1>9. TypeOK'
  BY <1>1, <1>2, <1>3, <1>8 DEF TypeOK, IInv
<1>10. Value' = Value /\ Value \in Nat
  BY <1>3, ValueFacts, WindowMsNat DEF IInv
<1>11. MeterLeavesRoom'
  BY <1>2, <1>10 DEF IInv, MeterLeavesRoom, WindowMs
<1>12. NothingGrantedSince'
  <2>1. meter.granted * W <= Capacity * (W + meter.passed)
    BY <1>10, MeterFacts DEF IInv, MeterLeavesRoom
  <2>2. W + meter.passed - (now - now) = W + meter.passed
    BY <1>1, MeterFacts, WindowMsNat DEF IInv
  <2> QED BY <1>2, <1>3, <2>1, <2>2 DEF NothingGrantedSince, WindowMs
<1> QED BY <1>3, <1>9, <1>11, <1>12 DEF IInv

\* A key that does not exist is a full bucket.
LEMMA NoKeyIsFull ==
    ASSUME now \in Nat, expiry = NoKey
    PROVE  Value = Capacity * WindowMs
<1>1. Stored = [tokens |-> Capacity, origin |-> now, units |-> 0]
  BY DEF Stored, Bucket
<1>2. (now - now) * Capacity - 0 * WindowMs = 0 /\ Capacity * WindowMs \in Nat
  BY WindowMsNat, SMT
<1> QED BY <1>1, <1>2 DEF Value, Worth, AtLeast0, Least

LEMMA ResetStep ==
    ASSUME IInv, Reset
    PROVE  IInv'
<1>1. TypeOK'
  BY WindowMsNat DEF IInv, TypeOK, Reset, Bucket, NoReply, Reply, NoKey
<1>2. expiry' = NoKey /\ now' = now /\ meter'.granted = 0 /\ meter'.passed = 0 /\ now \in Nat
  BY StoredFacts DEF Reset, IInv
<1>3. Value' = Capacity * WindowMs
  <2>1. Stored' = [tokens |-> Capacity, origin |-> now, units |-> 0]
    BY <1>2 DEF Stored, Bucket, NoKey
  <2>2. (now - now) * Capacity - 0 * WindowMs = 0 /\ Capacity * WindowMs \in Nat
    BY <1>2, WindowMsNat, SMT
  <2>3. Value' = Least(Capacity * WindowMs,
                       Capacity * WindowMs + AtLeast0((now - now) * Capacity - 0 * WindowMs))
    BY <1>2, <2>1 DEF Value, Worth, WindowMs
  <2> QED BY <2>2, <2>3 DEF AtLeast0, Least
<1>4. MeterLeavesRoom'
  <2>1. 0 * WindowMs = 0 /\ WindowMs + 0 = WindowMs /\ Capacity * WindowMs \in Nat
    BY WindowMsNat, SMT
  <2>2. 0 * WindowMs + Capacity * WindowMs <= Capacity * (WindowMs + 0)
    BY <2>1
  <2> QED BY <1>2, <1>3, <2>2 DEF MeterLeavesRoom, WindowMs
<1> QED BY <1>1, <1>2, <1>4 DEF IInv, BookkeepingBounded, KeyAlive, NothingGrantedSince, NoKey

LEMMA WatchStep ==
    ASSUME IInv, Watch
    PROVE  IInv'
<1>1. UNCHANGED <<now, bucket, expiry, reply>> /\ meter'.granted = 0 /\ meter'.passed = 0
      /\ meter' \in [granted : Nat, passed : Nat]
  BY DEF Watch
<1>2. UNCHANGED Value
  BY <1>1 DEF Value, Worth, Stored
<1>3. TypeOK'
  BY <1>1 DEF IInv, TypeOK
<1>4. MeterLeavesRoom'
  <2>1. 0 * WindowMs = 0 /\ WindowMs + 0 = WindowMs /\ Value \in Nat /\ Value <= Capacity * WindowMs
    BY WindowMsNat, ValueFacts, SMT DEF IInv
  <2>2. 0 * WindowMs + Value <= Capacity * (WindowMs + 0)
    BY <2>1
  <2> QED BY <1>1, <1>2, <2>2 DEF MeterLeavesRoom, WindowMs
<1> QED BY <1>1, <1>3, <1>4 DEF IInv, BookkeepingBounded, KeyAlive, NothingGrantedSince

\* Time passes.  When the key expires, more than two windows have gone since
\* its last write, and the meter has seen nothing granted in them.
LEMMA TickStep ==
    ASSUME IInv, NEW t \in 0..Horizon, Tick(t)
    PROVE  IInv'
<1> DEFINE W == WindowMs
           C == Capacity
           g == meter.granted
           d == t - now
           p == meter.passed
<1>1. /\ t > now /\ t \in Nat /\ now \in Nat /\ now' = t /\ d \in Nat /\ d > 0 /\ reply' = NoReply
      /\ W \in Nat \ {0} /\ C \in Nat \ {0} /\ TtlMs \in Nat
  BY TokenBucketAssumption, StoredFacts, WindowMsNat DEF Tick, IInv
<1>2. /\ meter' = [granted |-> g, passed |-> p + d] /\ g \in Nat /\ p \in Nat
      /\ g * W \in Nat /\ C * (W + p) \in Nat
  BY MeterFacts DEF Tick, IInv
<1>3. meter'.granted = g /\ meter'.passed = p + d /\ meter' \in [granted : Nat, passed : Nat]
  BY <1>1, <1>2
<1>4. NoReply \in [cost : Nat, allowed : BOOLEAN, remaining : 0..Capacity,
                   retry : Nat \cup {-1}, resetAt : Nat]
  BY WindowMsNat DEF NoReply, Reply
<1>5. C * (W + (p + d)) = C * (W + p) + C * d /\ C * d \in Nat
  BY <1>1, <1>2, SMT
<1>6. g * W + Value <= C * (W + p) /\ Value \in Nat /\ Value <= C * W
  BY ValueFacts DEF IInv, MeterLeavesRoom
<1>7. CASE expiry # NoKey /\ t > expiry
  <2>1. bucket' = Bucket(C, 0, 0) /\ expiry' = NoKey
    BY <1>7 DEF Tick
  <2>2. TypeOK'
    BY <1>1, <1>3, <1>4, <2>1 DEF TypeOK, Bucket
  <2>3. Value' = C * W
    <3>1. Stored' = [tokens |-> C, origin |-> t, units |-> 0]
      BY <1>1, <2>1 DEF Stored, Bucket, NoKey
    <3>2. (t - t) * C - 0 * W = 0 /\ C * W \in Nat
      BY <1>1, SMT
    <3>3. Value' = Least(C * W, C * W + AtLeast0((t - t) * C - 0 * W))
      BY <1>1, <3>1 DEF Value, Worth, WindowMs
    <3> QED BY <3>2, <3>3 DEF AtLeast0, Least
  <2>4. MeterLeavesRoom'
    <3>1. g * W + C * W <= C * (W + (p + d))
      <4>1. CASE g = 0
        <5>1. g * W = 0 /\ C * W <= C * (W + (p + d)) /\ C * W \in Nat
          BY <1>1, <1>2, <4>1, SMT
        <5>2. C * (W + (p + d)) \in Nat
          BY <1>2, <1>5
        <5> QED BY <5>1, <5>2
      <4>2. CASE g > 0
        <5> DEFINE since == now - LastWrite
        <5>1. expiry \in Nat
          BY <1>7 DEF IInv, TypeOK
        <5>2. since \in Int /\ since + d >= 2 * W
          BY <1>1, <1>7, <5>1, TtlCoversTwoWindows DEF LastWrite
        <5>3. g * W <= C * (W + p - since)
          BY <1>7, <4>2 DEF IInv, NothingGrantedSince
        <5> HIDE DEF since
        <5>4. (W + p - since) + W <= W + (p + d)
          BY <1>1, <1>2, <5>2
        <5>5. C * ((W + p - since) + W) <= C * (W + (p + d))
          BY <1>1, <1>2, <5>2, <5>4, ProductMonotone
        <5>6. /\ C * ((W + p - since) + W) = C * (W + p - since) + C * W
              /\ C * (W + p - since) \in Int /\ C * W \in Int
          BY <1>1, <1>2, <5>2, SMT
        <5>7. C * (W + (p + d)) \in Nat
          BY <1>2, <1>5
        <5> QED BY <1>2, <5>3, <5>5, <5>6, <5>7
      <4> QED BY <1>2, <4>1, <4>2
    <3> QED BY <1>3, <2>3, <3>1 DEF MeterLeavesRoom, WindowMs
  <2> QED BY <2>1, <2>2, <2>4 DEF IInv, BookkeepingBounded, KeyAlive, NothingGrantedSince
<1>8. CASE ~(expiry # NoKey /\ t > expiry)
  <2>1. bucket' = bucket /\ expiry' = expiry
    BY <1>8 DEF Tick
  <2>2. TypeOK'
    BY <1>1, <1>3, <1>4, <2>1 DEF IInv, TypeOK
  <2>3. Value' <= Value + C * d /\ Value' \in Nat
    <3>1. CASE expiry = NoKey
      <4>1. Stored' = [tokens |-> C, origin |-> t, units |-> 0]
        BY <1>1, <2>1, <3>1 DEF Stored, Bucket, NoKey
      <4>2. (t - t) * C - 0 * W = 0 /\ C * W \in Nat
        BY <1>1, SMT
      <4>3. Value' = Least(C * W, C * W + AtLeast0((t - t) * C - 0 * W))
        BY <1>1, <4>1 DEF Value, Worth, WindowMs
      <4>4. Value' = C * W
        BY <4>2, <4>3 DEF AtLeast0, Least
      <4> QED BY <1>1, <1>5, <3>1, <4>2, <4>4, NoKeyIsFull
    <3>2. CASE expiry # NoKey
      <4> DEFINE T == bucket.tokens
                 O == bucket.origin
                 U == bucket.units
      <4>1. T \in 0..C /\ O \in Nat /\ U \in Int
        BY DEF IInv, TypeOK
      <4>2. /\ Value = Least(C * W, T * W + AtLeast0((now - O) * C - U * W))
            /\ Value' = Least(C * W, T * W + AtLeast0((t - O) * C - U * W))
        BY <1>1, <2>1, <3>2 DEF Stored, Value, Worth, WindowMs, NoKey
      <4> HIDE DEF T, O, U, W, C, d
      <4>3. TimeMoves(W, C, T, O, U, now, t)
        <5>1. T \in Int /\ O \in Int /\ now \in Int /\ t \in Int
          BY <1>1, <4>1
        <5> QED BY ONLY <1>1, <4>1, <5>1, TimeArithmetic, Zenon
      <4>4. now <= t
        BY <1>1
      <4>5. Value' <= Value + C * (t - now)
        BY <4>2, <4>3, <4>4 DEF TimeMoves
      <4>6. Value' \in Nat
        <5>1. C * W \in Nat /\ T * W \in Nat /\ (t - O) * C \in Int /\ U * W \in Int
          BY <1>1, <4>1, SMT
        <5> QED BY <4>2, <5>1 DEF Least, AtLeast0
      <4> QED BY <4>5, <4>6 DEF d
    <3> QED BY <3>1, <3>2
  <2>4. MeterLeavesRoom'
    <3>1. g * W + Value' <= C * (W + (p + d))
      BY <1>2, <1>5, <1>6, <2>3
    <3> QED BY <1>3, <3>1 DEF MeterLeavesRoom, WindowMs
  <2>5. NothingGrantedSince'
    <3> SUFFICES ASSUME expiry # NoKey, g > 0
                 PROVE  g * W <= C * (W + (p + d) - (t - LastWrite))
      BY <1>1, <1>3, <2>1 DEF NothingGrantedSince, WindowMs, LastWrite, TtlMs, NoKey
    <3>1. LastWrite \in Int
      BY <1>1 DEF IInv, TypeOK, LastWrite
    <3>2. W + (p + d) - (t - LastWrite) = W + p - (now - LastWrite)
      BY <1>1, <1>2, <3>1
    <3> QED BY <3>2 DEF IInv, NothingGrantedSince
  <2>6. BookkeepingBounded' /\ KeyAlive'
    <3>1. expiry # NoKey => t <= expiry
      BY <1>1, <1>8 DEF IInv, TypeOK
    <3> QED BY <1>1, <2>1, <3>1 DEF IInv, BookkeepingBounded, KeyAlive, NoKey, TtlMs, WindowMs
  <2> QED BY <2>2, <2>4, <2>5, <2>6 DEF IInv
<1> QED BY <1>7, <1>8

LEMMA StepBackStep ==
    ASSUME IInv, NEW t \in 0..Horizon, StepBack(t)
    PROVE  IInv'
<1> DEFINE W == WindowMs
           C == Capacity
<1>1. /\ t < now /\ t \in Nat /\ now \in Nat /\ now' = t /\ reply' = NoReply
      /\ W \in Nat \ {0} /\ C \in Nat \ {0} /\ TtlMs \in Nat
      /\ UNCHANGED <<bucket, expiry, meter>>
  BY TokenBucketAssumption, StoredFacts, WindowMsNat DEF StepBack, IInv
<1>2. TypeOK'
  BY <1>1 DEF IInv, TypeOK, NoReply, Reply
<1>3. BookkeepingBounded' /\ KeyAlive'
  <2>1. expiry # NoKey => t <= expiry
    BY <1>1 DEF IInv, TypeOK, KeyAlive
  <2> QED BY <1>1, <2>1 DEF IInv, BookkeepingBounded, KeyAlive, NoKey, TtlMs, WindowMs
<1>4. Value' <= Value /\ Value' \in Nat
  <2>1. CASE expiry = NoKey
    <3>1. Stored' = [tokens |-> C, origin |-> t, units |-> 0]
      BY <1>1, <2>1 DEF Stored, Bucket, NoKey
    <3>2. (t - t) * C - 0 * W = 0 /\ C * W \in Nat
      BY <1>1, SMT
    <3>3. Value' = Least(C * W, C * W + AtLeast0((t - t) * C - 0 * W))
      BY <1>1, <3>1 DEF Value, Worth, WindowMs
    <3>4. Value' = C * W
      BY <3>2, <3>3 DEF AtLeast0, Least
    <3> QED BY <1>1, <2>1, <3>2, <3>4, NoKeyIsFull
  <2>2. CASE expiry # NoKey
    <3> DEFINE T == bucket.tokens
               O == bucket.origin
               U == bucket.units
    <3>1. T \in 0..C /\ O \in Nat /\ U \in Int
      BY DEF IInv, TypeOK
    <3>2. /\ Value = Least(C * W, T * W + AtLeast0((now - O) * C - U * W))
          /\ Value' = Least(C * W, T * W + AtLeast0((t - O) * C - U * W))
      BY <1>1, <2>2 DEF Stored, Value, Worth, WindowMs, NoKey
    <3> HIDE DEF T, O, U, W, C
    <3>3. TimeMoves(W, C, T, O, U, now, t)
      <4>1. T \in Int /\ O \in Int /\ now \in Int /\ t \in Int
        BY <1>1, <3>1
      <4> QED BY ONLY <1>1, <3>1, <4>1, TimeArithmetic, Zenon
    <3>4. t <= now
      BY <1>1
    <3>5. Value' <= Value
      BY <3>2, <3>3, <3>4 DEF TimeMoves
    <3>6. Value' \in Nat
      <4>1. C * W \in Nat /\ T * W \in Nat /\ (t - O) * C \in Int /\ U * W \in Int
        BY <1>1, <3>1, SMT
      <4> QED BY <3>2, <4>1 DEF Least, AtLeast0
    <3> QED BY <3>5, <3>6
  <2> QED BY <2>1, <2>2
<1>5. MeterLeavesRoom'
  <2>1. meter.granted * W + Value' <= C * (W + meter.passed)
    BY <1>4, MeterFacts, ValueFacts DEF IInv, MeterLeavesRoom
  <2> QED BY <1>1, <2>1 DEF MeterLeavesRoom, WindowMs
<1>6. NothingGrantedSince'
  <2> SUFFICES ASSUME expiry # NoKey, meter.granted > 0
               PROVE  meter.granted * W <= C * (W + meter.passed - (t - LastWrite))
    BY <1>1 DEF NothingGrantedSince, WindowMs, LastWrite, TtlMs, NoKey
  <2>1. LastWrite \in Int /\ meter.passed \in Nat /\ meter.granted * W \in Nat
    BY <1>1, MeterFacts DEF IInv, TypeOK, LastWrite
  <2>2. C * (W + meter.passed - (now - LastWrite)) <= C * (W + meter.passed - (t - LastWrite))
    BY <1>1, <2>1, ProductMonotone
  <2>3. /\ C * (W + meter.passed - (now - LastWrite)) \in Int
        /\ C * (W + meter.passed - (t - LastWrite)) \in Int
    BY <1>1, <2>1, SMT
  <2>4. meter.granted * W <= C * (W + meter.passed - (now - LastWrite))
    BY DEF IInv, NothingGrantedSince
  <2> QED BY <2>1, <2>2, <2>3, <2>4
<1> QED BY <1>2, <1>3, <1>5, <1>6 DEF IInv

LEMMA InitHolds == Init => IInv
<1> SUFFICES ASSUME Init PROVE IInv
  OBVIOUS
<1>1. TypeOK
  BY TokenBucketAssumption DEF Init, TypeOK, Bucket, NoReply, Reply
<1>2. expiry = NoKey /\ now \in Nat /\ meter.granted = 0 /\ meter.passed = 0
  BY DEF Init
<1>3. MeterLeavesRoom
  <2>1. /\ 0 * WindowMs = 0 /\ WindowMs + 0 = WindowMs /\ Value = Capacity * WindowMs
        /\ Capacity * WindowMs \in Nat
    BY <1>2, WindowMsNat, NoKeyIsFull, SMT
  <2>2. 0 * WindowMs + Value <= Capacity * (WindowMs + 0)
    BY <2>1
  <2> QED BY <1>2, <2>2 DEF MeterLeavesRoom
<1> QED BY <1>1, <1>2, <1>3 DEF IInv, BookkeepingBounded, KeyAlive, NothingGrantedSince

LEMMA StepHolds == IInv /\ [SkewedNext]_vars => IInv'
<1> SUFFICES ASSUME IInv, [SkewedNext]_vars PROVE IInv'
  OBVIOUS
<1>1. CASE Next
  BY <1>1, DenyOversizedStep, AdmitStep, DenyStep, ResetStep, TickStep, WatchStep DEF Next
<1>2. CASE \E t \in 0..Horizon : StepBack(t)
  BY <1>2, StepBackStep
<1>3. CASE UNCHANGED vars
  BY <1>3 DEF vars, IInv, TypeOK, BookkeepingBounded, KeyAlive, MeterLeavesRoom,
     NothingGrantedSince, LastWrite, Value, Worth, Stored
<1> QED BY <1>1, <1>2, <1>3 DEF SkewedNext

LEMMA IInvHolds == SkewedSpec => []IInv
<1> QED BY InitHolds, StepHolds, PTL DEF SkewedSpec

\* A clock that is not set back is one of the clocks of SkewedSpec.
LEMMA SteadyIsSkewed == Spec => SkewedSpec
<1>1. [Next]_vars => [SkewedNext]_vars
  BY DEF SkewedNext
<1> QED BY <1>1, PTL DEF Spec, SkewedSpec

\* The state keeps the shape the script and Redis give it, whatever the clock does.
THEOREM TypeCorrect == SkewedSpec => []TypeOK
<1>1. IInv => TypeOK
  BY DEF IInv
<1> QED BY <1>1, IInvHolds, PTL

\* Over any interval the bucket grants at most one capacity plus what flows in,
\* also when Redis' clock is set back and the key expires in between.
THEOREM IntervalsAreBounded == SkewedSpec => []IntervalBound
<1>1. IInv => IntervalBound
  <2> SUFFICES ASSUME IInv PROVE IntervalBound
    OBVIOUS
  <2>1. Value \in Nat /\ meter.granted * WindowMs \in Nat /\ Capacity * (WindowMs + meter.passed) \in Nat
    BY MeterFacts, ValueFacts DEF IInv
  <2> QED BY <2>1 DEF IInv, MeterLeavesRoom, IntervalBound
<1> QED BY <1>1, IInvHolds, PTL

\* Neither the origin nor the credited units drift away from the last write.
THEOREM BookkeepingStaysBounded == SkewedSpec => []BookkeepingBounded
<1>1. IInv => BookkeepingBounded
  BY DEF IInv
<1> QED BY <1>1, IInvHolds, PTL

\* Every intermediate of a check is bounded by the policy, however old and busy
\* the bucket is: the idle time by the key's life, the product by the split.
THEOREM NumbersStayBounded == SkewedSpec => []NumbersBounded
<1>1. IInv => NumbersBounded
  <2> SUFFICES ASSUME IInv PROVE NumbersBounded
    OBVIOUS
  <2>1. /\ WindowMs \in Nat \ {0} /\ Capacity \in Nat \ {0} /\ TtlMs \in Nat
        /\ Idle \in Nat /\ WholeWindows * WindowMs \in Nat /\ Phase \in 0..(WindowMs - 1)
        /\ Idle = WholeWindows * WindowMs + Phase /\ now \in Nat
    BY WindowMsNat, IdleFacts, StoredFacts DEF IInv
  <2>2. Idle < TtlMs + WindowMs
    <3>1. CASE expiry = NoKey
      BY <2>1, <3>1 DEF Idle, Stored, Bucket, AtLeast0
    <3>2. CASE expiry # NoKey
      <4>1. Stored.origin = bucket.origin /\ bucket.origin \in Nat /\ expiry \in Nat
        BY <3>2 DEF IInv, TypeOK, Stored
      <4>2. now <= expiry /\ expiry - TtlMs - bucket.origin < WindowMs
        BY <3>2 DEF IInv, KeyAlive, BookkeepingBounded
      <4>3. Idle = AtLeast0(now - bucket.origin)
        BY <4>1 DEF Idle
      <4> QED BY <2>1, <4>1, <4>2, <4>3 DEF AtLeast0
    <3> QED BY <3>1, <3>2
  <2>3. WholeWindows * WindowMs < TtlMs + WindowMs
    BY <2>1, <2>2
  <2>4. ASSUME NEW e \in 0..(2 * WindowMs)
        PROVE  PartialProduct(e) <= (WindowMs - 1) * (WindowMs - 1)
    <3> DEFINE v == Remainder
               r == e % WindowMs
               w == WindowMs - 1
    <3>1. e \in Nat
      BY <2>1
    <3>2. r \in Nat /\ r <= w
      <4>1. r \in 0..(WindowMs - 1)
        BY <2>1, <3>1, DivisionFacts
      <4> HIDE DEF r
      <4> QED BY <2>1, <4>1
    <3>3. v \in Nat /\ v <= w
      <4>1. v \in 0..(WindowMs - 1)
        BY <2>1, DivisionFacts DEF Remainder
      <4> HIDE DEF v
      <4> QED BY <2>1, <4>1
    <3>4. PartialProduct(e) = v * r
      BY DEF PartialProduct
    <3>5. w \in Nat
      BY <2>1
    <3> HIDE DEF v, r, w
    <3>6. v * r <= v * w /\ w * v <= w * w /\ v * r \in Int /\ w * w \in Int /\ w * v \in Int
      BY <3>2, <3>3, <3>5, ProductMonotone
    <3>7. v * w = w * v
      BY <3>3, <3>5, SMT
    <3> QED BY <3>4, <3>6, <3>7 DEF w
  <2> QED BY <2>3, <2>4 DEF IInv, NumbersBounded, ExactArithmetic
<1> QED BY <1>1, IInvHolds, PTL

-----------------------------------------------------------------------------
(* A clock that is not set back: credit never runs ahead of it, so the     *)
(* credited units are exactly those of the phase, and nothing is clamped.  *)

KeepsPace ==
    expiry # NoKey =>
        /\ bucket.origin <= LastWrite /\ LastWrite <= now
        /\ bucket.units * WindowMs <= Capacity * (now - bucket.origin)

SteadyInv == IInv /\ KeepsPace

LEMMA StoredKeepsPace ==
    ASSUME TypeOK, BookkeepingBounded, KeepsPace
    PROVE  /\ Stored.origin <= now
           /\ Stored.units * WindowMs <= Capacity * (now - Stored.origin)
           /\ Idle = now - Stored.origin
<1>0. /\ now \in Nat /\ Stored.origin \in Nat /\ WindowMs \in Nat \ {0} /\ Capacity \in Nat \ {0}
      /\ TtlMs \in Nat
  BY StoredFacts, WindowMsNat
<1>1. CASE expiry = NoKey
  <2>1. Stored.origin = now /\ Stored.units = 0
    BY <1>1 DEF Stored, Bucket
  <2>2. 0 * WindowMs = 0 /\ Capacity * (now - now) = 0
    BY <1>0, SMT
  <2> QED BY <1>0, <2>1, <2>2 DEF Idle, AtLeast0
<1>2. CASE expiry # NoKey
  <2>1. Stored = bucket /\ expiry \in Nat /\ bucket.origin \in Nat
    BY <1>2 DEF Stored, TypeOK
  <2>2. bucket.origin <= now
    BY <1>0, <1>2, <2>1 DEF KeepsPace, LastWrite
  <2> QED BY <1>0, <1>2, <2>1, <2>2 DEF KeepsPace, Idle, AtLeast0
<1> QED BY <1>1, <1>2

LEMMA SteadyRefill ==
    ASSUME TypeOK, BookkeepingBounded, KeepsPace
    PROVE  /\ RefillPhase \in 0..(WindowMs - 1)
           /\ Refilled.origin <= now /\ now - Refilled.origin = RefillPhase
           /\ Refilled.units = Credit(RefillPhase)
           /\ Value = Tokens * WindowMs + (Capacity * RefillPhase - WindowMs * Credit(RefillPhase))
           /\ BalanceAt(now) = Value
<1> DEFINE W == WindowMs
           C == Capacity
           O == Stored.origin
           U == Stored.units
           T == Stored.tokens
           k == WholeWindows
<1>0. /\ now \in Nat /\ O \in Nat /\ U \in 0..C /\ T \in 0..C /\ W \in Nat \ {0} /\ C \in Nat \ {0}
  BY StoredFacts, WindowMsNat
<1>1. /\ k \in Nat /\ Phase \in 0..(W - 1) /\ Phase \in Nat /\ now - O = k * W + Phase
      /\ O <= now /\ U * W <= C * (now - O) /\ Accrued \in 0..C
  BY <1>0, IdleFacts, StoredKeepsPace
<1>2. /\ Credit(0) = 0
  <2>1. Credit(0) \in Nat /\ W * Credit(0) <= C * 0
    BY CreditFacts
  <2> QED BY <1>0, <2>1, SMT
<1>3. UnitsCarried <= Accrued
  <2>1. C * (now - O) = W * (k * C) + C * Phase
    BY <1>0, <1>1, SMT
  <2>2. W * (U - k * C) = U * W - W * (k * C)
    BY <1>0, <1>1, SMT
  <2>3. /\ U - k * C \in Int /\ U * W \in Int /\ W * (k * C) \in Int /\ C * Phase \in Int
        /\ C * (now - O) \in Int
    BY <1>0, <1>1, SMT
  <2>4. W * (U - k * C) <= C * Phase
    BY <1>1, <2>1, <2>2, <2>3
  <2>5. U - k * C <= Credit(Phase)
    BY <1>1, <2>3, <2>4, CreditFacts
  <2> QED BY <2>5 DEF UnitsCarried, Accrued
<1>4. Greatest(UnitsCarried, Accrued) = Accrued
  BY <1>1, <1>3, IdleFacts DEF Greatest
<1>5. /\ RefillPhase \in 0..(W - 1)
      /\ Refilled.origin <= now /\ now - Refilled.origin = RefillPhase
      /\ Refilled.units = Credit(RefillPhase)
  <2>1. CASE Tokens = Capacity
    <3>1. Refilled.origin = now /\ Refilled.units = 0 /\ RefillPhase = 0
      BY <2>1 DEF Refilled, Bucket, RefillPhase
    <3> QED BY <1>0, <1>2, <3>1
  <2>2. CASE Tokens # Capacity
    <3>1. Refilled.origin = O + k * W /\ Refilled.units = Accrued /\ RefillPhase = Phase
      BY <1>4, <2>2 DEF Refilled, Bucket, RefillPhase, Origin
    <3>2. k * W \in Int
      BY <1>0, <1>1, SMT
    <3> QED BY <1>0, <1>1, <3>1, <3>2 DEF Accrued
  <2> QED BY <2>1, <2>2
<1>6. Value = Tokens * W + (C * RefillPhase - W * Credit(RefillPhase))
  <2>1. Value = Tokens * W + AtLeast0((now - Refilled.origin) * C - Refilled.units * W)
    BY RefillKeepsWorth, RefilledFacts DEF Worth
  <2>2. RefillPhase \in Nat
    BY <1>0, <1>5
  <2>3. /\ Credit(RefillPhase) \in Nat /\ W * Credit(RefillPhase) <= C * RefillPhase
        /\ C * RefillPhase \in Nat
    BY <2>2, CreditFacts
  <2>4. RefillPhase * C = C * RefillPhase /\ Credit(RefillPhase) * W = W * Credit(RefillPhase)
        /\ W * Credit(RefillPhase) \in Int
    BY <1>0, <2>2, <2>3, SMT
  <2>5. AtLeast0(RefillPhase * C - Credit(RefillPhase) * W) = C * RefillPhase - W * Credit(RefillPhase)
    BY <2>3, <2>4 DEF AtLeast0
  <2> QED BY <1>5, <2>1, <2>5
<1>7. BalanceAt(now) = Value
  <2>1. /\ BalanceAt(now) = Least(C * W, (T - U) * W + C * (now - O))
        /\ Value = Least(C * W, T * W + AtLeast0((now - O) * C - U * W))
    BY DEF BalanceAt, Value, Worth
  <2>2. /\ (T - U) * W = T * W - U * W /\ (now - O) * C = C * (now - O)
        /\ T * W \in Int /\ U * W \in Int /\ C * (now - O) \in Int
    BY <1>0, SMT
  <2>3. AtLeast0((now - O) * C - U * W) = C * (now - O) - U * W
    BY <1>1, <2>2 DEF AtLeast0
  <2>4. (T - U) * W + C * (now - O) = T * W + (C * (now - O) - U * W)
    BY <2>2
  <2> QED BY <2>1, <2>3, <2>4
<1> QED BY <1>5, <1>6, <1>7

LEMMA SteadyWrite ==
    ASSUME SteadyInv, NEW c \in 0..Tokens, Write(Tokens - c), now' = now
    PROVE  /\ expiry' \in Nat /\ expiry' # NoKey
           /\ bucket' = [tokens |-> Tokens - c, origin |-> now - RefillPhase,
                         units |-> Credit(RefillPhase)]
           /\ RefillPhase \in 0..(WindowMs - 1) /\ RefillPhase \in Nat /\ now - RefillPhase \in Nat
           /\ KeepsPace'
<1>1. /\ expiry' \in Nat /\ expiry' # NoKey /\ LastWrite' = now
  BY WriteKeepsWorth DEF SteadyInv, IInv, NoKey
<1>2. /\ RefillPhase \in 0..(WindowMs - 1)
      /\ Refilled.origin <= now /\ now - Refilled.origin = RefillPhase
      /\ Refilled.units = Credit(RefillPhase)
  BY SteadyRefill DEF SteadyInv, IInv
<1>3. /\ now \in Nat /\ WindowMs \in Nat \ {0} /\ Capacity \in Nat \ {0}
      /\ Refilled \in [tokens : 0..Capacity, origin : Nat, units : 0..Capacity]
  BY StoredFacts, RefilledFacts, WindowMsNat DEF SteadyInv, IInv
<1>4. Refilled.origin = now - RefillPhase /\ RefillPhase \in Nat
  BY <1>2, <1>3
<1>5. bucket' = [tokens |-> Tokens - c, origin |-> now - RefillPhase, units |-> Credit(RefillPhase)]
  <2>1. bucket' = [tokens |-> Tokens - c, origin |-> Refilled.origin, units |-> Refilled.units]
    BY <1>3 DEF Write
  <2> QED BY <1>2, <1>4, <2>1
<1>6. KeepsPace'
  <2>1. now - (now - RefillPhase) = RefillPhase
    BY <1>3, <1>4
  <2>2. WindowMs * Credit(RefillPhase) <= Capacity * RefillPhase /\ Credit(RefillPhase) \in Nat
    BY <1>4, CreditFacts
  <2>3. Credit(RefillPhase) * WindowMs = WindowMs * Credit(RefillPhase)
    BY <1>3, <2>2, SMT
  <2>4. now - RefillPhase <= now /\ now <= now
    BY <1>3, <1>4
  <2>5. bucket'.origin = now - RefillPhase /\ bucket'.units = Credit(RefillPhase)
    BY <1>5
  <2>6. bucket'.units * WindowMs <= Capacity * (now - bucket'.origin)
    BY <2>1, <2>2, <2>3, <2>5
  <2>7. WindowMs' = WindowMs
    BY DEF WindowMs
  <2> QED BY <1>1, <2>4, <2>5, <2>6, <2>7 DEF KeepsPace
<1>7. now - RefillPhase \in Nat
  BY <1>3, <1>4
<1> QED BY <1>1, <1>2, <1>4, <1>5, <1>6, <1>7

LEMMA SteadyStep == SteadyInv /\ [Next]_vars => SteadyInv'
<1> SUFFICES ASSUME SteadyInv, [Next]_vars PROVE SteadyInv'
  OBVIOUS
<1>1. IInv'
  BY StepHolds DEF SteadyInv, SkewedNext
<1>2. KeepsPace'
  <2>1. ASSUME NEW c \in Costs, DenyOversized(c) PROVE KeepsPace'
    BY <2>1 DEF DenyOversized, SteadyInv, KeepsPace, LastWrite
  <2>2. ASSUME NEW c \in Costs, Admit(c) PROVE KeepsPace'
    <3>1. c \in 0..Tokens
      BY <2>2, TokenBucketAssumption, RefilledFacts DEF Admit, SteadyInv, IInv
    <3> QED BY <2>2, <3>1, SteadyWrite DEF Admit
  <2>3. ASSUME NEW c \in Costs, Deny(c) PROVE KeepsPace'
    <3>1. 0 \in 0..Tokens /\ Tokens - 0 = Tokens
      BY RefilledFacts, WindowMsNat DEF SteadyInv, IInv
    <3> QED BY <2>3, <3>1, SteadyWrite DEF Deny
  <2>4. CASE Reset
    BY <2>4 DEF Reset, KeepsPace, NoKey
  <2>5. ASSUME NEW t \in 0..Horizon, Tick(t) PROVE KeepsPace'
    <3>1. CASE expiry # NoKey /\ t > expiry
      BY <2>5, <3>1 DEF Tick, KeepsPace, NoKey
    <3>2. CASE ~(expiry # NoKey /\ t > expiry)
      <4>1. bucket' = bucket /\ expiry' = expiry /\ now' = t /\ now < t
        BY <2>5, <3>2 DEF Tick
      <4> SUFFICES ASSUME expiry # NoKey
                   PROVE  /\ bucket.origin <= LastWrite /\ LastWrite <= t
                          /\ bucket.units * WindowMs <= Capacity * (t - bucket.origin)
        BY <4>1 DEF KeepsPace, LastWrite, WindowMs, TtlMs, NoKey
      <4>2. /\ bucket.origin <= LastWrite /\ LastWrite <= now
            /\ bucket.units * WindowMs <= Capacity * (now - bucket.origin)
        BY DEF SteadyInv, KeepsPace
      <4>3. /\ now \in Nat /\ t \in Nat /\ expiry \in Nat /\ TtlMs \in Nat /\ bucket.origin \in Nat
            /\ bucket.units \in Int /\ WindowMs \in Nat /\ Capacity \in Nat
        BY <2>5, WindowMsNat, TokenBucketAssumption DEF SteadyInv, IInv, TypeOK
      <4>4. LastWrite <= t
        BY <4>1, <4>2, <4>3 DEF LastWrite
      <4>5. Capacity * (now - bucket.origin) <= Capacity * (t - bucket.origin)
        BY <4>1, <4>3, ProductMonotone
      <4>6. bucket.units * WindowMs \in Int /\ Capacity * (now - bucket.origin) \in Int
            /\ Capacity * (t - bucket.origin) \in Int
        BY <4>3, SMT
      <4> QED BY <4>2, <4>4, <4>5, <4>6
    <3> QED BY <3>1, <3>2
  <2>6. CASE Watch
    BY <2>6 DEF Watch, SteadyInv, KeepsPace, LastWrite
  <2>7. CASE UNCHANGED vars
    BY <2>7 DEF vars, SteadyInv, KeepsPace, LastWrite
  <2> QED BY <2>1, <2>2, <2>3, <2>4, <2>5, <2>6, <2>7 DEF Next
<1> QED BY <1>1, <1>2 DEF SteadyInv

LEMMA SteadyInit == Init => SteadyInv
BY InitHolds DEF Init, SteadyInv, KeepsPace

LEMMA SteadyHolds == Spec => []SteadyInv
<1> QED BY SteadyInit, SteadyStep, PTL DEF Spec

-----------------------------------------------------------------------------
(* get_usage.                                                              *)

\* Moving whole windows out of origin and units changes nothing.
LEMMA CreditMoves ==
    ASSUME NEW k \in Nat, NEW p \in 0..(WindowMs - 1)
    PROVE  Credit(k * WindowMs + p) = k * Capacity + Credit(p)
<1> DEFINE W == WindowMs
           C == Capacity
           e == k * W + p
           m == k * C + Credit(p)
<1>1. W \in Nat \ {0} /\ C \in Nat \ {0} /\ p \in Nat /\ k * W \in Nat /\ k * C \in Nat
  BY WindowMsNat, SMT
<1>2. e \in Nat
  BY <1>1
<1>3. Credit(p) \in Nat /\ W * Credit(p) <= C * p /\ C * p < W * Credit(p) + W /\ C * p \in Nat
  BY <1>1, CreditFacts
<1> HIDE DEF W, C
<1>4. C * e = W * (k * C) + C * p
  BY <1>1, SMT
<1>5. W * m = W * (k * C) + W * Credit(p)
  BY <1>1, <1>3, SMT
<1>6. W * (k * C) \in Int /\ W * Credit(p) \in Int /\ m \in Int /\ C * e \in Int /\ W * m \in Int
  BY <1>1, <1>2, <1>3, SMT
<1>7. W * m <= C * e /\ C * e < W * m + W
  BY <1>1, <1>3, <1>4, <1>5, <1>6
<1> HIDE DEF e, m
<1>8. (C * e) \div W = m
  BY <1>1, <1>6, <1>7, FloorIsUnique
<1>9. Credit(e) = (C * e) \div W
  BY <1>2, CreditIsExact DEF C, W
<1> QED BY <1>8, <1>9 DEF e, m, W, C

\* Asked for the time Redis has now, the client computes what the script would.
LEMMA CurrentIsTokens ==
    ASSUME TypeOK, BookkeepingBounded
    PROVE  CurrentTokens(now) = Tokens
<1>0. /\ now \in Nat /\ Stored.tokens \in 0..Capacity /\ Stored.origin \in Nat
      /\ Stored.units \in 0..Capacity /\ WindowMs \in Nat \ {0} /\ Capacity \in Nat \ {0}
  BY StoredFacts, WindowMsNat
<1>1. CASE expiry = NoKey
  <2>1. Stored.tokens = Capacity
    BY <1>1 DEF Stored, Bucket
  <2>2. Earned \in Nat
    BY IdleFacts DEF Earned, AtLeast0
  <2>3. Tokens = Capacity
    BY <1>0, <2>1, <2>2 DEF Tokens, Least
  <2> QED BY <1>1, <2>3 DEF CurrentTokens
<1>2. CASE expiry # NoKey
  <2>1. Stored = bucket
    BY <1>2 DEF Stored
  <2>2. /\ Idle \in Nat /\ WholeWindows \in Nat /\ Phase \in 0..(WindowMs - 1)
        /\ Idle = WholeWindows * WindowMs + Phase
        /\ WholeWindows * Capacity \in Nat /\ Accrued \in 0..Capacity
    BY IdleFacts
  <2>3. (Capacity * Idle) \div WindowMs = WholeWindows * Capacity + Accrued
    BY <2>2, CreditMoves, CreditIsExact DEF Accrued
  <2>4. (Capacity * Idle) \div WindowMs - bucket.units = Accrued - UnitsCarried
    BY <1>0, <2>1, <2>2, <2>3 DEF UnitsCarried
  <2>5. TokensToAdd(Idle) = Earned
    BY <2>4 DEF TokensToAdd, Earned
  <2>6. Idle = AtLeast0(now - bucket.origin)
    BY <2>1 DEF Idle
  <2> QED BY <1>2, <2>1, <2>5, <2>6 DEF CurrentTokens, Tokens
<1> QED BY <1>1, <1>2

ReaderType == [stage : {"idle", "timed", "answered"}, time : Nat, remaining : Int]

\* While the call waits for the hash, what it would compute from it is what the
\* bucket held at some moment of the call.
Readable ==
    reader.stage = "timed" => reader.time <= now /\ CurrentTokens(reader.time) \in seen

UsageInv == reader \in ReaderType /\ Readable /\ SnapshotIsTrue

\* What a write leaves is what any earlier time read of it finds: the units
\* credited since its origin are already in its tokens.
LEMMA WrittenIsCurrent ==
    ASSUME SteadyInv, NEW c \in 0..Tokens, Write(Tokens - c), now' = now,
           NEW t \in Nat, t <= now
    PROVE  CurrentTokens(t)' = Tokens - c
<1> DEFINE p == RefillPhase
           elapsed == AtLeast0(t - (now - p))
<1>1. /\ expiry' # NoKey
      /\ bucket' = [tokens |-> Tokens - c, origin |-> now - p, units |-> Credit(p)]
      /\ p \in 0..(WindowMs - 1) /\ p \in Nat /\ now - p \in Nat
  BY SteadyWrite
<1>2. now \in Nat /\ Tokens \in 0..Capacity /\ Capacity \in Nat \ {0} /\ WindowMs \in Nat \ {0}
  BY StoredFacts, RefilledFacts, WindowMsNat DEF SteadyInv, IInv
<1>3. elapsed \in Nat /\ elapsed <= p
  BY <1>1, <1>2 DEF AtLeast0
<1> HIDE DEF p, elapsed
<1>4. (Capacity * elapsed) \div WindowMs = Credit(elapsed) /\ Credit(elapsed) \in Nat
  BY <1>3, CreditIsExact
<1>5. Credit(elapsed) <= Credit(p) /\ Credit(p) \in Nat
  <2>1. Credit(p) \in Nat /\ \A m \in Int : m <= Credit(p) <=> WindowMs * m <= Capacity * p
    BY <1>1, CreditFacts
  <2>2. WindowMs * Credit(elapsed) <= Capacity * elapsed
    BY <1>3, CreditFacts
  <2>3. Capacity * elapsed <= Capacity * p /\ Capacity * elapsed \in Int /\ Capacity * p \in Int
    BY <1>1, <1>2, <1>3, ProductMonotone
  <2>4. WindowMs * Credit(elapsed) \in Int
    BY <1>2, <1>4, SMT
  <2> QED BY <1>4, <2>1, <2>2, <2>3, <2>4
<1>6. AtLeast0((Capacity * elapsed) \div WindowMs - Credit(p)) = 0
  BY <1>4, <1>5 DEF AtLeast0
<1>7. CurrentTokens(t)' = Least(Capacity, (Tokens - c) + AtLeast0((Capacity * elapsed) \div WindowMs - Credit(p)))
  BY <1>1 DEF CurrentTokens, TokensToAdd, elapsed, WindowMs, NoKey
<1> QED BY <1>2, <1>6, <1>7 DEF Least

\* Whatever happens between the two round trips, what the client would compute
\* from the hash and the time it was given is what the bucket held at one of the
\* moments since.
LEMMA StillReadable ==
    ASSUME SteadyInv, SteadyInv', Next, seen' = seen \cup {Tokens'},
           NEW t \in Nat, t <= now, CurrentTokens(t) \in seen
    PROVE  t <= now' /\ CurrentTokens(t)' \in seen'
<1>0. now \in Nat /\ Tokens \in 0..Capacity /\ Capacity \in Nat
  BY StoredFacts, RefilledFacts, WindowMsNat DEF SteadyInv, IInv
<1>1. CurrentTokens(now)' = Tokens'
  <2>1. (CurrentTokens(now) = Tokens)'
    BY CurrentIsTokens, PTL DEF SteadyInv, IInv
  <2> QED BY <2>1
<1>2. ASSUME UNCHANGED <<bucket, expiry>> PROVE CurrentTokens(t)' \in seen'
  <2>1. CurrentTokens(t)' = CurrentTokens(t)
    BY <1>2 DEF CurrentTokens, TokensToAdd
  <2> QED BY <2>1
<1>3. ASSUME expiry' = NoKey PROVE CurrentTokens(t)' \in seen'
  <2>1. CurrentTokens(t)' = Capacity /\ CurrentTokens(now)' = Capacity
    BY <1>3 DEF CurrentTokens, NoKey
  <2> QED BY <1>1, <2>1
<1>4. ASSUME NEW c \in 0..Tokens, Write(Tokens - c), now' = now PROVE CurrentTokens(t)' \in seen'
  <2>1. \A u \in Nat : u <= now => CurrentTokens(u)' = Tokens - c
    BY <1>4, WrittenIsCurrent
  <2>2. CurrentTokens(t)' = Tokens - c
    BY <2>1
  <2>3. CurrentTokens(now)' = Tokens - c
    <3>1. PICK u \in Nat : u = now
      BY <1>0
    <3>2. u <= now
      BY <1>0, <3>1
    <3>3. CurrentTokens(u)' = CurrentTokens(now)'
      BY <1>4, <3>1 DEF CurrentTokens, TokensToAdd
    <3> QED BY <2>1, <3>2, <3>3
  <2> QED BY <1>1, <2>2, <2>3
<1>5. ASSUME NEW c \in Costs, DenyOversized(c) PROVE t <= now' /\ CurrentTokens(t)' \in seen'
  BY <1>2, <1>5 DEF DenyOversized
<1>6. ASSUME NEW c \in Costs, Admit(c) PROVE t <= now' /\ CurrentTokens(t)' \in seen'
  <2>1. c \in 0..Tokens
    BY <1>0, <1>6, TokenBucketAssumption DEF Admit
  <2> QED BY <1>4, <1>6, <2>1 DEF Admit
<1>7. ASSUME NEW c \in Costs, Deny(c) PROVE t <= now' /\ CurrentTokens(t)' \in seen'
  <2>1. 0 \in 0..Tokens /\ Tokens - 0 = Tokens
    BY <1>0
  <2> QED BY <1>4, <1>7, <2>1 DEF Deny
<1>8. CASE Reset
  BY <1>3, <1>8 DEF Reset
<1>9. ASSUME NEW u \in 0..Horizon, Tick(u) PROVE t <= now' /\ CurrentTokens(t)' \in seen'
  <2>1. u \in Nat /\ now' = u /\ u > now
    BY <1>9, TokenBucketAssumption DEF Tick
  <2>2. t <= now'
    BY <1>0, <2>1
  <2> QED BY <1>2, <1>3, <1>9, <2>2 DEF Tick
<1>10. CASE Watch
  BY <1>2, <1>10 DEF Watch
<1> QED BY <1>5, <1>6, <1>7, <1>8, <1>9, <1>10 DEF Next

LEMMA UsageStep == SteadyInv /\ SteadyInv' /\ UsageInv /\ [UsageNext]_usageVars => UsageInv'
<1> SUFFICES ASSUME SteadyInv, SteadyInv', UsageInv, [UsageNext]_usageVars PROVE UsageInv'
  OBVIOUS
<1>0. now \in Nat /\ Tokens \in 0..Capacity /\ Capacity \in Nat /\ reader \in ReaderType
  BY StoredFacts, RefilledFacts, WindowMsNat DEF SteadyInv, IInv, UsageInv
<1>1. CASE ReadTime
  <2>1. /\ reader' = [stage |-> "timed", time |-> now, remaining |-> 0] /\ seen' = {Tokens}
        /\ UNCHANGED <<now, bucket, expiry>>
    BY <1>1 DEF ReadTime, vars
  <2>2. CurrentTokens(now)' = CurrentTokens(now)
    BY <2>1 DEF CurrentTokens, TokensToAdd
  <2>3. CurrentTokens(now) = Tokens
    BY CurrentIsTokens DEF SteadyInv, IInv
  <2>4. Readable'
    <3>1. reader'.time = now' /\ now' <= now'
      BY <1>0, <2>1
    <3> QED BY <2>1, <2>2, <2>3, <3>1 DEF Readable, CurrentTokens, TokensToAdd
  <2> QED BY <1>0, <2>1, <2>4 DEF UsageInv, SnapshotIsTrue, ReaderType
<1>2. CASE ReadBucket
  <2> DEFINE answer == CurrentTokens(reader.time)
  <2>1. /\ reader.stage = "timed" /\ reader.time \in Nat /\ seen' = seen /\ answer \in seen
        /\ reader' = [reader EXCEPT !.stage = "answered", !.remaining = answer]
    BY <1>0, <1>2 DEF ReadBucket, UsageInv, Readable, ReaderType
  <2>2. answer \in Int
    <3>1. expiry # NoKey => bucket.tokens \in 0..Capacity /\ bucket.units \in Int /\ bucket.origin \in Nat
      BY DEF SteadyInv, IInv, TypeOK
    <3>2. AtLeast0(reader.time - bucket.origin) \in Nat \/ expiry = NoKey
      BY <2>1, <3>1 DEF AtLeast0
    <3>3. expiry # NoKey =>
            (Capacity * AtLeast0(reader.time - bucket.origin)) \div WindowMs \in Nat
      BY <3>2, CreditIsExact
    <3>4. expiry # NoKey => TokensToAdd(AtLeast0(reader.time - bucket.origin)) \in Int
      BY <3>1, <3>3 DEF TokensToAdd, AtLeast0
    <3> QED BY <1>0, <3>1, <3>4 DEF CurrentTokens, Least
  <2> HIDE DEF answer
  <2>3. reader' = [stage |-> "answered", time |-> reader.time, remaining |-> answer]
    BY <1>0, <2>1 DEF ReaderType
  <2> QED BY <2>1, <2>2, <2>3 DEF UsageInv, Readable, SnapshotIsTrue, ReaderType
<1>3. CASE ReadFails
  BY <1>3 DEF ReadFails, NotReading, UsageInv, Readable, SnapshotIsTrue, ReaderType
<1>4. CASE Meanwhile /\ reader.stage = "timed"
  <2>1. reader' = reader /\ seen' = seen \cup {Tokens'} /\ Next
    BY <1>4 DEF Meanwhile
  <2>2. PICK t \in Nat : t = reader.time
    BY <1>0 DEF ReaderType
  <2>3. t <= now /\ CurrentTokens(t) \in seen
    BY <1>4, <2>2 DEF UsageInv, Readable
  <2>4. t <= now' /\ CurrentTokens(t)' \in seen'
    BY <2>1, <2>3, StillReadable
  <2>5. reader'.time = t /\ reader'.stage = "timed"
    BY <1>4, <2>1, <2>2
  <2>6. CurrentTokens(reader.time)' = CurrentTokens(t)'
    BY <2>5 DEF CurrentTokens, TokensToAdd
  <2>7. Readable'
    BY <2>4, <2>5, <2>6 DEF Readable
  <2> QED BY <1>0, <2>1, <2>5, <2>7 DEF UsageInv, SnapshotIsTrue
<1>5. CASE Meanwhile /\ reader.stage # "timed"
  BY <1>5 DEF Meanwhile, NotReading, UsageInv, Readable, SnapshotIsTrue, ReaderType
<1>6. CASE UNCHANGED usageVars
  BY <1>6 DEF usageVars, vars, UsageInv, Readable, SnapshotIsTrue, CurrentTokens, TokensToAdd
<1> QED BY <1>1, <1>2, <1>3, <1>4, <1>5, <1>6 DEF UsageNext

\* The reader only looks on: what is proved of Spec holds under it.
LEMMA ReadersLookOn == UsageSpec => Spec
<1>1. UsageInit => Init
  BY DEF UsageInit
<1>2. [UsageNext]_usageVars => [Next]_vars
  BY DEF UsageNext, usageVars, ReadTime, ReadBucket, ReadFails, Meanwhile
<1> QED BY <1>1, <1>2, PTL DEF UsageSpec, Spec

\* get_usage, whose time and hash are of two moments, answers what the script
\* would have found in the bucket at one moment of the call.
THEOREM SnapshotsAreTrue == UsageSpec => []SnapshotIsTrue
<1>1. UsageInit => UsageInv
  BY DEF UsageInit, NotReading, UsageInv, Readable, SnapshotIsTrue, ReaderType
<1>2. UsageInv => SnapshotIsTrue
  BY DEF UsageInv
<1> QED BY <1>1, <1>2, UsageStep, ReadersLookOn, SteadyHolds, PTL DEF UsageSpec

-----------------------------------------------------------------------------
(* What callers are told about the future.                                 *)

\* What a bucket left with T tokens in phase p holds e milliseconds later, in
\* 1/WindowMs of a token, if it never gets full.
Held(T, p, e) == (T - Credit(p)) * WindowMs + Capacity * (p + e)

LEMMA HeldFacts ==
    ASSUME NEW T \in Int, NEW p \in Nat, NEW e \in Int
    PROVE  /\ Held(T, p, e) \in Int
           /\ \A f \in Int : e <= f => Held(T, p, e) <= Held(T, p, f)
           /\ \A m \in Int : m * WindowMs <= Held(T, p, e)
                                 <=> WindowMs * ((m - T) + Credit(p)) <= Capacity * (p + e)
<1> DEFINE W == WindowMs
           C == Capacity
           u == Credit(p)
<1>1. W \in Nat \ {0} /\ C \in Nat \ {0} /\ u \in Nat
  BY WindowMsNat, CreditFacts
<1> HIDE DEF W, C, u
<1>2. (T - u) * W \in Int /\ (T - u) * W = T * W - u * W /\ T * W \in Int /\ u * W \in Int
  BY <1>1, SMT
<1>3. ASSUME NEW f \in Int, e <= f PROVE (T - u) * W + C * (p + e) <= (T - u) * W + C * (p + f)
  <2>1. C * (p + e) <= C * (p + f) /\ C * (p + e) \in Int /\ C * (p + f) \in Int
    BY <1>1, <1>3, ProductMonotone
  <2> QED BY <1>2, <2>1
<1>4. ASSUME NEW m \in Int
      PROVE  m * W <= (T - u) * W + C * (p + e) <=> W * ((m - T) + u) <= C * (p + e)
  <2>1. W * ((m - T) + u) = m * W - T * W + u * W /\ m * W \in Int /\ C * (p + e) \in Int
    BY <1>1, SMT
  <2> QED BY <1>2, <2>1
<1>5. (T - u) * W + C * (p + e) \in Int
  <2>1. C * (p + e) \in Int
    BY <1>1, SMT
  <2> QED BY <1>2, <2>1
<1> QED BY <1>3, <1>4, <1>5 DEF Held, W, C, u

\* The delay is the first one after which the bucket holds m tokens.
LEMMA DelayFinds ==
    ASSUME RefillPhase \in 0..(WindowMs - 1), NEW T \in 0..Capacity, NEW m \in 0..Capacity
    PROVE  /\ RefillDelay(m - T) \in 0..WindowMs /\ RefillDelay(m - T) \in Nat
           /\ \A d \in 0..WindowMs :
                  RefillDelay(m - T) <= d <=> m * WindowMs <= Held(T, RefillPhase, d)
<1>1. m - T \in Int /\ m - T <= Capacity /\ T \in Int /\ m \in Int /\ RefillPhase \in Nat
  BY WindowMsNat
<1>2. /\ RefillDelay(m - T) \in 0..WindowMs
      /\ \A d \in 0..WindowMs :
            RefillDelay(m - T) <= d
                <=> WindowMs * ((m - T) + Credit(RefillPhase)) <= Capacity * (RefillPhase + d)
  BY <1>1, RefillDelayFacts
<1>3. ASSUME NEW d \in 0..WindowMs
      PROVE  m * WindowMs <= Held(T, RefillPhase, d)
                 <=> WindowMs * ((m - T) + Credit(RefillPhase)) <= Capacity * (RefillPhase + d)
  <2>1. d \in Int
    BY WindowMsNat
  <2> QED BY <1>1, <2>1, HeldFacts
<1>4. RefillDelay(m - T) \in Nat
  BY <1>2, WindowMsNat
<1> QED BY <1>2, <1>3, <1>4

LEMMA FirstSecondIsFirst ==
    ASSUME NEW t \in Nat
    PROVE  /\ FirstSecond(t) \in Nat /\ FirstSecond(t) * MsPerSecond \in Nat
           /\ t <= FirstSecond(t) * MsPerSecond
           /\ FirstSecond(t) * MsPerSecond - MsPerSecond < t
<1> DEFINE s == FirstSecond(t)
           M == MsPerSecond
<1>1. M \in Nat \ {0} /\ s \in Nat
  BY TokenBucketAssumption, FirstSecondFacts
<1>2. \A k \in Int : s <= k <=> t <= M * k
  BY TokenBucketAssumption, CeilingAtMost DEF FirstSecond, Ceiling
<1> HIDE DEF s, M
<1>3. t <= M * s /\ ~(t <= M * (s - 1))
  <2>1. s \in Int /\ s - 1 \in Int /\ s <= s /\ ~(s <= s - 1)
    BY <1>1
  <2> QED BY <1>2, <2>1
<1>4. M * s = s * M /\ M * (s - 1) = s * M - M /\ s * M \in Nat
  BY <1>1, SMT
<1>5. s * M - M < t
  BY <1>1, <1>3, <1>4
<1> QED BY <1>1, <1>3, <1>4, <1>5 DEF s, M

LEMMA WrittenBalance ==
    ASSUME SteadyInv, NEW c \in 0..Tokens, Write(Tokens - c), now' = now, NEW t \in Int
    PROVE  BalanceAt(t)' = Least(Capacity * WindowMs, Held(Tokens - c, RefillPhase, t - now))
<1>1. /\ expiry' # NoKey
      /\ bucket' = [tokens |-> Tokens - c, origin |-> now - RefillPhase, units |-> Credit(RefillPhase)]
      /\ RefillPhase \in Nat
  BY SteadyWrite
<1>2. Stored' = bucket'
  BY <1>1 DEF Stored, NoKey
<1>3. t - (now - RefillPhase) = RefillPhase + (t - now)
  <2>1. now \in Nat
    BY StoredFacts DEF SteadyInv, IInv
  <2> QED BY <1>1, <2>1
<1>4. BalanceAt(t)' = Least(Capacity * WindowMs,
          (Tokens - c - Credit(RefillPhase)) * WindowMs + Capacity * (t - (now - RefillPhase)))
  BY <1>1, <1>2 DEF BalanceAt, WindowMs
<1> QED BY <1>3, <1>4 DEF Held

LEMMA PolicyFacts ==
    ASSUME SteadyInv
    PROVE  /\ now \in Nat /\ Tokens \in 0..Capacity /\ WindowMs \in Nat \ {0}
           /\ Capacity \in Nat \ {0} /\ MsPerSecond \in Nat \ {0}
           /\ RefillPhase \in 0..(WindowMs - 1) /\ RefillPhase \in Nat
           /\ Capacity * WindowMs \in Nat
<1>1. now \in Nat /\ Tokens \in 0..Capacity /\ RefillPhase \in 0..(WindowMs - 1)
  BY StoredFacts, RefilledFacts DEF SteadyInv, IInv
<1>2. WindowMs \in Nat \ {0} /\ Capacity \in Nat \ {0} /\ MsPerSecond \in Nat \ {0}
  BY WindowMsNat, TokenBucketAssumption
<1>3. Capacity * WindowMs \in Nat
  BY <1>2, SMT
<1> QED BY <1>1, <1>2, <1>3

\* An admission: the bucket is full at the second it is told, and at no earlier one.
LEMMA FullAgain ==
    ASSUME SteadyInv, NEW c \in Costs, Admit(c), NEW t \in Nat,
           t = FirstSecond(now + RefillDelay(Capacity - (Tokens - c))) * MsPerSecond
    PROVE  /\ BalanceAt(t)' = Capacity * WindowMs
           /\ BalanceAt(t - MsPerSecond)' < Capacity * WindowMs
<1> DEFINE W == WindowMs
           C == Capacity
           M == MsPerSecond
           p == RefillPhase
           T == Tokens - c
           d == RefillDelay(C - T)
           e == (t - M) - now
<1>0. /\ now \in Nat /\ Tokens \in 0..C /\ W \in Nat \ {0} /\ C \in Nat \ {0} /\ M \in Nat \ {0}
      /\ p \in 0..(W - 1) /\ p \in Nat /\ C * W \in Nat
  BY PolicyFacts
<1>1. c \in 0..Tokens /\ c \in Nat \ {0} /\ T \in 0..C /\ T < C /\ T \in Int
  BY <1>0, TokenBucketAssumption DEF Admit
<1>2. /\ d \in 0..W /\ d \in Nat
      /\ \A f \in 0..W : d <= f <=> C * W <= Held(T, p, f)
  <2>1. C \in 0..C
    BY <1>0
  <2> QED BY <1>0, <1>1, <2>1, DelayFinds
<1> HIDE DEF d, T
<1>3. now + d <= t /\ t - M < now + d
  <2>1. now + d \in Nat
    BY <1>0, <1>2
  <2>2. t = FirstSecond(now + d) * M
    BY DEF d, T
  <2> QED BY <2>1, <2>2, FirstSecondIsFirst
<1>4. /\ BalanceAt(t)' = Least(C * W, Held(T, p, t - now))
      /\ BalanceAt(t - M)' = Least(C * W, Held(T, p, e))
  <2>1. Write(Tokens - c) /\ now' = now /\ t \in Int /\ t - M \in Int
    BY <1>0 DEF Admit
  <2> QED BY <1>1, <2>1, WrittenBalance DEF T
<1>5. Held(T, p, t - now) >= C * W /\ Held(T, p, t - now) \in Int
  <2>1. C * W <= Held(T, p, d) /\ d \in Int /\ t - now \in Int /\ d <= t - now
    BY <1>0, <1>2, <1>3
  <2>2. Held(T, p, d) <= Held(T, p, t - now) /\ Held(T, p, d) \in Int /\ Held(T, p, t - now) \in Int
    BY <1>0, <1>1, <2>1, HeldFacts
  <2> QED BY <1>0, <2>1, <2>2
<1>6. e \in Int /\ e < d
  BY <1>0, <1>2, <1>3
<1> HIDE DEF e, p, W, C, M
<1>7. Held(T, p, e) \in Int
  BY <1>0, <1>1, <1>6, HeldFacts
<1>8. Held(T, p, e) < C * W
  <2>1. CASE e >= 0
    <3>1. e \in 0..W /\ ~(d <= e)
      BY <1>0, <1>2, <1>6, <2>1
    <3> QED BY <1>0, <1>2, <1>7, <3>1
  <2>2. CASE e < 0
    <3>1. Held(T, p, e) <= Held(T, p, 0) /\ Held(T, p, 0) \in Int
      <4>1. 0 \in Int /\ e <= 0
        BY <1>6, <2>2
      <4> QED BY <1>0, <1>1, <1>6, <4>1, HeldFacts
    <3>2. /\ Credit(p) \in Nat /\ C * p < W * Credit(p) + W /\ C * p \in Nat
          /\ W * Credit(p) \in Int /\ T * W \in Int
      <4>1. Credit(p) \in Nat /\ C * p < W * Credit(p) + W /\ C * p \in Nat
        BY <1>0, CreditFacts DEF C, W
      <4> QED BY <1>0, <1>1, <4>1, SMT
    <3>3. Held(T, p, 0) = T * W + (C * p - W * Credit(p))
      <4>1. (T - Credit(p)) * W = T * W - W * Credit(p) /\ C * (p + 0) = C * p
        BY <1>0, <1>1, <3>2, SMT
      <4> QED BY <3>2, <4>1 DEF Held, C, W
    <3>4. T * W + W <= C * W
      <4>1. W * (T + 1) <= W * C
        BY <1>0, <1>1, ProductMonotone
      <4>2. W * (T + 1) = T * W + W /\ W * C = C * W
        BY <1>0, <1>1, SMT
      <4> QED BY <4>1, <4>2
    <3> QED BY <1>0, <1>7, <3>1, <3>2, <3>3, <3>4
  <2> QED BY <1>6, <2>1, <2>2
<1>9. BalanceAt(t)' = C * W /\ BalanceAt(t - M)' < C * W
  BY <1>0, <1>4, <1>5, <1>7, <1>8 DEF Least
<1> QED BY <1>9 DEF C, W, M

\* A denial: at the second it is told, at least one away, the cost fits.
LEMMA FitsThen ==
    ASSUME SteadyInv, NEW c \in Costs, Deny(c), NEW t \in Nat,
           t = FirstSecond(now + Greatest(1, FirstSecond(RefillDelay(c - Tokens))) * MsPerSecond)
                   * MsPerSecond
    PROVE  BalanceAt(t)' >= c * WindowMs /\ t >= now + MsPerSecond
<1> DEFINE W == WindowMs
           C == Capacity
           M == MsPerSecond
           p == RefillPhase
           T == Tokens - 0
           d == RefillDelay(c - T)
           s == Greatest(1, FirstSecond(d))
<1>0. /\ now \in Nat /\ Tokens \in 0..C /\ W \in Nat \ {0} /\ C \in Nat \ {0} /\ M \in Nat \ {0}
      /\ p \in 0..(W - 1) /\ p \in Nat /\ C * W \in Nat
  BY PolicyFacts
<1>1. c \in Nat /\ c \in 0..C /\ T \in 0..C /\ T \in Int /\ T = Tokens /\ 0 \in 0..Tokens
  BY <1>0, TokenBucketAssumption DEF Deny
<1>2. /\ d \in 0..W /\ d \in Nat
      /\ \A f \in 0..W : d <= f <=> c * W <= Held(T, p, f)
  BY <1>0, <1>1, DelayFinds
<1>3. d <= s * M /\ M <= s * M /\ s * M \in Nat
  <2>1. FirstSecond(d) \in Nat /\ FirstSecond(d) * M \in Nat /\ d <= FirstSecond(d) * M
    BY <1>2, FirstSecondIsFirst
  <2>2. s \in Nat /\ 1 <= s /\ FirstSecond(d) <= s
    BY <2>1 DEF Greatest
  <2> HIDE DEF s, d, M
  <2>3. M * FirstSecond(d) <= M * s /\ M * 1 <= M * s
    BY <1>0, <2>1, <2>2, ProductMonotone
  <2>4. M * FirstSecond(d) = FirstSecond(d) * M /\ M * s = s * M /\ M * 1 = M /\ s * M \in Nat
    BY <1>0, <2>1, <2>2, SMT
  <2> QED BY <1>0, <1>2, <2>1, <2>3, <2>4
<1>4. t >= now + s * M
  <2>1. now + s * M \in Nat
    BY <1>0, <1>3
  <2>2. t = FirstSecond(now + s * M) * M
    BY <1>1
  <2> HIDE DEF s
  <2>3. now + s * M <= FirstSecond(now + s * M) * M
    BY <2>1, FirstSecondIsFirst
  <2> QED BY <2>1, <2>2, <2>3
<1> HIDE DEF d, s, T
<1>5. t >= now + M /\ d <= t - now /\ t - now \in Int /\ d \in Int
  BY <1>0, <1>2, <1>3, <1>4
<1>6. BalanceAt(t)' = Least(C * W, Held(T, p, t - now))
  <2>1. Write(Tokens - 0) /\ now' = now /\ t \in Int
    BY <1>0 DEF Deny
  <2> QED BY <1>1, <2>1, WrittenBalance DEF T
<1>7. c * W <= Held(T, p, d)
  BY <1>0, <1>2
<1>8. Held(T, p, d) <= Held(T, p, t - now) /\ Held(T, p, d) \in Int /\ Held(T, p, t - now) \in Int
  BY <1>0, <1>1, <1>5, HeldFacts
<1>9. c * W <= C * W /\ c * W \in Int
  <2>1. W * c <= W * C
    BY <1>0, <1>1, ProductMonotone
  <2>2. W * c = c * W /\ W * C = C * W /\ c * W \in Int
    BY <1>0, <1>1, SMT
  <2> QED BY <2>1, <2>2
<1>10. BalanceAt(t)' >= c * W
  BY <1>0, <1>6, <1>7, <1>8, <1>9 DEF Least
<1> QED BY <1>5, <1>10

LEMMA ResetAtStep == SteadyInv /\ ResetAtIsHonest /\ [Next]_vars => ResetAtIsHonest'
<1> SUFFICES ASSUME SteadyInv, ResetAtIsHonest, [Next]_vars PROVE ResetAtIsHonest'
  OBVIOUS
<1>0. /\ now \in Nat /\ Tokens \in 0..Capacity /\ WindowMs \in Nat \ {0}
      /\ Capacity \in Nat \ {0} /\ MsPerSecond \in Nat \ {0}
  BY PolicyFacts
<1>1. ASSUME NEW c \in Costs, DenyOversized(c) PROVE ResetAtIsHonest'
  <2>1. reply'.retry = -1
    BY <1>1 DEF DenyOversized, Reply
  <2> QED BY <2>1 DEF ResetAtIsHonest
<1>2. ASSUME NEW c \in Costs, Admit(c) PROVE ResetAtIsHonest'
  <2> DEFINE d == RefillDelay(Capacity - (Tokens - c))
  <2>1. reply'.allowed = TRUE /\ reply'.resetAt = FirstSecond(now + d)
    BY <1>2 DEF Admit, Reply
  <2>2. now + d \in Nat
    <3>1. Capacity \in 0..Capacity /\ Tokens - c \in 0..Capacity
      BY <1>0, <1>2, TokenBucketAssumption DEF Admit
    <3>2. RefillPhase \in 0..(WindowMs - 1)
      BY PolicyFacts
    <3>3. d \in Nat
      BY <3>1, <3>2, DelayFinds
    <3> QED BY <1>0, <3>3
  <2>3. PICK t \in Nat : t = FirstSecond(now + d) * MsPerSecond
    BY <2>2, FirstSecondIsFirst
  <2>4. BalanceAt(t)' = Capacity * WindowMs /\ BalanceAt(t - MsPerSecond)' < Capacity * WindowMs
    BY <1>2, <2>3, FullAgain
  <2>5. reply'.resetAt * MsPerSecond = t
    BY <2>1, <2>3
  <2>6. /\ BalanceAt(reply.resetAt * MsPerSecond)' = BalanceAt(t)'
        /\ BalanceAt(reply.resetAt * MsPerSecond - MsPerSecond)' = BalanceAt(t - MsPerSecond)'
    BY <2>5 DEF BalanceAt
  <2> QED BY <2>1, <2>4, <2>6 DEF ResetAtIsHonest, WindowMs
<1>3. ASSUME NEW c \in Costs, Deny(c) PROVE ResetAtIsHonest'
  <2> DEFINE s == Greatest(1, FirstSecond(RefillDelay(c - Tokens)))
  <2>1. reply'.allowed = FALSE /\ reply'.cost = c
        /\ reply'.resetAt = FirstSecond(now + s * MsPerSecond)
    BY <1>3 DEF Deny, Reply
  <2>2. now + s * MsPerSecond \in Nat
    <3>1. c \in 0..Capacity
      BY <1>0, <1>3, TokenBucketAssumption DEF Deny
    <3>2. RefillPhase \in 0..(WindowMs - 1)
      BY PolicyFacts
    <3>3. RefillDelay(c - Tokens) \in Nat
      BY <1>0, <3>1, <3>2, DelayFinds
    <3>4. s \in Nat
      BY <3>3, FirstSecondIsFirst DEF Greatest
    <3> HIDE DEF s
    <3>5. s * MsPerSecond \in Nat
      BY <1>0, <3>4, SMT
    <3> QED BY <1>0, <3>5
  <2>3. PICK t \in Nat : t = FirstSecond(now + s * MsPerSecond) * MsPerSecond
    BY <2>2, FirstSecondIsFirst
  <2>4. BalanceAt(t)' >= c * WindowMs /\ t >= now + MsPerSecond
    BY <1>3, <2>3, FitsThen
  <2>5. reply'.resetAt * MsPerSecond = t
    BY <2>1, <2>3
  <2>6. BalanceAt(reply.resetAt * MsPerSecond)' = BalanceAt(t)' /\ now' = now
    BY <1>3, <2>5 DEF BalanceAt, Deny
  <2> QED BY <2>1, <2>4, <2>5, <2>6 DEF ResetAtIsHonest, WindowMs
<1>4. CASE Reset
  <2>1. reply'.cost = 0
    BY <1>4 DEF Reset, NoReply, Reply
  <2> QED BY <2>1 DEF ResetAtIsHonest
<1>5. ASSUME NEW t \in 0..Horizon, Tick(t) PROVE ResetAtIsHonest'
  <2>1. reply'.cost = 0
    BY <1>5 DEF Tick, NoReply, Reply
  <2> QED BY <2>1 DEF ResetAtIsHonest
<1>6. CASE Watch
  BY <1>6 DEF Watch, ResetAtIsHonest, BalanceAt, Stored
<1>7. CASE UNCHANGED vars
  BY <1>7 DEF vars, ResetAtIsHonest, BalanceAt, Stored
<1> QED BY <1>1, <1>2, <1>3, <1>4, <1>5, <1>6, <1>7 DEF Next

\* reset_at is the first whole second at which the bucket is full; after a
\* denial it is a second at which the cost is affordable.
THEOREM ResetTimesAreHonest == Spec => []ResetAtIsHonest
<1>1. Init => ResetAtIsHonest
  BY DEF Init, ResetAtIsHonest, NoReply, Reply
<1> QED BY <1>1, ResetAtStep, SteadyHolds, PTL DEF Spec

-----------------------------------------------------------------------------
(* The script implements the ideal bucket.                                 *)

LEMMA BalanceIsValue ==
    ASSUME SteadyInv
    PROVE  BalanceAt(now) = Value /\ Value \in Nat /\ Value <= Capacity * WindowMs
BY SteadyRefill, ValueFacts DEF SteadyInv, IInv

LEMMA WholeTokens ==
    ASSUME SteadyInv
    PROVE  Value \div WindowMs = Tokens
<1>1. Tokens * WindowMs <= Value /\ Value < Tokens * WindowMs + WindowMs /\ Value \in Nat
  BY RefillKeepsWorth DEF SteadyInv, IInv
<1>2. Tokens \in 0..Capacity /\ WindowMs \in Nat \ {0}
  BY PolicyFacts
<1>3. WindowMs * Tokens = Tokens * WindowMs /\ Tokens \in Int
  BY <1>2, SMT
<1> QED BY <1>1, <1>2, <1>3, FloorIsUnique

\* What is affordable is what the balance covers.
LEMMA CostFits ==
    ASSUME SteadyInv, NEW c \in Nat
    PROVE  c <= Tokens <=> c * WindowMs <= Value
<1>1. Value \in Int /\ WindowMs \in Nat \ {0} /\ c \in Int
  BY BalanceIsValue, PolicyFacts
<1>2. c <= Value \div WindowMs <=> WindowMs * c <= Value
  BY <1>1, FloorAtLeast
<1>3. WindowMs * c = c * WindowMs
  BY <1>1, SMT
<1> QED BY <1>2, <1>3, WholeTokens

\* The search over credited units finds the very millisecond the ideal names.
LEMMA RetryIsExact ==
    ASSUME SteadyInv, NEW c \in 0..Capacity, c > Tokens
    PROVE  RefillDelay(c - Tokens) = Ideal!MsToGain(c * WindowMs - Value)
<1> DEFINE W == WindowMs
           C == Capacity
           p == RefillPhase
           v == Value
           n == c * W - v
           delay == RefillDelay(c - Tokens)
           ms == (n + C - 1) \div C
<1>0. /\ Tokens \in 0..C /\ W \in Nat \ {0} /\ C \in Nat \ {0}
      /\ p \in 0..(W - 1) /\ p \in Nat /\ C * W \in Nat /\ c \in Nat /\ Tokens \in Nat
  BY PolicyFacts
<1>1. v \in Nat /\ v = Tokens * W + (C * p - W * Credit(p))
  BY SteadyRefill, BalanceIsValue DEF SteadyInv, IInv
<1>2. /\ delay \in 0..W /\ delay \in Nat
      /\ \A d \in 0..W : delay <= d <=> c * W <= Held(Tokens, p, d)
  BY <1>0, DelayFinds
<1>3. n > 0 /\ n <= C * W /\ n \in Int
  <2>1. ~(c * W <= v) /\ c * W \in Nat
    BY <1>0, CostFits, SMT
  <2>2. W * c <= W * C /\ W * c = c * W /\ W * C = C * W
    BY <1>0, ProductMonotone
  <2> QED BY <1>0, <1>1, <2>1, <2>2
<1> HIDE DEF W, C, p, v, delay
<1>4. ASSUME NEW d \in 0..W PROVE c * W <= Held(Tokens, p, d) <=> n <= C * d
  <2>1. d \in Int /\ Credit(p) \in Nat
    <3>1. d \in Int
      BY <1>0
    <3>2. Credit(p) \in Nat
      BY <1>0, CreditFacts
    <3> QED BY <3>1, <3>2
  <2>2. Held(Tokens, p, d) = Tokens * W + (C * p - W * Credit(p)) + C * d
    <3>1. /\ (Tokens - Credit(p)) * W = Tokens * W - W * Credit(p) /\ C * (p + d) = C * p + C * d
          /\ Tokens * W \in Int /\ W * Credit(p) \in Int /\ C * p \in Int /\ C * d \in Int
      BY <1>0, <2>1, SMT
    <3> QED BY <3>1 DEF Held, W, C
  <2>3. c * W \in Int /\ C * d \in Int
    BY <1>0, <2>1, SMT
  <2> QED BY <1>1, <2>2, <2>3
<1> HIDE DEF n
<1>5. ms \in Int /\ \A k \in Int : ms <= k <=> n <= C * k
  BY <1>0, <1>3, CeilingAtMost
<1> HIDE DEF ms
<1>6. ms \in 0..W
  <2>1. ms <= W
    BY <1>0, <1>3, <1>5
  <2>2. ~(ms <= 0)
    <3>1. C * 0 = 0
      BY <1>0, SMT
    <3> QED BY <1>3, <1>5, <3>1
  <2> QED BY <1>0, <1>5, <2>1, <2>2
<1>7. \A d \in 0..W : delay <= d <=> ms <= d
  <2> TAKE d \in 0..W
  <2>1. d \in Int
    BY <1>0
  <2> QED BY <1>2, <1>4, <1>5, <2>1
<1>8. delay = ms
  <2>1. delay <= ms /\ ms <= delay
    BY <1>0, <1>2, <1>5, <1>6, <1>7
  <2> QED BY <1>2, <1>5, <2>1
<1> QED BY <1>8 DEF delay, ms, n, W, C, v, Ideal!MsToGain

LEMMA IdealInit == Init => Ideal!Init
<1> SUFFICES ASSUME Init PROVE Ideal!Init
  OBVIOUS
<1>1. SteadyInv /\ expiry = NoKey /\ now = 0
  BY SteadyInit DEF Init
<1>2. BalanceAt(now) = Capacity * WindowMs
  BY <1>1, BalanceIsValue, NoKeyIsFull
<1> QED BY <1>2 DEF Init, Ideal!Init, Ideal!Full, Ideal!NoVerdict, Ideal!Verdict, NoReply, Reply

\* Time passes: what flows in is exactly what the ideal bucket gains, also when
\* the key expires meanwhile.
LEMMA BalanceFlows ==
    ASSUME SteadyInv, SteadyInv', NEW t \in 0..Horizon, Tick(t)
    PROVE  Value' = Least(Capacity * WindowMs, Value + Capacity * (t - now))
<1> DEFINE W == WindowMs
           C == Capacity
           T == bucket.tokens
           O == bucket.origin
           U == bucket.units
           g == C * (t - now)
<1>0. /\ now \in Nat /\ W \in Nat \ {0} /\ C \in Nat \ {0} /\ C * W \in Nat
      /\ t \in Nat /\ t > now /\ now' = t
  BY PolicyFacts, TokenBucketAssumption DEF Tick
<1>1. g \in Nat /\ Value \in Nat
  <2>1. g \in Nat
    BY <1>0, SMT
  <2> QED BY <2>1, BalanceIsValue
<1>2. expiry' = NoKey => Value' = C * W
  <2>1. expiry' = NoKey => (Value = C * W)'
    <3>1. (now \in Nat /\ expiry = NoKey => Value = C * W)'
      BY NoKeyIsFull, PTL
    <3> QED BY <1>0, <3>1 DEF NoKey
  <2> QED BY <2>1 DEF WindowMs
<1>3. CASE expiry = NoKey
  <2>1. expiry' = NoKey /\ Value = C * W
    BY <1>0, <1>3, NoKeyIsFull DEF Tick
  <2> QED BY <1>0, <1>1, <1>2, <2>1 DEF Least
<1>4. CASE expiry # NoKey
  <2>1. /\ expiry \in Nat /\ T \in 0..C /\ O \in Nat /\ U \in 0..C
        /\ O <= LastWrite /\ LastWrite <= now /\ U * W <= C * (now - O)
    BY <1>4 DEF SteadyInv, IInv, TypeOK, BookkeepingBounded, KeepsPace
  <2>2. /\ Value = Least(C * W, T * W + AtLeast0((now - O) * C - U * W))
    BY <1>4 DEF Value, Worth, Stored
  <2>3. /\ T * W \in Nat /\ U * W \in Nat /\ (now - O) * C = C * (now - O) /\ C * (now - O) \in Int
        /\ (t - O) * C = C * (now - O) + g /\ (t - O) * C \in Int
    BY <1>0, <2>1, SMT
  <2> HIDE DEF T, O, U, W, C, g
  <2>4. Value = Least(C * W, T * W + (C * (now - O) - U * W))
    BY <2>1, <2>2, <2>3 DEF AtLeast0
  <2>5. CASE t > expiry
    <3>1. Value' = C * W
      BY <1>2, <1>4, <2>5 DEF Tick
    <3>2. T * W + (C * (now - O) - U * W) + g >= C * W
      <4>1. t - O >= 2 * W
        BY <1>0, <2>1, <2>5, TtlCoversTwoWindows, WindowMsNat DEF LastWrite, W
      <4>2. C * (2 * W) <= C * (t - O) /\ C * (2 * W) = C * W + C * W /\ C * (t - O) = (t - O) * C
        BY <1>0, <2>1, <4>1, ProductMonotone
      <4>3. U * W <= C * W
        <5>1. W * U <= W * C
          BY <1>0, <2>1, ProductMonotone
        <5>2. W * U = U * W /\ W * C = C * W
          BY <1>0, <2>1, SMT
        <5> QED BY <5>1, <5>2
      <4> QED BY <1>0, <1>1, <2>3, <4>2, <4>3
    <3> QED BY <1>0, <1>1, <2>3, <2>4, <3>1, <3>2 DEF Least, g, C, W
  <2>6. CASE ~(t > expiry)
    <3>1. bucket' = bucket /\ expiry' = expiry
      BY <1>4, <2>6 DEF Tick
    <3>2. Value' = Least(C * W, T * W + AtLeast0((t - O) * C - U * W))
      BY <1>0, <1>4, <3>1 DEF Value, Worth, Stored, WindowMs, NoKey, T, O, U, W, C
    <3>3. Value' = Least(C * W, T * W + (C * (now - O) + g - U * W))
      BY <1>1, <2>1, <2>3, <3>2 DEF AtLeast0
    <3>4. Value' = Least(C * W, Value + g)
      BY <1>0, <1>1, <2>3, <2>4, <3>3 DEF Least
    <3> QED BY <3>4 DEF g, C, W
  <2> QED BY <2>5, <2>6
<1> QED BY <1>3, <1>4

LEMMA IdealStep == SteadyInv /\ SteadyInv' /\ [Next]_vars => [Ideal!Next]_(Ideal!idealVars)
<1> SUFFICES ASSUME SteadyInv, SteadyInv', [Next]_vars PROVE [Ideal!Next]_(Ideal!idealVars)
  OBVIOUS
<1> DEFINE W == WindowMs
           b == BalanceAt(now)
<1>0. /\ now \in Nat /\ Tokens \in 0..Capacity /\ W \in Nat \ {0} /\ Capacity \in Nat \ {0}
      /\ Capacity * W \in Nat /\ Tokens \in Nat
  BY PolicyFacts
<1>1. b = Value /\ Value \in Nat /\ Value <= Capacity * W /\ b' = Value'
  <2>1. (BalanceAt(now) = Value)'
    BY BalanceIsValue, PTL
  <2> QED BY <2>1, BalanceIsValue
<1>2. \A c \in Costs : c \in Nat /\ c \in Int
  BY TokenBucketAssumption
<1>3. ASSUME UNCHANGED <<now, bucket, expiry>> PROVE b' = b
  BY <1>3 DEF BalanceAt, Stored
<1> HIDE DEF b
<1>4. ASSUME NEW c \in Costs, DenyOversized(c) PROVE Ideal!Refuse(c)
  <2>1. c > Capacity /\ UNCHANGED <<now, bucket, expiry>>
        /\ reply' = Reply(c, FALSE, Tokens, -1, 0)
    BY <1>4 DEF DenyOversized
  <2>2. b' = b /\ now' = now
    BY <1>3, <2>1
  <2>3. c * W > b
    <3>1. ~(c <= Tokens)
      BY <1>0, <1>2, <2>1
    <3>2. c * W \in Int
      BY <1>0, <1>2, SMT
    <3> QED BY <1>1, <1>2, <3>1, <3>2, CostFits
  <2>4. b \div W = Tokens
    BY <1>1, WholeTokens
  <2> QED BY <2>1, <2>2, <2>3, <2>4 DEF Ideal!Refuse, Ideal!Verdict, Reply, b
<1>5. ASSUME NEW c \in Costs, Admit(c) PROVE Ideal!Take(c)
  <2>1. /\ c <= Tokens /\ Write(Tokens - c) /\ now' = now /\ reply'.cost = c
        /\ reply'.allowed = TRUE /\ reply'.remaining = Tokens - c /\ reply'.retry = 0
    BY <1>5 DEF Admit, Reply
  <2>2. c \in 0..Tokens
    BY <1>0, <1>2, <2>1
  <2>3. b' = b - c * W
    BY <1>1, <2>1, <2>2, WriteKeepsWorth DEF SteadyInv, IInv
  <2>4. c * W <= b
    BY <1>1, <1>2, <2>1, CostFits
  <2>5. b' \div W = Tokens - c
    <3>1. (Value \div WindowMs = Tokens)'
      BY WholeTokens, PTL
    <3>2. Tokens * W <= Value /\ Value < Tokens * W + W
      BY RefillKeepsWorth DEF SteadyInv, IInv
    <3> DEFINE k == Tokens - c
    <3>3. W * k = Tokens * W - c * W /\ Tokens * W \in Int /\ c * W \in Int /\ k \in Int
      BY <1>0, <1>2, SMT
    <3>4. b' \in Int /\ W * k <= b' /\ b' < W * k + W
      BY <1>0, <1>1, <2>3, <3>2, <3>3
    <3> HIDE DEF k
    <3>5. PICK m \in Int : m = b'
      BY <3>4
    <3>6. m \div W = k
      BY <1>0, <3>3, <3>4, <3>5, FloorIsUnique
    <3> QED BY <3>5, <3>6 DEF k
  <2> QED BY <2>1, <2>3, <2>4, <2>5 DEF Ideal!Take, Ideal!Verdict, b
<1>6. ASSUME NEW c \in Costs, Deny(c) PROVE Ideal!Refuse(c)
  <2>1. /\ c <= Capacity /\ c > Tokens /\ Write(Tokens - 0) /\ now' = now /\ reply'.cost = c
        /\ reply'.allowed = FALSE /\ reply'.remaining = Tokens
        /\ reply'.retry = RefillDelay(c - Tokens)
    BY <1>0, <1>6 DEF Deny, Reply
  <2>2. 0 \in 0..Tokens /\ c \in 0..Capacity
    BY <1>0, <1>2, <2>1
  <2>3. b' = b
    <3>1. Value' = Value - 0 * W
      BY <2>1, <2>2, WriteKeepsWorth DEF SteadyInv, IInv
    <3>2. 0 * W = 0
      BY <1>0, SMT
    <3> QED BY <1>1, <3>1, <3>2
  <2>4. c * W > b
    <3>1. ~(c <= Tokens)
      BY <1>0, <1>2, <2>1
    <3>2. c * W \in Int
      BY <1>0, <1>2, SMT
    <3> QED BY <1>1, <1>2, <3>1, <3>2, CostFits
  <2>5. b \div W = Tokens
    BY <1>1, WholeTokens
  <2>6. reply'.retry = Ideal!MsToGain(c * WindowMs - b)
    BY <1>1, <2>1, <2>2, RetryIsExact
  <2>7. ~(c > Capacity)
    BY <1>0, <1>2, <2>1
  <2> QED BY <2>1, <2>3, <2>4, <2>5, <2>6, <2>7 DEF Ideal!Refuse, Ideal!Verdict, b
<1>7. ASSUME Reset PROVE Ideal!Forgive
  <2>1. expiry' = NoKey /\ now' = now /\ reply' = NoReply
    BY <1>7 DEF Reset
  <2>2. b' = Capacity * W
    <3>1. (now \in Nat /\ expiry = NoKey => Value = Capacity * WindowMs)'
      BY NoKeyIsFull, PTL
    <3> QED BY <1>0, <1>1, <2>1, <3>1 DEF NoKey, WindowMs
  <2> QED BY <2>1, <2>2 DEF Ideal!Forgive, Ideal!Full, Ideal!NoVerdict, Ideal!Verdict,
             NoReply, Reply, b
<1>8. ASSUME NEW t \in 0..Horizon, Tick(t) PROVE Ideal!Flow
  <2>1. now' = t /\ t > now /\ t \in Nat /\ reply' = NoReply
    BY <1>8, TokenBucketAssumption DEF Tick
  <2>2. b' = Least(Capacity * W, b + Capacity * (t - now))
    BY <1>1, <1>8, BalanceFlows
  <2>3. b + Capacity * (t - now) \in Int
    <3>1. Capacity * (t - now) \in Int
      BY <1>0, <2>1, SMT
    <3> QED BY <1>1, <3>1
  <2>4. b' = IF b + Capacity * (t - now) < Capacity * W THEN b + Capacity * (t - now) ELSE Capacity * W
    BY <1>0, <2>2, <2>3 DEF Least
  <2> QED BY <2>1, <2>4 DEF Ideal!Flow, Ideal!Full, Ideal!NoVerdict, Ideal!Verdict, NoReply, Reply, b
<1>9. ASSUME Watch PROVE UNCHANGED Ideal!idealVars
  <2>1. UNCHANGED <<now, bucket, expiry, reply>>
    BY <1>9 DEF Watch
  <2> QED BY <1>3, <2>1 DEF Ideal!idealVars, b
<1>10. ASSUME UNCHANGED vars PROVE UNCHANGED Ideal!idealVars
  <2>1. UNCHANGED <<now, bucket, expiry, reply>>
    BY <1>10 DEF vars
  <2> QED BY <1>3, <2>1 DEF Ideal!idealVars, b
<1> QED BY <1>4, <1>5, <1>6, <1>7, <1>8, <1>9, <1>10 DEF Next, Ideal!Next

\* The script implements the ideal bucket: whatever is asked of it and however
\* often, it admits what the ideal admits, names the tokens the ideal has left,
\* and the milliseconds until a refused cost fits.
THEOREM ImplementsIdeal == Spec => IdealSpec
<1> QED BY IdealInit, IdealStep, SteadyHolds, PTL DEF Spec, IdealSpec, Ideal!Spec
=============================================================================
