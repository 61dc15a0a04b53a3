-------------------------- MODULE ArithmeticProofs --------------------------
(***************************************************************************)
(* What the proofs about the three algorithms share: division, induction   *)
(* over the natural numbers, and what the scripts' binary search finds;    *)
(* and that the conversions around a decision keep what it says, for every *)
(* rate, cost and delay.                                                   *)
(***************************************************************************)
EXTENDS BinarySearch, Decision, TLAPS, WellFoundedInduction

-----------------------------------------------------------------------------
(* Induction, stated with a set where a theorem over a predicate could not *)
(* be instantiated.                                                        *)

LEMMA LeastNumber ==
    ASSUME NEW S, S \subseteq Nat, S # {}
    PROVE  \E m \in S : \A n \in S : m <= n
<1>1. \A m \in Nat, n \in Nat : n < m => <<n, m>> \in OpToRel(<, Nat)
  BY DEF OpToRel
<1>2. PICK m \in S : \A n \in S : ~(<<n, m>> \in OpToRel(<, Nat))
  BY NatLessThanWellFounded, WFMin, Zenon
<1>3. \A n \in S : ~(n < m)
  BY <1>1, <1>2, Zenon
<1>4. \A n \in S : m \in Nat /\ n \in Nat
  OBVIOUS
<1> HIDE <1>2
<1> QED BY <1>3, <1>4

LEMMA Induction ==
    ASSUME NEW S, 0 \in S, \A n \in Nat : n \in S => n + 1 \in S
    PROVE  Nat \subseteq S
<1> SUFFICES ASSUME Nat \ S # {} PROVE FALSE
  OBVIOUS
<1>1. PICK m \in Nat \ S : \A n \in Nat \ S : m <= n
  BY LeastNumber, Zenon
<1>2. m # 0 /\ m - 1 \in Nat
  BY <1>1
<1>3. m - 1 \in S
  BY <1>1, <1>2
<1>4. (m - 1) + 1 \in S
  BY <1>2, <1>3
<1> QED BY <1>1, <1>4

-----------------------------------------------------------------------------
(* Division.                                                               *)

LEMMA DivisionFacts ==
    ASSUME NEW n \in Nat, NEW d \in Nat \ {0}
    PROVE  /\ n \div d \in Nat
           /\ n % d \in 0..(d - 1)
           /\ n = d * (n \div d) + (n % d)
BY SMT

LEMMA ProductOrder ==
    ASSUME NEW a \in Int, NEW b \in Int, NEW d \in Nat \ {0}, d * a < d * b + d
    PROVE  a <= b
<1>1. SUFFICES ASSUME a >= b + 1 PROVE FALSE
  BY SMT
<1>2. d * (a - (b + 1)) >= 0
  BY <1>1, SMT
<1>3. d * (a - (b + 1)) = d * a - (d * b + d)
  BY SMT
<1> QED BY <1>2, <1>3, SMT

\* The quotient of a larger number is at least as large.
LEMMA DivisionMonotone ==
    ASSUME NEW n \in Nat, NEW m \in Nat, NEW d \in Nat \ {0}, n <= m
    PROVE  n \div d <= m \div d
<1>1. d * (n \div d) <= m
  BY DivisionFacts, SMT
<1>2. m < d * (m \div d) + d
  BY DivisionFacts, SMT
<1> QED BY <1>1, <1>2, DivisionFacts, ProductOrder, SMT

\* Rounding down to a multiple of d: the multiple stays, or grows by d at least.
LEMMA RoundedDown ==
    ASSUME NEW n \in Nat, NEW m \in Nat, NEW d \in Nat \ {0}, n <= m
    PROVE  \/ m - (m % d) = n - (n % d)
           \/ m - (m % d) >= n - (n % d) + d
<1> DEFINE p == n \div d
           q == m \div d
<1>1. p \in Nat /\ q \in Nat /\ p <= q
  BY DivisionFacts, DivisionMonotone
<1>2. n - (n % d) = d * p /\ m - (m % d) = d * q
  BY DivisionFacts, SMT
<1>3. CASE p = q
  BY <1>2, <1>3
<1>4. CASE p + 1 <= q
  <2>1. d * (q - (p + 1)) >= 0
    BY <1>1, <1>4, SMT
  <2>2. d * (q - (p + 1)) = d * q - (d * p + d)
    BY <1>1, SMT
  <2> QED BY <1>1, <1>2, <2>1, <2>2, SMT
<1> QED BY <1>1, <1>3, <1>4, SMT

\* A product does not decrease when a factor grows.
LEMMA ProductMonotone ==
    ASSUME NEW a \in Int, NEW b \in Int, NEW d \in Nat, a <= b
    PROVE  d * a <= d * b /\ d * a \in Int /\ d * b \in Int
<1>1. d * (b - a) >= 0
  BY SMT
<1>2. d * (b - a) = d * b - d * a
  BY SMT
<1> QED BY <1>1, <1>2, SMT

LEMMA FloorFacts ==
    ASSUME NEW n \in Int, NEW d \in Nat \ {0}
    PROVE  n \div d \in Int /\ d * (n \div d) <= n /\ n < d * (n \div d) + d
BY SMT

\* k is at most the quotient exactly if k divisors fit.
LEMMA FloorAtLeast ==
    ASSUME NEW n \in Int, NEW d \in Nat \ {0}, NEW k \in Int
    PROVE  k <= n \div d <=> d * k <= n
<1> DEFINE q == n \div d
<1>1. q \in Int /\ d * q <= n /\ n < d * q + d
  BY FloorFacts
<1> HIDE DEF q
<1>2. k <= q => d * k <= n
  BY <1>1, ProductMonotone, SMT
<1>3. d * k <= n => d * k < d * q + d
  BY <1>1, SMT
<1>4. d * k <= n => k <= q
  BY <1>1, <1>3, ProductOrder
<1> QED BY <1>2, <1>4 DEF q

\* The only number whose multiple comes within one divisor is the quotient.
LEMMA FloorIsUnique ==
    ASSUME NEW n \in Int, NEW d \in Nat \ {0}, NEW k \in Int, d * k <= n, n < d * k + d
    PROVE  n \div d = k
<1> DEFINE q == n \div d
<1>1. q \in Int /\ d * q <= n /\ n < d * q + d
  BY FloorFacts
<1> HIDE DEF q
<1>2. d * k < d * q + d /\ d * q < d * k + d
  BY <1>1, SMT
<1>3. k <= q /\ q <= k
  BY <1>1, <1>2, ProductOrder
<1> QED BY <1>1, <1>3 DEF q

\* A quotient rounded up is at most k exactly if k divisors cover the number.
LEMMA CeilingAtMost ==
    ASSUME NEW n \in Int, NEW d \in Nat \ {0}, NEW k \in Int
    PROVE  /\ (n + d - 1) \div d \in Int
           /\ (n + d - 1) \div d <= k <=> n <= d * k
<1> DEFINE q == (n + d - 1) \div d
<1>1. q \in Int /\ d * q <= n + d - 1 /\ n + d - 1 < d * q + d
  BY FloorFacts, SMT
<1> HIDE DEF q
<1>2. q <= k => n <= d * k
  BY <1>1, ProductMonotone, SMT
<1>3. n <= d * k => d * q < d * k + d
  BY <1>1, SMT
<1>4. n <= d * k => q <= k
  BY <1>1, <1>3, ProductOrder
<1> QED BY <1>1, <1>2, <1>4 DEF q

-----------------------------------------------------------------------------
(* The binary search.                                                      *)

Ranges(low, high) == (low..high) \X (low..high)

Middle(range) == (range[1] + range[2]) \div 2

\* One turn of the loop, given what f answers for shorter ranges.
Turn(good, f, range) ==
    IF range[1] >= range[2]
    THEN range[1]
    ELSE IF Middle(range) \in good
         THEN f[<<range[1], Middle(range)>>]
         ELSE f[<<Middle(range) + 1, range[2]>>]

LEMMA HalvesAreShorter ==
    ASSUME NEW low \in Int, NEW high \in Int, NEW range \in Ranges(low, high), range[1] < range[2]
    PROVE  /\ range[1] \in Int /\ range[2] \in Int /\ Middle(range) \in Int
           /\ range[1] <= Middle(range) /\ Middle(range) < range[2]
           /\ <<range[1], Middle(range)>> \in Ranges(low, high)
           /\ <<Middle(range) + 1, range[2]>> \in Ranges(low, high)
<1>1. range[1] \in low..high /\ range[2] \in low..high
  BY DEF Ranges
<1>2. \A a, b \in Int : a < b => (a + b) \div 2 \in Int /\ a <= (a + b) \div 2 /\ (a + b) \div 2 < b
  OBVIOUS
<1>3. Middle(range) \in Int /\ range[1] <= Middle(range) /\ Middle(range) < range[2]
  BY <1>1, <1>2 DEF Middle
<1> HIDE <1>2
<1> QED BY <1>1, <1>3 DEF Ranges

\* The recursive definition has a solution, so the search is one.
LEMMA SearchIsDefined ==
    ASSUME NEW good, NEW low \in Int, NEW high \in Int
    PROVE  \E f : f = [range \in Ranges(low, high) |-> Turn(good, f, range)]
<1> DEFINE D == Ranges(low, high)
           Length(range) == range[2] - range[1]
           Right(f, n) == \A range \in D : Length(range) < n => f[range] = Turn(good, f, range)
           S == {n \in Nat : \E f : f = [range \in D |-> f[range]] /\ Right(f, n)}
<1>0. \A range \in D : range[1] \in low..high /\ range[2] \in low..high
  BY DEF Ranges
<1>1. 0 \in S
  <2> DEFINE f == [range \in D |-> range[1]]
  <2>1. Right(f, 0)
    BY <1>0 DEF Turn
  <2> QED BY <2>1
<1>2. ASSUME NEW n \in S PROVE n + 1 \in S
  <2>1. PICK f : f = [range \in D |-> f[range]] /\ Right(f, n)
    OBVIOUS
  <2> DEFINE g == [range \in D |-> Turn(good, f, range)]
  <2>2. ASSUME NEW range \in D, Length(range) < n + 1
        PROVE  g[range] = Turn(good, g, range)
    <3>1. CASE range[1] >= range[2]
      BY <3>1 DEF Turn
    <3>2. CASE range[1] < range[2]
      <4> DEFINE lower == <<range[1], Middle(range)>>
                 upper == <<Middle(range) + 1, range[2]>>
      <4>1. /\ range[1] \in Int /\ range[2] \in Int /\ Middle(range) \in Int
            /\ range[1] <= Middle(range) /\ Middle(range) < range[2]
            /\ lower \in D /\ upper \in D
        BY <3>2, HalvesAreShorter
      <4>2. Length(lower) < n /\ Length(upper) < n
        BY <2>2, <4>1
      <4>3. f[lower] = g[lower] /\ f[upper] = g[upper]
        BY <2>1, <4>1, <4>2
      <4>4. Turn(good, f, range) = Turn(good, g, range)
        BY <3>2, <4>3 DEF Turn
      <4> QED BY <4>4
    <3> QED BY <1>0, <3>1, <3>2
  <2>3. Right(g, n + 1)
    BY <2>2
  <2>4. g = [range \in D |-> g[range]]
    OBVIOUS
  <2>5. n + 1 \in Nat
    OBVIOUS
  <2> HIDE DEF g, Length, D, Right
  <2>6. \E h : h = [range \in D |-> h[range]] /\ Right(h, n + 1)
    BY <2>3, <2>4, Zenon
  <2> QED BY <2>5, <2>6
<1>3. Nat \subseteq S
  <2> HIDE DEF S
  <2> QED BY <1>1, <1>2, Induction
<1> DEFINE n == IF low <= high THEN high - low + 1 ELSE 0
<1>4. n \in Nat /\ \A range \in D : Length(range) < n
  BY <1>0
<1>5. PICK f : f = [range \in D |-> f[range]] /\ Right(f, n)
  BY <1>3, <1>4
<1>6. f = [range \in D |-> Turn(good, f, range)]
  BY <1>4, <1>5
<1> QED BY <1>6

\* The search obeys its definition.
LEMMA SearchTurns ==
    ASSUME NEW good, NEW low \in Int, NEW high \in Int
    PROVE  \E f : /\ \A range \in Ranges(low, high) : f[range] = Turn(good, f, range)
                  /\ FirstIn(good, low, high) = f[<<low, high>>]
<1> DEFINE search == CHOOSE f : f = [range \in Ranges(low, high) |-> Turn(good, f, range)]
<1>1. search = [range \in Ranges(low, high) |-> Turn(good, search, range)]
  BY SearchIsDefined, Zenon
<1>2. FirstIn(good, low, high) = search[<<low, high>>]
  BY Zenon DEF FirstIn, Turn, Middle, Ranges
<1> HIDE DEF search
<1> QED BY <1>1, <1>2

\* Whatever is good: the answer is good unless it is the last candidate, and
\* the candidate before it is not, unless it is the first.
LEMMA SearchAnswer ==
    ASSUME NEW good, NEW low \in Int, NEW high \in Int, low <= high
    PROVE  LET x == FirstIn(good, low, high)
           IN  /\ x \in low..high
               /\ x = high \/ x \in good
               /\ x = low \/ x - 1 \notin good
<1> DEFINE D == Ranges(low, high)
<1>1. PICK f : /\ \A range \in D : f[range] = Turn(good, f, range)
               /\ FirstIn(good, low, high) = f[<<low, high>>]
  BY SearchTurns, Zenon
<1> DEFINE Answers(range) ==
               /\ f[range] \in range[1]..range[2]
               /\ f[range] = range[2] \/ f[range] \in good
               /\ f[range] = range[1] \/ f[range] - 1 \notin good
           S == {n \in Nat : \A range \in D :
                    range[1] <= range[2] /\ range[2] - range[1] <= n => Answers(range)}
<1>0. \A range \in D : range[1] \in low..high /\ range[2] \in low..high
  BY DEF Ranges
<1>2. 0 \in S
  <2> SUFFICES ASSUME NEW range \in D, range[1] <= range[2], range[2] - range[1] <= 0
               PROVE  Answers(range)
    OBVIOUS
  <2>1. range[1] \in Int /\ range[2] = range[1]
    BY <1>0
  <2>2. f[range] = range[1]
    BY <1>1, <2>1 DEF Turn
  <2> QED BY <2>1, <2>2
<1>3. ASSUME NEW n \in S PROVE n + 1 \in S
  <2> SUFFICES ASSUME NEW range \in D, range[1] <= range[2], range[2] - range[1] <= n + 1
               PROVE  Answers(range)
    OBVIOUS
  <2>0. range[1] \in Int /\ range[2] \in Int /\ f[range] = Turn(good, f, range)
    BY <1>0, <1>1
  <2>1. CASE range[1] = range[2]
    <3>1. f[range] = range[1]
      BY <2>0, <2>1 DEF Turn
    <3> QED BY <2>0, <2>1, <3>1
  <2>2. CASE range[1] < range[2]
    <3> DEFINE m == Middle(range)
               lower == <<range[1], m>>
               upper == <<m + 1, range[2]>>
    <3>1. /\ m \in Int /\ range[1] <= m /\ m < range[2]
          /\ lower \in D /\ upper \in D
      BY <2>2, HalvesAreShorter
    <3>2. lower[1] = range[1] /\ lower[2] = m /\ upper[1] = m + 1 /\ upper[2] = range[2]
      OBVIOUS
    <3>3. Answers(lower) /\ Answers(upper)
      BY <2>0, <3>1, <3>2
    <3>4. f[range] = IF m \in good THEN f[lower] ELSE f[upper]
      BY <2>0, <2>2 DEF Turn
    <3> HIDE DEF m, lower, upper
    <3>5. CASE m \in good
      BY <2>0, <3>1, <3>2, <3>3, <3>4, <3>5
    <3>6. CASE m \notin good
      BY <2>0, <3>1, <3>2, <3>3, <3>4, <3>6
    <3> QED BY <3>5, <3>6
  <2> QED BY <2>0, <2>1, <2>2
<1>4. Nat \subseteq S
  <2> HIDE DEF S
  <2> QED BY <1>2, <1>3, Induction
<1>5. <<low, high>> \in D /\ high - low \in Nat
  BY DEF Ranges
<1>6. Answers(<<low, high>>)
  BY <1>4, <1>5
<1> QED BY <1>1, <1>6

\* If everything from some candidate on is good, the answer is the first.
THEOREM SearchFindsFirst ==
    ASSUME NEW good, NEW low \in Int, NEW high \in Int, low <= high, high \in good,
           \A i, j \in low..high : i <= j /\ i \in good => j \in good
    PROVE  LET x == FirstIn(good, low, high)
           IN  /\ x \in low..high
               /\ \A i \in low..high : i \in good <=> x <= i
<1> DEFINE x == FirstIn(good, low, high)
<1>1. x \in low..high /\ x \in good /\ (x = low \/ x - 1 \notin good)
  BY SearchAnswer
<1> HIDE DEF x
<1>2. ASSUME NEW i \in low..high, i \in good, i < x PROVE FALSE
  <2>1. i \in Int /\ x \in Int /\ x - 1 \in low..high /\ i <= x - 1 /\ x # low
    BY <1>1, <1>2
  <2>2. x - 1 \in good
    BY <1>2, <2>1
  <2> QED BY <1>1, <2>1, <2>2
<1>3. ASSUME NEW i \in low..high, x <= i PROVE i \in good
  BY <1>1, <1>3
<1>4. \A i \in low..high : ~(i < x) => x <= i
  BY <1>1
<1>5. \A i \in low..high : i \in good <=> x <= i
  BY <1>2, <1>3, <1>4
<1> QED BY <1>1, <1>5 DEF x

-----------------------------------------------------------------------------
(* The conversions around a decision.                                      *)

\* A clamped cost meets the same verdict as the cost that was asked for: it
\* fits what is left of the quota exactly if that does (limiter.py:346-348).
THEOREM ClampKeepsVerdict ==
    ASSUME NEW requests \in Nat \ {0}, NEW cost \in Nat \ {0}, NEW used \in Nat
    PROVE  used + ScaledCost(cost, requests) <= Scaled(requests)
               <=> used + Scaled(cost) <= Scaled(requests)
<1>1. CASE cost <= requests
  BY <1>1 DEF ScaledCost, Clamped
<1>2. CASE cost > requests
  BY <1>2 DEF ScaledCost, Clamped, Scaled
<1> QED BY <1>1, <1>2

\* The remaining requests a caller is told are those that would be admitted:
\* a cost fits what the script has left exactly if it is at most that many,
\* however much of a request is left over (limiter.py:437).
THEOREM RemainingIsAffordable ==
    ASSUME NEW remaining \in Nat, NEW cost \in Nat
    PROVE  Scaled(cost) <= remaining <=> cost <= WholeRequests(remaining)
<1> DEFINE whole == remaining \div 1000
<1>1. whole \in Nat /\ 1000 * whole <= remaining /\ remaining < 1000 * whole + 1000
  OBVIOUS
<1> HIDE DEF whole
<1>2. 1000 * cost <= remaining <=> cost <= whole
  <2>1. ASSUME cost <= whole PROVE 1000 * cost <= remaining
    BY <1>1, <2>1
  <2>2. ASSUME 1000 * cost <= remaining PROVE cost <= whole
    BY <1>1, <2>2
  <2> QED BY <2>1, <2>2
<1> QED BY <1>2 DEF Scaled, WholeRequests, whole

\* A caller who waits the seconds of a denial has waited the script's delay,
\* less than a second more unless the delay is under a second, and never zero
\* (limiter.py:438-442).
THEOREM RetryIsNeverEarly ==
    ASSUME NEW retry \in Nat, NEW seconds, seconds = WholeSeconds(retry, FALSE)
    PROVE  /\ seconds >= 1
           /\ 1000 * seconds >= retry
           /\ retry > 0 => 1000 * (seconds - 1) < retry
<1> DEFINE rounded == (retry + 999) \div 1000
<1>1. rounded \in Nat /\ 1000 * rounded <= retry + 999 /\ retry + 999 < 1000 * rounded + 1000
  OBVIOUS
<1>2. seconds = IF rounded > 1 THEN rounded ELSE 1
  BY DEF WholeSeconds
<1> HIDE DEF rounded
<1>3. seconds \in Nat /\ rounded \in Nat
  BY ONLY <1>1, <1>2
<1>4. CASE rounded > 1
  <2>1. seconds = rounded
    BY ONLY <1>2, <1>4
  <2> QED BY ONLY <1>1, <1>3, <1>4, <2>1, retry \in Nat
<1>5. CASE ~(rounded > 1)
  <2>1. seconds = 1 /\ rounded <= 1
    BY ONLY <1>1, <1>2, <1>5
  <2> QED BY ONLY <1>1, <2>1, retry \in Nat
<1> QED BY <1>4, <1>5
=============================================================================
