---------------------------- MODULE ResetProofs ----------------------------
(***************************************************************************)
(* Proofs about the keys, for any identities, tenants, scopes, policies    *)
(* and numbers, whatever they look like; and about reset, for any keys and *)
(* algorithms, any number of resets and any size of batches.               *)
(***************************************************************************)
EXTENDS Reset, SequenceTheorems, FiniteSetTheorems, TLAPS

-----------------------------------------------------------------------------
(* The keys.                                                               *)

LEMMA PartsTyped ==
    ASSUME NEW k \in Key
    PROVE  /\ k.tail \in Seq(Texts) /\ Len(k.tail) \in 1..2
           /\ k.scope \in Seq(Texts) /\ Len(k.scope) \in 0..1
           /\ k.policy \in Texts /\ k.policy \in Policies /\ k.tenant \in Texts
<1> USE KeySchemeAssumption DEF KeySchemeAssumption, Words
<1>1. k.tail \in Seq(Texts) /\ Len(k.tail) \in 1..2
  <2>1. \/ k.tail = <<"bucket">> \/ k.tail = <<"bucket", "v2">>
        \/ \E n \in Numbers : k.tail = <<n>> \/ k.tail = <<"sliding", n>>
    BY DEF Key, Tails
  <2>2. CASE k.tail = <<"bucket">> \/ k.tail = <<"bucket", "v2">>
    <3>1. "bucket" \in Texts /\ "v2" \in Texts
      OBVIOUS
    <3>2. CASE k.tail = <<"bucket">>
      BY ONLY <3>1, <3>2
    <3>3. CASE k.tail = <<"bucket", "v2">>
      BY ONLY <3>1, <3>3
    <3> QED BY ONLY <2>2, <3>2, <3>3
  <2>3. ASSUME NEW n \in Numbers, k.tail = <<n>> \/ k.tail = <<"sliding", n>>
        PROVE  k.tail \in Seq(Texts) /\ Len(k.tail) \in 1..2
    <3>1. n \in Texts /\ "sliding" \in Texts
      OBVIOUS
    <3>2. CASE k.tail = <<n>>
      BY ONLY <3>1, <3>2
    <3>3. CASE k.tail = <<"sliding", n>>
      BY ONLY <3>1, <3>3
    <3> QED BY ONLY <2>3, <3>2, <3>3
  <2> QED BY <2>1, <2>2, <2>3
<1>2. k.scope \in Seq(Texts) /\ Len(k.scope) \in 0..1
  <2>1. k.scope = <<>> \/ \E t \in Texts : k.scope = <<t>>
    BY DEF Key, Maybe
  <2>2. CASE k.scope = <<>>
    BY <2>2
  <2>3. ASSUME NEW t \in Texts, k.scope = <<t>>
        PROVE  k.scope \in Seq(Texts) /\ Len(k.scope) \in 0..1
    BY <2>3
  <2> QED BY <2>1, <2>2, <2>3
<1>3. k.policy \in Texts /\ k.policy \in Policies /\ k.tenant \in Texts
  BY DEF Key
<1> QED BY <1>1, <1>2, <1>3

\* The end of a suffix, which is all the classifier looks at besides its length.
LEMMA SuffixEnds ==
    ASSUME NEW k \in Key
    PROVE  /\ Suffix(k) \in Seq(Texts)
           /\ Len(Suffix(k)) = Len(k.scope) + 1 + Len(k.tail)
           /\ FromEnd(Suffix(k), 0) = k.tail[Len(k.tail)]
           /\ FromEnd(Suffix(k), Len(k.tail)) = k.policy
           /\ Len(k.tail) = 2 => FromEnd(Suffix(k), 1) = k.tail[1]
<1> DEFINE front == k.scope \o <<k.policy>>
<1>1. /\ front \in Seq(Texts)
      /\ Len(front) = Len(k.scope) + 1
      /\ front[Len(k.scope) + 1] = k.policy
  BY PartsTyped
<1>2. Suffix(k) = front \o k.tail
  BY DEF Suffix
<1> HIDE DEF front
<1>3. Suffix(k) \in Seq(Texts) /\ Len(Suffix(k)) = Len(k.scope) + 1 + Len(k.tail)
  <2>1. k.tail \in Seq(Texts)
    BY PartsTyped
  <2>2. front \o k.tail \in Seq(Texts)
    BY <1>1, <2>1, ConcatProperties
  <2>3. Len(front \o k.tail) = Len(front) + Len(k.tail)
    BY <1>1, <2>1, ConcatProperties
  <2> QED BY <1>1, <1>2, <2>2, <2>3
<1>4. \A i \in 1..Len(k.tail) : Suffix(k)[Len(k.scope) + 1 + i] = k.tail[i]
  BY <1>1, <1>2, PartsTyped
<1>5. Suffix(k)[Len(k.scope) + 1] = k.policy
  BY <1>1, <1>2, PartsTyped
<1>6. FromEnd(Suffix(k), 0) = k.tail[Len(k.tail)]
  <2>1. Len(k.tail) \in 1..Len(k.tail) /\ Len(k.scope) \in Nat
    <3> DEFINE tail == Len(k.tail)
               scope == Len(k.scope)
    <3>1. tail \in 1..2 /\ scope \in 0..1
      BY PartsTyped
    <3> HIDE DEF tail, scope
    <3>2. tail \in 1..tail /\ scope \in Nat
      BY <3>1
    <3> QED BY <3>2 DEF tail, scope
  <2>2. Suffix(k)[Len(k.scope) + 1 + Len(k.tail)] = k.tail[Len(k.tail)]
    BY <1>4, <2>1
  <2>3. Len(Suffix(k)) - 0 = Len(k.scope) + 1 + Len(k.tail)
    BY <1>3, <2>1
  <2> QED BY <2>2, <2>3 DEF FromEnd
<1>7. FromEnd(Suffix(k), Len(k.tail)) = k.policy
  <2>1. Len(k.tail) \in Nat /\ Len(k.scope) \in Nat
    BY PartsTyped
  <2>2. Len(Suffix(k)) - Len(k.tail) = Len(k.scope) + 1
    BY <1>3, <2>1
  <2> QED BY <1>5, <2>2 DEF FromEnd
<1>8. Len(k.tail) = 2 => FromEnd(Suffix(k), 1) = k.tail[1]
  BY <1>3, <1>4, PartsTyped DEF FromEnd
<1> QED BY <1>3, <1>6, <1>7, <1>8

\* With the tenant in front there is one part more, and the same end.
LEMMA TenantSuffixEnds ==
    ASSUME NEW k \in Key
    PROVE  /\ Len(TenantSuffix(k)) = Len(Suffix(k)) + 1
           /\ \A i \in 0..2 : i < Len(Suffix(k)) =>
                FromEnd(TenantSuffix(k), i) = FromEnd(Suffix(k), i)
<1>1. Suffix(k) \in Seq(Texts) /\ k.tenant \in Texts
  BY SuffixEnds, PartsTyped
<1>2. /\ Len(TenantSuffix(k)) = Len(Suffix(k)) + 1
      /\ \A j \in 1..Len(Suffix(k)) : TenantSuffix(k)[j + 1] = Suffix(k)[j]
  BY <1>1 DEF TenantSuffix
<1>3. ASSUME NEW i \in 0..2, i < Len(Suffix(k))
      PROVE  FromEnd(TenantSuffix(k), i) = FromEnd(Suffix(k), i)
  <2> DEFINE j == Len(Suffix(k)) - i
  <2>1. j \in 1..Len(Suffix(k)) /\ j + 1 = Len(TenantSuffix(k)) - i
    BY <1>1, <1>2, <1>3
  <2> QED BY <1>2, <2>1 DEF FromEnd
<1> QED BY <1>2, <1>3

\* The tail tells the algorithms apart: by its length and by its parts.
LEMMA TailShape ==
    ASSUME NEW k \in Key
    PROVE  \/ /\ Algorithm(k) = "token_bucket"
              /\ \/ Len(k.tail) = 1 /\ k.tail[1] = "bucket"
                 \/ Len(k.tail) = 2 /\ k.tail[1] = "bucket" /\ k.tail[2] = "v2"
           \/ /\ Algorithm(k) = "sliding_window"
              /\ Len(k.tail) = 2 /\ k.tail[1] = "sliding" /\ k.tail[2] \in Numbers
           \/ /\ Algorithm(k) = "fixed_window"
              /\ Len(k.tail) = 1 /\ k.tail[1] \in Numbers
<1>1. \/ k.tail = <<"bucket">> \/ k.tail = <<"bucket", "v2">>
      \/ \E n \in Numbers : k.tail = <<n>> \/ k.tail = <<"sliding", n>>
  BY DEF Key, Tails
<1>2. CASE k.tail = <<"bucket">> \/ k.tail = <<"bucket", "v2">>
  BY <1>2 DEF Algorithm
<1>3. ASSUME NEW n \in Numbers, k.tail = <<"sliding", n>>
      PROVE  /\ Algorithm(k) = "sliding_window"
             /\ Len(k.tail) = 2 /\ k.tail[1] = "sliding" /\ k.tail[2] \in Numbers
  BY <1>3 DEF Algorithm
<1>4. ASSUME NEW n \in Numbers, k.tail = <<n>>
      PROVE  /\ Algorithm(k) = "fixed_window"
             /\ Len(k.tail) = 1 /\ k.tail[1] \in Numbers
  <2>1. n # "bucket" /\ n # "sliding"
    BY KeySchemeAssumption DEF KeySchemeAssumption, Words
  <2> QED BY <1>4, <2>1 DEF Algorithm
<1> QED BY <1>1, <1>2, <1>3, <1>4

\* For parts that end like the suffix of a key the classifier tells its algorithm.
LEMMA EndDecides ==
    ASSUME NEW k \in Key, NEW parts, NEW prefixLength \in {0, 1},
           Len(parts) = prefixLength + Len(k.scope) + 1 + Len(k.tail),
           FromEnd(parts, 0) = k.tail[Len(k.tail)],
           FromEnd(parts, Len(k.tail)) = k.policy,
           Len(k.tail) = 2 => FromEnd(parts, 1) = k.tail[1],
           NEW a \in AlgorithmNames
    PROVE  SuffixMatches(parts, a, prefixLength) <=> Algorithm(k) = a
<1>1. Len(k.scope) \in 0..1 /\ k.policy \in Policies
  BY PartsTyped
<1>2. /\ \A n \in Numbers : n \notin Policies /\ n \notin {"bucket", "v2", "sliding"}
      /\ \A w \in {"bucket", "v2", "sliding"} : w \notin Policies
  BY KeySchemeAssumption DEF KeySchemeAssumption, Words
<1> DEFINE last == FromEnd(parts, 0)
           second == FromEnd(parts, 1)
           third == FromEnd(parts, 2)
           length == Len(parts)
           scope == Len(k.scope)
           tail == Len(k.tail)
           short == length \in {prefixLength + 2, prefixLength + 3}
           long == length \in {prefixLength + 3, prefixLength + 4}
<1>3. /\ Len(k.tail) = 1 => short /\ second = k.policy /\ last = k.tail[1]
      /\ Len(k.tail) = 2 => long /\ third = k.policy /\ second = k.tail[1] /\ last = k.tail[2]
  <2>1. length = prefixLength + scope + 1 + tail /\ scope \in 0..1
    BY <1>1
  <2>2. (tail = 1 => short) /\ (tail = 2 => long)
    <3> HIDE DEF length, scope, tail
    <3> QED BY <2>1
  <2>3. tail = 1 => second = k.policy /\ last = k.tail[1]
    OBVIOUS
  <2>4. tail = 2 => third = k.policy /\ second = k.tail[1] /\ last = k.tail[2]
    OBVIOUS
  <2> QED BY <2>2, <2>3, <2>4
<1>4. SuffixMatches(parts, a, prefixLength) <=>
        \/ a = "token_bucket" /\ short /\ second \in Policies /\ last = "bucket"
        \/ a = "token_bucket" /\ long /\ third \in Policies /\ second = "bucket" /\ last = "v2"
        \/ a = "sliding_window" /\ long /\ third \in Policies /\ second = "sliding" /\ last \in Numbers
        \/ a = "fixed_window" /\ short /\ second \in Policies /\ last \in Numbers
  BY DEF SuffixMatches
<1> HIDE DEF last, second, third, short, long, length, scope, tail
<1>5. CASE Algorithm(k) = "token_bucket" /\ Len(k.tail) = 1 /\ k.tail[1] = "bucket"
  <2>1. short /\ second \in Policies /\ last = "bucket" /\ last \notin Numbers /\ second # "bucket"
    BY <1>1, <1>2, <1>3, <1>5
  <2> QED BY <1>2, <1>4, <1>5, <2>1 DEF AlgorithmNames
<1>6. CASE Algorithm(k) = "token_bucket" /\ Len(k.tail) = 2 /\ k.tail[1] = "bucket" /\ k.tail[2] = "v2"
  <2>1. long /\ third \in Policies /\ second = "bucket" /\ last = "v2" /\ last \notin Numbers
    BY <1>1, <1>2, <1>3, <1>6
  <2> QED BY <1>4, <1>6, <2>1 DEF AlgorithmNames
<1>7. CASE Algorithm(k) = "sliding_window" /\ Len(k.tail) = 2 /\ k.tail[1] = "sliding" /\ k.tail[2] \in Numbers
  <2>1. /\ long /\ third \in Policies /\ second = "sliding" /\ last \in Numbers
        /\ second \notin Policies /\ last \notin {"bucket", "v2"}
    BY <1>1, <1>2, <1>3, <1>7
  <2> QED BY <1>4, <1>7, <2>1 DEF AlgorithmNames
<1>8. CASE Algorithm(k) = "fixed_window" /\ Len(k.tail) = 1 /\ k.tail[1] \in Numbers
  <2>1. /\ short /\ second \in Policies /\ last \in Numbers
        /\ second # "sliding" /\ last \notin {"bucket", "v2"}
    BY <1>1, <1>2, <1>3, <1>8
  <2> QED BY <1>4, <1>8, <2>1 DEF AlgorithmNames
<1> QED BY <1>5, <1>6, <1>7, <1>8, TailShape

\* _suffix_matches_algorithm tells the algorithm that wrote a key, behind the
\* tenant and with it, whatever the scope and the tenant look like.
THEOREM ClassifierRight ==
    ASSUME NEW k \in Key, NEW a \in AlgorithmNames
    PROVE  /\ SuffixMatches(Suffix(k), a, 0) <=> Algorithm(k) = a
           /\ SuffixMatches(TenantSuffix(k), a, 1) <=> Algorithm(k) = a
<1> DEFINE scope == Len(k.scope)
           tail == Len(k.tail)
           length == Len(Suffix(k))
           longer == Len(TenantSuffix(k))
<1>1. scope \in 0..1 /\ tail \in 1..2 /\ length = scope + 1 + tail /\ longer = length + 1
  BY PartsTyped, SuffixEnds, TenantSuffixEnds
<1>2. SuffixMatches(Suffix(k), a, 0) <=> Algorithm(k) = a
  <2>1. length = 0 + scope + 1 + tail
    <3> HIDE DEF scope, tail, length, longer
    <3> QED BY <1>1
  <2> QED BY <2>1, SuffixEnds, EndDecides
<1>3. longer = 1 + scope + 1 + tail
  <2> HIDE DEF scope, tail, length, longer
  <2> QED BY <1>1
<1>4. /\ FromEnd(TenantSuffix(k), 0) = k.tail[Len(k.tail)]
      /\ FromEnd(TenantSuffix(k), Len(k.tail)) = k.policy
      /\ Len(k.tail) = 2 => FromEnd(TenantSuffix(k), 1) = k.tail[1]
  <2>1. 0 < length /\ tail < length /\ tail \in 0..2 /\ (tail = 2 => 1 < length)
    <3> HIDE DEF scope, tail, length, longer
    <3> QED BY <1>1
  <2>2. \A i \in 0..2 : i < length => FromEnd(TenantSuffix(k), i) = FromEnd(Suffix(k), i)
    BY TenantSuffixEnds
  <2>3. /\ FromEnd(TenantSuffix(k), 0) = FromEnd(Suffix(k), 0)
        /\ FromEnd(TenantSuffix(k), tail) = FromEnd(Suffix(k), tail)
        /\ tail = 2 => FromEnd(TenantSuffix(k), 1) = FromEnd(Suffix(k), 1)
    <3> HIDE DEF scope, tail, length, longer
    <3> QED BY <2>1, <2>2
  <2> QED BY <2>3, SuffixEnds
<1>5. SuffixMatches(TenantSuffix(k), a, 1) <=> Algorithm(k) = a
  BY <1>3, <1>4, EndDecides
<1> QED BY <1>2, <1>5

\* A tail is known by its length and its parts.
LEMMA TailsEqual ==
    ASSUME NEW k \in Key, NEW l \in Key, Len(k.tail) = Len(l.tail),
           k.tail[1] = l.tail[1], k.tail[Len(k.tail)] = l.tail[Len(l.tail)]
    PROVE  k.tail = l.tail
<1>1. /\ k.tail \in Seq(Texts) /\ l.tail \in Seq(Texts)
      /\ Len(k.tail) = 1 \/ Len(k.tail) = 2
  BY PartsTyped
<1>2. \A i \in 1..Len(k.tail) : k.tail[i] = l.tail[i]
  BY <1>1
<1> QED BY <1>1, <1>2, SeqEqual

\* Keys of the same text have tails of the same length: a shorter one would
\* take for its policy what is a fixed word in the other.
LEMMA TailsAlike ==
    ASSUME NEW k \in Key, NEW l \in Key, Suffix(k) = Suffix(l)
    PROVE  Len(k.tail) = Len(l.tail)
<1> DEFINE second(m) == FromEnd(Suffix(m), 1)
<1>1. ASSUME NEW m \in Key
      PROVE  /\ Len(m.tail) = 1 => second(m) \in Policies
             /\ Len(m.tail) = 2 => second(m) \notin Policies
             /\ Len(m.tail) = 1 \/ Len(m.tail) = 2
  <2>1. Len(m.tail) = 1 \/ Len(m.tail) = 2
    BY TailShape
  <2>2. Len(m.tail) = 1 => second(m) \in Policies
    BY SuffixEnds, PartsTyped
  <2>3. Len(m.tail) = 2 => m.tail[1] \in {"bucket", "sliding"}
    BY TailShape
  <2>4. Len(m.tail) = 2 => second(m) = m.tail[1]
    BY SuffixEnds
  <2>5. Len(m.tail) = 2 => second(m) \notin Policies
    BY <2>3, <2>4, KeySchemeAssumption DEF KeySchemeAssumption, Words
  <2> QED BY <2>1, <2>2, <2>5
<1>2. second(k) = second(l)
  OBVIOUS
<1> HIDE DEF second
<1> QED BY <1>1, <1>2

\* A scope is the first part of the suffix.
LEMMA ScopeFirst ==
    ASSUME NEW k \in Key, Len(k.scope) = 1
    PROVE  Suffix(k)[1] = k.scope[1]
<1>1. PICK s \in Texts : k.scope = <<s>>
  <2>1. k.scope # <<>>
    OBVIOUS
  <2> QED BY <2>1 DEF Key, Maybe
<1> DEFINE front == <<s>> \o <<k.policy>>
           tail == k.tail
<1>2. k.policy \in Texts /\ tail \in Seq(Texts)
  BY PartsTyped
<1>3. /\ <<s>> \in Seq(Texts) /\ Len(<<s>>) = 1 /\ <<s>>[1] = s
      /\ <<k.policy>> \in Seq(Texts) /\ Len(<<k.policy>>) = 1
  BY <1>2
<1>4. front \in Seq(Texts) /\ Len(front) = 2 /\ front[1] = s
  BY <1>3, ConcatProperties
<1>5. Suffix(k) = front \o tail
  BY <1>1 DEF Suffix
<1> HIDE DEF front, tail
<1>6. \A i \in 1..Len(front) + Len(tail) :
        (front \o tail)[i] = IF i <= Len(front) THEN front[i] ELSE tail[i - Len(front)]
  BY <1>2, <1>4, ConcatProperties
<1>7. 1 \in 1..Len(front) + Len(tail) /\ 1 <= Len(front)
  <2>1. Len(tail) \in Nat
    BY <1>2
  <2> QED BY <1>4, <2>1
<1>8. (front \o tail)[1] = s
  BY <1>4, <1>6, <1>7
<1> QED BY <1>1, <1>5, <1>8

\* Limits that differ in identity, tenant, scope, policy or algorithm, or in
\* the window or version, never share a key, legacy keys included.
THEOREM KeysApart ==
    ASSUME NEW k \in Key, NEW l \in Key, Parts(k) = Parts(l)
    PROVE  k = l
<1>1. ASSUME NEW m \in Key
      PROVE  /\ Len(Parts(m)) = 2 + Len(Suffix(m)) /\ Suffix(m) \in Seq(Texts)
             /\ Parts(m)[1] = m.identity /\ Parts(m)[2] = m.tenant
             /\ \A i \in 1..Len(Suffix(m)) : Parts(m)[i + 2] = Suffix(m)[i]
  <2> DEFINE front == <<m.identity, m.tenant>>
             suffix == Suffix(m)
  <2>1. m.identity \in Texts /\ m.tenant \in Texts
    BY DEF Key
  <2>2. front \in Seq(Texts) /\ Len(front) = 2 /\ front[1] = m.identity /\ front[2] = m.tenant
    BY <2>1
  <2>3. suffix \in Seq(Texts) /\ Parts(m) = front \o suffix
    BY SuffixEnds DEF Parts
  <2> HIDE DEF front, suffix
  <2>4. /\ Len(front \o suffix) = Len(front) + Len(suffix)
        /\ \A i \in 1..Len(front) + Len(suffix) :
              (front \o suffix)[i] = IF i <= Len(front) THEN front[i] ELSE suffix[i - Len(front)]
    BY <2>2, <2>3, ConcatProperties
  <2>5. Len(suffix) \in Nat
    BY <2>3
  <2> QED BY <2>2, <2>3, <2>4, <2>5 DEF suffix
<1>2. k.identity = l.identity /\ k.tenant = l.tenant
  BY <1>1
<1>3. Suffix(k) = Suffix(l)
  <2>1. Len(Suffix(k)) = Len(Suffix(l)) /\ Len(Suffix(k)) \in Nat
    BY <1>1
  <2>2. \A i \in 1..Len(Suffix(k)) : Suffix(k)[i] = Suffix(l)[i]
    BY <1>1, <2>1
  <2> QED BY <1>1, <2>1, <2>2, SeqEqual
<1>4. Len(k.tail) = Len(l.tail)
  BY <1>3, TailsAlike
<1>5. k.policy = l.policy
  BY <1>3, <1>4, SuffixEnds
<1>6. k.tail = l.tail
  <2>1. k.tail[Len(k.tail)] = l.tail[Len(l.tail)]
    BY <1>3, SuffixEnds
  <2>2. ASSUME Len(k.tail) = 2
        PROVE  k.tail[1] = l.tail[1]
    <3>1. FromEnd(Suffix(k), 1) = k.tail[1]
      BY <2>2, SuffixEnds
    <3>2. FromEnd(Suffix(l), 1) = l.tail[1]
      BY <1>4, <2>2, SuffixEnds
    <3> QED BY <1>3, <3>1, <3>2
  <2>3. Len(k.tail) = 1 \/ Len(k.tail) = 2
    BY TailShape
  <2> QED BY <1>4, <2>1, <2>2, <2>3, TailsEqual
<1>7. k.scope = l.scope
  <2>2. Len(k.scope) = Len(l.scope)
    <3> DEFINE a == Len(k.scope)
               b == Len(l.scope)
               t == Len(k.tail)
    <3>1. a + 1 + t = b + 1 + t /\ a \in 0..1 /\ b \in 0..1 /\ t \in 1..2
      BY <1>3, <1>4, SuffixEnds, PartsTyped
    <3> HIDE DEF a, b, t
    <3>2. a = b
      BY <3>1
    <3> QED BY <3>2 DEF a, b
  <2>3. ASSUME Len(k.scope) = 1
        PROVE  k.scope[1] = l.scope[1]
    <3>1. Suffix(k)[1] = k.scope[1]
      BY <2>3, ScopeFirst
    <3>2. Suffix(l)[1] = l.scope[1]
      BY <2>2, <2>3, ScopeFirst
    <3> QED BY <1>3, <3>1, <3>2
  <2>4. /\ k.scope \in Seq(Texts) /\ l.scope \in Seq(Texts)
        /\ Len(k.scope) = 0 \/ Len(k.scope) = 1
    BY PartsTyped
  <2>5. \A i \in 1..Len(k.scope) : k.scope[i] = l.scope[i]
    BY <2>3, <2>4
  <2> QED BY <2>2, <2>4, <2>5, SeqEqual
<1> QED BY <1>2, <1>5, <1>6, <1>7 DEF Key

-----------------------------------------------------------------------------
(* Reset.                                                                  *)

Moving(r) == reset[r].at \in Active

Record == [at : Active \cup {"idle"}, wants : SUBSET Requests,
           page : SUBSET Keys, last : BOOLEAN, batch : SUBSET Keys,
           size : 0..BatchSize, deletedAny : BOOLEAN, result : Results]

\* A reset on its way has every key it must forget still before it: to be
\* returned by its SCAN, in its page or in its batch.
NothingOverlooked ==
    \A r \in Resets : Moving(r) =>
        old[r] \cap Wanted(r) \subseteq left[r] \cup reset[r].page \cup reset[r].batch

\* The next page finds the previous one used up, and the last one leaves
\* nothing to return.
PagesInTurn ==
    \A r \in Resets :
        /\ At(r, "scanning") => reset[r].page = {}
        /\ reset[r].last => left[r] = {}

\* A batch that counts nothing is empty: the last one is not forgotten.
BatchCounted ==
    \A r \in Resets : reset[r].size = 0 => reset[r].batch = {}

\* Only keys of the wanted algorithm come into a batch.
BatchWanted ==
    \A r \in Resets : reset[r].batch \subseteq Wanted(r)

\* Nor does anything else get removed.
RemovedWanted ==
    \A r \in Resets : removed[r] \subseteq Wanted(r)

\* While a reset is on its way, deletedAny says whether it has removed a key.
AnswerSoFar ==
    \A r \in Resets : Moving(r) =>
        /\ reset[r].result = "none"
        /\ reset[r].deletedAny <=> removed[r] # {}

IInv ==
    /\ TypeOK
    /\ NothingOverlooked
    /\ PagesInTurn
    /\ BatchCounted
    /\ BatchWanted
    /\ AnswerSoFar
    /\ AnswerIsTrue
    /\ RemovedWanted
-----------------------------------------------------------------------------
LEMMA InitIInv == Init => IInv
<1> SUFFICES ASSUME Init PROVE IInv
  OBVIOUS
<1> USE ResetAssumption DEF ResetAssumption, Init, Fresh, At, Moving, Active
<1>1. TypeOK
  BY DEF TypeOK, Results
<1>2. NothingOverlooked /\ PagesInTurn /\ BatchCounted /\ BatchWanted
  BY DEF NothingOverlooked, PagesInTurn, BatchCounted, BatchWanted
<1>3. AnswerSoFar /\ AnswerIsTrue /\ RemovedWanted
  BY DEF AnswerSoFar, AnswerIsTrue, RemovedWanted, Wanted
<1> QED BY <1>1, <1>2, <1>3 DEF IInv

LEMMA RecordTyped == ASSUME IInv, NEW r \in Resets PROVE reset[r] \in Record
BY DEF IInv, TypeOK, Record

\* What every action but DEL and expiry owes to TypeOK: a record of its own.
LEMMA UpdateTyped ==
    ASSUME IInv, NEW r \in Resets, NEW record \in Record,
           reset' = [reset EXCEPT ![r] = record],
           exists' \subseteq Keys, late' \subseteq SUBSET Keys,
           left' \in [Resets -> SUBSET Keys], old' \in [Resets -> SUBSET Keys],
           removed' \in [Resets -> SUBSET Keys]
    PROVE  TypeOK'
<1>1. reset' \in [Resets -> Record]
  BY DEF IInv, TypeOK, Record
<1> QED BY <1>1 DEF TypeOK, Record

LEMMA ChargeIInv == ASSUME IInv, NEW k \in Keys, Charge(k) PROVE IInv'
<1> USE DEF IInv, Charge, At, Moving
<1>1. TypeOK'
  BY DEF TypeOK
<1>2. NothingOverlooked' /\ PagesInTurn' /\ BatchCounted' /\ BatchWanted'
  BY DEF NothingOverlooked, PagesInTurn, BatchCounted, BatchWanted, Wanted
<1>3. AnswerSoFar' /\ AnswerIsTrue' /\ RemovedWanted'
  BY DEF AnswerSoFar, AnswerIsTrue, RemovedWanted, Wanted
<1> QED BY <1>1, <1>2, <1>3

\* Keys that go, because they expire or another call deletes them, are no
\* longer to be forgotten by anyone.
LEMMA GoneIInv ==
    ASSUME IInv, NEW S, Gone(S), UNCHANGED <<reset, removed>>, late' \subseteq late
    PROVE  IInv'
<1> USE DEF IInv, Gone, At, Moving
<1>1. TypeOK'
  BY DEF TypeOK
<1>2. NothingOverlooked'
  BY DEF NothingOverlooked, Wanted
<1>3. PagesInTurn' /\ BatchCounted' /\ BatchWanted'
  BY DEF PagesInTurn, BatchCounted, BatchWanted, Wanted
<1>4. AnswerSoFar' /\ AnswerIsTrue' /\ RemovedWanted'
  BY DEF AnswerSoFar, AnswerIsTrue, RemovedWanted, Wanted
<1> QED BY <1>1, <1>2, <1>3, <1>4

LEMMA StartIInv ==
    ASSUME IInv, NEW r \in Resets, NEW q \in Requests, Start(r, q)
    PROVE  IInv'
<1>1. TypeOK'
  <2>1. Fresh("scanning", {q}, "none") \in Record
    BY ResetAssumption DEF Fresh, Record, Active, Results, ResetAssumption
  <2>2. /\ left' \in [Resets -> SUBSET Keys] /\ old' \in [Resets -> SUBSET Keys]
        /\ removed' \in [Resets -> SUBSET Keys] /\ exists' \subseteq Keys
        /\ late' \subseteq SUBSET Keys
    BY DEF Start, IInv, TypeOK
  <2> QED BY <2>1, <2>2, UpdateTyped DEF Start
<1> USE DEF IInv, Start, Fresh, At, Moving, Active
<1>2. NothingOverlooked'
  BY DEF TypeOK, NothingOverlooked, Wanted
<1>3. PagesInTurn' /\ BatchCounted' /\ BatchWanted'
  BY DEF TypeOK, PagesInTurn, BatchCounted, BatchWanted, Wanted
<1>4. AnswerSoFar' /\ AnswerIsTrue' /\ RemovedWanted'
  BY DEF TypeOK, AnswerSoFar, AnswerIsTrue, RemovedWanted, Wanted
<1> QED BY <1>1, <1>2, <1>3, <1>4

LEMMA ScanIInv ==
    ASSUME IInv, NEW r \in Resets, NEW keys \in SUBSET Pattern(r), NEW last \in BOOLEAN,
           Scan(r, keys, last)
    PROVE  IInv'
<1>1. TypeOK'
  <2>1. keys \in SUBSET Keys
    BY DEF Pattern
  <2>2. [reset[r] EXCEPT !.at = "received", !.page = keys, !.last = last] \in Record
    BY <2>1, RecordTyped DEF Record, Active
  <2>3. /\ left' \in [Resets -> SUBSET Keys] /\ old' \in [Resets -> SUBSET Keys]
        /\ removed' \in [Resets -> SUBSET Keys] /\ exists' \subseteq Keys
        /\ late' \subseteq SUBSET Keys
    BY DEF Scan, IInv, TypeOK
  <2> QED BY <2>2, <2>3, UpdateTyped DEF Scan
<1> USE DEF IInv, Scan, At, Moving, Active
<1>2. NothingOverlooked'
  BY DEF TypeOK, NothingOverlooked, PagesInTurn, Wanted
<1>3. PagesInTurn' /\ BatchCounted' /\ BatchWanted'
  BY DEF TypeOK, PagesInTurn, BatchCounted, BatchWanted, Wanted
<1>4. AnswerSoFar' /\ AnswerIsTrue' /\ RemovedWanted'
  BY DEF TypeOK, AnswerSoFar, AnswerIsTrue, RemovedWanted, Wanted
<1> QED BY <1>1, <1>2, <1>3, <1>4

LEMMA DeleteIInv == ASSUME IInv, NEW r \in Resets, Delete(r) PROVE IInv'
<1>1. TypeOK'
  <2> DEFINE any == reset[r].deletedAny \/ reset[r].batch \cap exists # {}
             record == [reset[r] EXCEPT !.at = "received", !.batch = {}, !.size = 0,
                                        !.deletedAny = any]
  <2>1. any \in BOOLEAN
    BY Zenon
  <2>2. record \in Record
    <3> HIDE DEF any
    <3>1. 0 \in 0..BatchSize
      BY ResetAssumption DEF ResetAssumption
    <3> QED BY <2>1, <3>1, RecordTyped DEF Record, Active
  <2>3. /\ left' \in [Resets -> SUBSET Keys] /\ old' \in [Resets -> SUBSET Keys]
        /\ removed' \in [Resets -> SUBSET Keys] /\ exists' \subseteq Keys
        /\ late' \subseteq SUBSET Keys
    BY DEF Delete, Gone, IInv, TypeOK
  <2>4. reset' = [reset EXCEPT ![r] = record]
    BY Zenon DEF Delete
  <2> QED BY <2>2, <2>3, <2>4, UpdateTyped
<1> USE DEF IInv, Delete, Gone, At, Moving, Active
<1>2. NothingOverlooked'
  BY DEF TypeOK, NothingOverlooked, Wanted
<1>3. PagesInTurn' /\ BatchCounted' /\ BatchWanted'
  BY DEF TypeOK, PagesInTurn, BatchCounted, BatchWanted, Wanted
<1>4. AnswerSoFar'
  <2> DEFINE any == reset[r].deletedAny \/ reset[r].batch \cap exists # {}
  <2>1. reset'[r].deletedAny = any /\ reset'[r].result = reset[r].result
    BY RecordTyped DEF TypeOK
  <2>2. removed'[r] = removed[r] \cup (reset[r].batch \cap exists)
    BY DEF TypeOK
  <2>3. reset[r].result = "none" /\ (reset[r].deletedAny <=> removed[r] # {})
    BY DEF AnswerSoFar
  <2>4. any <=> removed'[r] # {}
    BY <2>2, <2>3
  <2>5. \A q \in Resets \ {r} : reset'[q] = reset[q] /\ removed'[q] = removed[q]
    BY DEF TypeOK
  <2>6. \A q \in Resets \ {r} : Moving(q) =>
            /\ reset[q].result = "none"
            /\ reset[q].deletedAny <=> removed[q] # {}
    BY DEF AnswerSoFar
  <2>7. (reset'[r].deletedAny <=> removed'[r] # {}) /\ reset'[r].result = "none"
    BY <2>1, <2>3, <2>4, Zenon
  <2>8. ASSUME NEW q \in Resets, reset'[q].at \in Active
        PROVE  reset'[q].result = "none" /\ (reset'[q].deletedAny <=> removed'[q] # {})
    <3>1. CASE q = r
      BY <2>7, <3>1, Zenon
    <3>2. CASE q # r
      <4>1. reset'[q] = reset[q] /\ removed'[q] = removed[q]
        BY <2>5, <3>2
      <4>2. reset[q].at \in Active
        BY <2>8, <4>1, Zenon
      <4> QED BY <2>6, <3>2, <4>1, <4>2
    <3> QED BY <3>1, <3>2
  <2> QED BY <2>8, Zenon DEF AnswerSoFar
<1>6. AnswerIsTrue'
  BY DEF TypeOK, AnswerSoFar, AnswerIsTrue
<1>5. RemovedWanted'
  BY DEF TypeOK, BatchWanted, RemovedWanted, Wanted
<1> QED BY <1>1, <1>2, <1>3, <1>4, <1>5, <1>6

\* A reset ends: with an answer that is true, or none.
LEMMA ReturnIInv ==
    ASSUME IInv, NEW r \in Resets, NEW result \in {"true", "false", "error"}, Return(r, result),
           result = "true" => removed[r] # {},
           result = "false" => removed[r] = {},
           late' \subseteq SUBSET Keys, UNCHANGED <<exists, removed>>
    PROVE  IInv'
<1> USE ResetAssumption DEF ResetAssumption, IInv, Return, Fresh, At, Moving, Active
<1>1. TypeOK'
  BY DEF TypeOK, Results
<1>2. NothingOverlooked'
  BY DEF TypeOK, NothingOverlooked, Wanted
<1>3. PagesInTurn' /\ BatchCounted' /\ BatchWanted'
  BY DEF TypeOK, PagesInTurn, BatchCounted, BatchWanted, Wanted
<1>4. AnswerSoFar' /\ AnswerIsTrue' /\ RemovedWanted'
  BY DEF TypeOK, AnswerSoFar, AnswerIsTrue, RemovedWanted, Wanted
<1> QED BY <1>1, <1>2, <1>3, <1>4

LEMMA FailIInv == ASSUME IInv, NEW r \in Resets, Fail(r) PROVE IInv'
<1>1. late' \subseteq SUBSET Keys
  BY DEF IInv, TypeOK, Fail
<1> QED BY <1>1, ReturnIInv DEF Fail

\* What a page adds to the count of a batch is a number, and nothing only if
\* the page holds nothing wanted.
LEMMA PageCount ==
    ASSUME IInv, NEW r \in Resets, NEW S \in SUBSET reset[r].page
    PROVE  /\ Cardinality(S) \in Nat
           /\ Cardinality(S) = 0 <=> S = {}
<1>1. IsFiniteSet(S)
  <2>1. S \subseteq Keys
    BY DEF IInv, TypeOK
  <2> QED BY <2>1, ResetAssumption, FS_Subset DEF ResetAssumption
<1> QED BY <1>1, FS_CardinalityType, FS_EmptySet

LEMMA TakePageIInv ==
    ASSUME IInv, NEW r \in Resets, At(r, "received"), TakePage(r), UNCHANGED <<exists, late, removed>>
    PROVE  IInv'
<1> DEFINE wanted == reset[r].page \cap Wanted(r)
           size == reset[r].size + Cardinality(wanted)
<1>1. /\ Cardinality(wanted) \in Nat
      /\ Cardinality(wanted) = 0 <=> wanted = {}
  BY PageCount
<1>2. CASE reset[r].last /\ size = 0
  <2>1. Return(r, IF reset[r].deletedAny THEN "true" ELSE "false")
    BY <1>2 DEF TakePage
  <2>2. late' \subseteq SUBSET Keys
    BY DEF IInv, TypeOK
  <2>3. reset[r].deletedAny <=> removed[r] # {}
    BY DEF IInv, AnswerSoFar, Moving, At, Active
  <2> QED BY <2>1, <2>2, <2>3, ReturnIInv
<1>3. CASE ~(reset[r].last /\ size = 0)
  <2>0. /\ reset' = [reset EXCEPT ![r] = [@ EXCEPT
                       !.page = {}, !.batch = reset[r].batch \cup wanted, !.size = size,
                       !.at = IF reset[r].last THEN "deleting" ELSE "scanning"]]
        /\ size \in 0..BatchSize
        /\ UNCHANGED <<left, old>>
    <3>1. size < BatchSize /\ reset[r].size \in Nat /\ BatchSize \in Nat
      BY ResetAssumption DEF TakePage, IInv, TypeOK, ResetAssumption
    <3>2. size \in 0..BatchSize
      BY <1>1, <3>1
    <3> QED BY <1>3, <3>2, Zenon DEF TakePage
  <2> HIDE DEF size
  <2>1. TypeOK'
    <3>1. reset[r].batch \cup wanted \in SUBSET Keys
      BY RecordTyped DEF Record
    <3>2. [reset[r] EXCEPT !.page = {}, !.batch = reset[r].batch \cup wanted, !.size = size,
             !.at = IF reset[r].last THEN "deleting" ELSE "scanning"] \in Record
      BY <2>0, <3>1, RecordTyped DEF Record, Active
    <3>3. /\ left' \in [Resets -> SUBSET Keys] /\ old' \in [Resets -> SUBSET Keys]
          /\ removed' \in [Resets -> SUBSET Keys] /\ exists' \subseteq Keys
          /\ late' \subseteq SUBSET Keys
      BY <2>0 DEF IInv, TypeOK
    <3> QED BY <2>0, <3>2, <3>3, UpdateTyped
  <2> USE <2>0 DEF IInv, At, Moving, Active
  <2>2. NothingOverlooked'
    BY DEF TypeOK, NothingOverlooked, Wanted
  <2>3. BatchCounted'
    BY <1>1 DEF TypeOK, BatchCounted, size
  <2>4. PagesInTurn'
    BY DEF TypeOK, PagesInTurn
  <2>6. BatchWanted'
    BY DEF TypeOK, BatchWanted, Wanted
  <2>5. AnswerSoFar' /\ AnswerIsTrue' /\ RemovedWanted'
    BY DEF TypeOK, AnswerSoFar, AnswerIsTrue, RemovedWanted, Wanted
  <2> QED BY <2>1, <2>2, <2>3, <2>4, <2>5, <2>6
<1> QED BY <1>2, <1>3

LEMMA FillIInv ==
    ASSUME IInv, NEW r \in Resets, At(r, "received"), Fill(r), UNCHANGED <<exists, late, removed>>
    PROVE  IInv'
<1>1. PICK taken \in SUBSET (reset[r].page \cap Wanted(r)) :
        /\ reset' = [reset EXCEPT ![r] = [@ EXCEPT !.at = "deleting", !.size = BatchSize,
                       !.batch = reset[r].batch \cup taken, !.page = reset[r].page \ taken]]
        /\ UNCHANGED <<left, old>>
  BY DEF Fill
<1>2. TypeOK'
  <2>1. /\ reset[r].batch \cup taken \in SUBSET Keys
        /\ reset[r].page \ taken \in SUBSET Keys
    BY RecordTyped DEF Record
  <2>2. BatchSize \in 0..BatchSize
    BY ResetAssumption DEF ResetAssumption
  <2>3. [reset[r] EXCEPT !.at = "deleting", !.size = BatchSize,
           !.batch = reset[r].batch \cup taken, !.page = reset[r].page \ taken] \in Record
    BY <2>1, <2>2, RecordTyped DEF Record, Active
  <2>4. /\ left' \in [Resets -> SUBSET Keys] /\ old' \in [Resets -> SUBSET Keys]
        /\ removed' \in [Resets -> SUBSET Keys] /\ exists' \subseteq Keys
        /\ late' \subseteq SUBSET Keys
    BY <1>1 DEF IInv, TypeOK
  <2> QED BY <1>1, <2>3, <2>4, UpdateTyped
<1> USE ResetAssumption DEF ResetAssumption, IInv, At, Moving, Active
<1>3. NothingOverlooked'
  BY <1>1 DEF TypeOK, NothingOverlooked, Wanted
<1>4. PagesInTurn' /\ BatchCounted' /\ BatchWanted'
  BY <1>1 DEF TypeOK, PagesInTurn, BatchCounted, BatchWanted, Wanted
<1>5. AnswerSoFar' /\ AnswerIsTrue' /\ RemovedWanted'
  BY <1>1 DEF TypeOK, AnswerSoFar, AnswerIsTrue, RemovedWanted, Wanted
<1> QED BY <1>2, <1>3, <1>4, <1>5

LEMMA NextIInv == IInv /\ [Next]_vars => IInv'
<1> SUFFICES ASSUME IInv, [Next]_vars PROVE IInv'
  OBVIOUS
<1>1. ASSUME NEW k \in Keys, Charge(k) PROVE IInv'
  BY <1>1, ChargeIInv
<1>2. ASSUME NEW k \in Keys, Expire(k) PROVE IInv'
  BY <1>2, GoneIInv DEF Expire
<1>3. ASSUME NEW S \in late, DeleteLate(S) PROVE IInv'
  BY <1>3, GoneIInv DEF DeleteLate
<1>4. ASSUME NEW r \in Resets, NEW q \in Requests, Start(r, q) PROVE IInv'
  BY <1>4, StartIInv
<1>5. ASSUME NEW r \in Resets, Page(r) \/ LastPage(r) PROVE IInv'
  BY <1>5, ScanIInv DEF Page, LastPage
<1>6. ASSUME NEW r \in Resets, Consume(r) PROVE IInv'
  BY <1>6, TakePageIInv, FillIInv DEF Consume
<1>7. ASSUME NEW r \in Resets, Delete(r) PROVE IInv'
  BY <1>7, DeleteIInv
<1>8. ASSUME NEW r \in Resets, Fail(r) PROVE IInv'
  BY <1>8, FailIInv
<1>9. CASE UNCHANGED vars
  BY <1>9 DEF vars, IInv, TypeOK, NothingOverlooked, PagesInTurn, BatchCounted, BatchWanted,
              AnswerSoFar, AnswerIsTrue, RemovedWanted, Wanted, At, Moving
<1> QED BY <1>1, <1>2, <1>3, <1>4, <1>5, <1>6, <1>7, <1>8, <1>9 DEF Next

LEMMA Inductive == Spec => []IInv
BY InitIInv, NextIInv, PTL DEF Spec

\* _delete_matching's locals and the keys it deletes stay in their shapes; a
\* batch never exceeds the code's limit.
THEOREM TypeCorrect == Spec => []TypeOK
<1>1. IInv => TypeOK
  BY DEF IInv
<1> QED BY <1>1, Inductive, PTL

\* reset() answers True exactly if one of its delete_many calls removed a key.
THEOREM AnswerTrue == Spec => []AnswerIsTrue
<1>1. IInv => AnswerIsTrue
  BY DEF IInv
<1> QED BY <1>1, Inductive, PTL

\* What the classifier lets through is what the caller asked for.
LEMMA WantedIsAsked ==
    ASSUME IInv, NEW r \in Resets
    PROVE  Wanted(r) = Asked(r)
<1>1. Keys \subseteq Key /\ reset[r].wants \subseteq Requests
  BY ResetAssumption DEF ResetAssumption, IInv, TypeOK
<1>2. ASSUME NEW k \in Key, NEW q \in Requests, ~EveryAlgorithm(q)
      PROVE  Classified(k, q) <=> Algorithm(k) = Chosen(q)
  <2>1. Chosen(q) \in AlgorithmNames
    <3>1. q.algorithm \in AlgorithmNames \cup {"none", "all"} /\ DefaultAlgorithm \in AlgorithmNames
      BY ResetAssumption DEF ResetAssumption
    <3> QED BY <1>2, <3>1 DEF Chosen, EveryAlgorithm
  <2> QED BY <2>1, ClassifierRight DEF Classified
<1>3. ASSUME NEW k \in Keys, NEW q \in reset[r].wants
      PROVE  EveryAlgorithm(q) \/ Classified(k, q) <=> EveryAlgorithm(q) \/ Algorithm(k) = Chosen(q)
  BY <1>1, <1>2
<1> QED BY <1>3 DEF Wanted, Matching, Asked

\* reset() deletes no key of another algorithm or of another identity.
THEOREM OnlyWantedRemoved == Spec => []RemovesOnlyWanted
<1>1. IInv => RemovesOnlyWanted
  BY WantedIsAsked DEF IInv, RemovedWanted, RemovesOnlyWanted
<1> QED BY <1>1, Inductive, PTL

\* Only the loop's end after the last page returns without an error.
LEMMA OnlyLoopReturns ==
    ASSUME IInv, [Next]_vars, NEW r \in Resets, reset[r].at \in Active,
           reset'[r].result \in {"true", "false"}
    PROVE  /\ Consume(r)
           /\ TakePage(r)
           /\ reset[r].last
           /\ reset[r].size + Cardinality(reset[r].page \cap Wanted(r)) = 0
<1> USE DEF At, Active
<1>0. /\ reset[r].result = "none"
      /\ reset \in [Resets -> Record]
  BY DEF IInv, AnswerSoFar, TypeOK, Moving, Record
<1>1. reset'[r] # reset[r]
  BY <1>0
<1>2. PICK q \in Resets :
        \/ \E request \in Requests : Start(q, request)
        \/ Page(q) \/ LastPage(q) \/ Consume(q) \/ Delete(q) \/ Fail(q)
  BY <1>1 DEF Next, vars, Charge, Expire, DeleteLate
<1>3. ~ \E request \in Requests : Start(q, request)
  BY <1>0, <1>1 DEF Start
<1>4. ASSUME NEW record, record.result = "none", reset' = [reset EXCEPT ![q] = record]
      PROVE  FALSE
  <2>1. reset'[r].result = "none"
    BY <1>0, <1>4
  <2> QED BY <2>1
<1>5. ASSUME Page(q) \/ LastPage(q) PROVE FALSE
  <2>1. PICK keys \in SUBSET Pattern(q), last \in BOOLEAN : Scan(q, keys, last)
    BY <1>5 DEF Page, LastPage
  <2>2. [reset[q] EXCEPT !.at = "received", !.page = keys, !.last = last].result = "none"
    BY <2>1, RecordTyped DEF IInv, AnswerSoFar, Moving, Scan, Record
  <2> QED BY <2>1, <2>2, <1>4 DEF Scan
<1>6. ASSUME Delete(q) PROVE FALSE
  <2>1. [reset[q] EXCEPT !.at = "received", !.batch = {}, !.size = 0,
           !.deletedAny = reset[q].deletedAny \/ reset[q].batch \cap exists # {}].result = "none"
    BY <1>6, RecordTyped DEF IInv, AnswerSoFar, Moving, Delete, Record
  <2> QED BY <2>1, <1>4, <1>6, Zenon DEF Delete
<1>7. ASSUME Fail(q) PROVE FALSE
  <2>1. Fresh("idle", reset[q].wants, "error").result = "error"
    BY DEF Fresh
  <2>2. q = r => reset'[r] = Fresh("idle", reset[q].wants, "error")
    BY <1>0, <1>7 DEF Fail, Return
  <2>3. q # r => reset'[r] = reset[r]
    BY <1>0, <1>7 DEF Fail, Return
  <2> QED BY <1>0, <2>1, <2>2, <2>3
<1>8. ASSUME Fill(q), At(q, "received") PROVE FALSE
  <2>1. PICK taken \in SUBSET (reset[q].page \cap Wanted(q)) :
          reset' = [reset EXCEPT ![q] = [@ EXCEPT !.at = "deleting", !.size = BatchSize,
                      !.batch = reset[q].batch \cup taken, !.page = reset[q].page \ taken]]
    BY <1>8 DEF Fill
  <2>2. [reset[q] EXCEPT !.at = "deleting", !.size = BatchSize,
           !.batch = reset[q].batch \cup taken, !.page = reset[q].page \ taken].result = "none"
    BY <1>8, RecordTyped DEF IInv, AnswerSoFar, Moving, Record
  <2> QED BY <2>1, <2>2, <1>4
<1>9. Consume(q) /\ TakePage(q)
  BY <1>2, <1>3, <1>5, <1>6, <1>7, <1>8 DEF Consume
<1>10. q = r
  BY <1>0, <1>1, <1>9 DEF TakePage, Return
<1>11. reset[r].last /\ reset[r].size + Cardinality(reset[r].page \cap Wanted(r)) = 0
  <2> DEFINE wanted == reset[r].page \cap Wanted(r)
             size == reset[r].size + Cardinality(wanted)
             record == [reset[r] EXCEPT
                          !.page = {}, !.batch = reset[r].batch \cup wanted, !.size = size,
                          !.at = IF reset[r].last THEN "deleting" ELSE "scanning"]
  <2>1. SUFFICES ASSUME ~(reset[r].last /\ size = 0) PROVE FALSE
    OBVIOUS
  <2>2. reset' = [reset EXCEPT ![r] = record]
    BY <1>9, <1>10, <2>1, Zenon DEF TakePage
  <2>3. record.result = "none"
    BY <1>0, RecordTyped DEF Record
  <2> QED BY <1>4, <1>10, <2>2, <2>3
<1> QED BY <1>9, <1>10, <1>11

\* A reset() that returns has forgotten every charge of the wanted algorithm
\* from before it was called.
THEOREM Complete == Spec => ResetIsComplete
<1>1. ASSUME IInv, [Next]_vars, NEW r \in Resets, reset[r].at \in Active,
             reset'[r].result \in {"true", "false"}
      PROVE  old[r] \cap Asked(r) = {}
  <2>1. /\ reset[r].last
        /\ reset[r].size + Cardinality(reset[r].page \cap Wanted(r)) = 0
    BY <1>1, OnlyLoopReturns
  <2>2. left[r] = {}
    BY <1>1, <2>1 DEF IInv, PagesInTurn
  <2>3. reset[r].batch = {} /\ reset[r].page \cap Wanted(r) = {}
    <3>1. /\ Cardinality(reset[r].page \cap Wanted(r)) \in Nat
          /\ Cardinality(reset[r].page \cap Wanted(r)) = 0
                <=> reset[r].page \cap Wanted(r) = {}
      BY <1>1, PageCount
    <3>2. reset[r].size \in Nat
      BY <1>1 DEF IInv, TypeOK
    <3> QED BY <1>1, <2>1, <3>1, <3>2 DEF IInv, BatchCounted
  <2>4. old[r] \cap Wanted(r) \subseteq left[r] \cup reset[r].page \cup reset[r].batch
    BY <1>1 DEF IInv, NothingOverlooked, Moving
  <2> QED BY <1>1, <2>2, <2>3, <2>4, WantedIsAsked
<1>2. IInv /\ [Next]_vars =>
        [\A r \in Resets :
            /\ reset[r].at \in Active
            /\ reset'[r].result \in {"true", "false"}
            => old[r] \cap Asked(r) = {}]_vars
  BY <1>1
<1> QED BY <1>2, Inductive, PTL DEF Spec, ResetIsComplete
=============================================================================
