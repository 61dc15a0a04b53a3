----------------------------- MODULE KeyScheme -----------------------------
(***************************************************************************)
(* The Redis keys of the limiter and how reset() recognizes them.  A key   *)
(* is <prefix>:<identity>:<tenant>:<scope>:<policy>:<tail>; those of older *)
(* versions have no scope, and a token bucket of theirs the tail "bucket". *)
(* A component is an element of Texts: it is encoded (and hashed if it is  *)
(* long) before it goes into a key, so it holds no colon, but it may well  *)
(* look like a policy, a number or one of the fixed words.                 *)
(***************************************************************************)
EXTENDS Integers, Sequences

CONSTANTS
    Texts,          \* the encoded components
    Policies,       \* those like p100x60
    Numbers         \* those of digits only

Words == {"bucket", "v2", "sliding"}

ASSUME KeySchemeAssumption ==
    /\ Words \subseteq Texts
    /\ Policies \subseteq Texts \ Words
    /\ Numbers \subseteq Texts \ (Words \cup Policies)

AlgorithmNames == {"fixed_window", "token_bucket", "sliding_window"}

\* A component that may be missing.
Maybe(S) == {<<>>} \cup {<<s>> : s \in S}

Tails == {<<"bucket">>, <<"bucket", "v2">>}
           \cup {<<n>> : n \in Numbers} \cup {<<"sliding", n>> : n \in Numbers}

Key == [identity : Texts, tenant : Texts, scope : Maybe(Texts), policy : Policies, tail : Tails]

\* The algorithm that wrote the key.
Algorithm(k) ==
    CASE Head(k.tail) = "bucket" -> "token_bucket"
      [] Head(k.tail) = "sliding" -> "sliding_window"
      [] OTHER -> "fixed_window"

\* The parts of the key behind its prefix and identity, and behind its tenant.
Suffix(k) == (k.scope \o <<k.policy>>) \o k.tail
TenantSuffix(k) == <<k.tenant>> \o Suffix(k)

\* The whole key behind its prefix, as generate_key puts it together.
Parts(k) == <<k.identity, k.tenant>> \o Suffix(k)

FromEnd(parts, i) == parts[Len(parts) - i]

\* Mutant: a number at the end is enough for a fixed window.
SuffixMatchesLoosely(parts, algorithm, prefixLength) ==
    \/ /\ algorithm = "token_bucket"
       /\ FromEnd(parts, 0) \in {"bucket", "v2"}
    \/ /\ algorithm = "sliding_window"
       /\ Len(parts) \in {prefixLength + 3, prefixLength + 4}
       /\ FromEnd(parts, 1) = "sliding"
    \/ /\ algorithm = "fixed_window"
       /\ Len(parts) \in {prefixLength + 2, prefixLength + 3}
       /\ FromEnd(parts, 0) \in Numbers
\* "Classify legacy and scoped limiter key suffixes."
SuffixMatches(parts, algorithm, prefixLength) ==
    \/ /\ algorithm = "token_bucket"
       /\ Len(parts) \in {prefixLength + 2, prefixLength + 3}
       /\ FromEnd(parts, 1) \in Policies
       /\ FromEnd(parts, 0) = "bucket"
    \/ /\ algorithm = "token_bucket"
       /\ Len(parts) \in {prefixLength + 3, prefixLength + 4}
       /\ FromEnd(parts, 2) \in Policies
       /\ FromEnd(parts, 1) = "bucket" /\ FromEnd(parts, 0) = "v2"
    \/ /\ algorithm = "sliding_window"
       /\ Len(parts) \in {prefixLength + 3, prefixLength + 4}
       /\ FromEnd(parts, 2) \in Policies
       /\ FromEnd(parts, 1) = "sliding"
       /\ FromEnd(parts, 0) \in Numbers
    \/ /\ algorithm = "fixed_window"
       /\ Len(parts) \in {prefixLength + 2, prefixLength + 3}
       /\ FromEnd(parts, 1) \in Policies
       /\ FromEnd(parts, 0) \in Numbers
=============================================================================
