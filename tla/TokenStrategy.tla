--------------------------- MODULE TokenStrategy ---------------------------
(***************************************************************************)
(* get_usage of algorithms/token_bucket.py, the strategy class in front of *)
(* the token-bucket script.  It answers the stored tokens, a missing hash  *)
(* as none, without asking for the time.                                   *)
(***************************************************************************)
EXTENDS TokenBucket

StrategyTokens == IF expiry = NoKey THEN 0 ELSE bucket.tokens

\* The next request after a reset or an expiry would "start with a full
\* bucket", and so does get_usage mean to answer, by its default for "tokens".
NewBucketIsFull == expiry = NoKey => StrategyTokens = Capacity
=============================================================================
