------------------------------ MODULE MCReset ------------------------------
(***************************************************************************)
(* Keys made to be mistaken: a scope that reads like a policy or a fixed   *)
(* word, a tenant that reads like a policy, legacy keys without a scope,   *)
(* and a key of another identity.  Batches of 2 and up to three keys to    *)
(* delete make one full and one partial batch.                             *)
(***************************************************************************)
EXTENDS Reset

MCPolicies == {"p5x60"}
MCNumbers == {"29"}
MCTexts == Words \cup MCPolicies \cup MCNumbers \cup {"alice", "bob", "free"}

Made(identity, tenant, scope, tail) ==
    [identity |-> identity, tenant |-> tenant, scope |-> scope, policy |-> "p5x60", tail |-> tail]

FixedLikeSliding == Made("alice", "free", <<"sliding">>, <<"29">>)
SlidingLegacy == Made("alice", "free", <<>>, <<"sliding", "29">>)
BucketOfPolicy == Made("alice", "p5x60", <<"bucket">>, <<"bucket", "v2">>)
Foreign == Made("bob", "alice", <<"p5x60">>, <<"29">>)

MCKeys == {FixedLikeSliding, SlidingLegacy, BucketOfPolicy, Foreign}

Asks(tenant, algorithm) == [identity |-> "alice", tenant |-> tenant, algorithm |-> algorithm]

MCRequests ==
    {Asks(<<>>, "none"), Asks(<<>>, "fixed_window"), Asks(<<"p5x60">>, "none")}
=============================================================================
