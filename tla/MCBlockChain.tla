----------------------------- MODULE MCBlockChain -----------------------------
(* Small instances of BlockChain for TLC. *)
EXTENDS BlockChain, TLC

\* Both validators are needed: no proposer decides alone.
BothNodes == {{0, 1}}

\* Rounds per height: one without competing proposals, then one with two.
OneThenTwo == <<0, 1>>

\* Chunks per shard: two on the first shard, so that a witness can run ahead, and one
\* on the others.
OneShardAhead == [s \in Shards |-> IF s = 1 THEN 2 ELSE 1]
TwoChunks == [s \in Shards |-> 2]

\* A storage lend, the revocation of it, and a gasless key.
Lend   == [slot |-> "lend", order |-> 1, units |-> 1]
Revoke == [slot |-> "lend", order |-> 2, units |-> 0]
Key    == [slot |-> "key", order |-> 1, units |-> 1]

LendRevokeKey == {Lend, Revoke, Key}

\* Nothing, a lend (its second pull is a duplicate), and a lend that is revoked, with a key.
SomePayloads == {<<>>, <<Lend>>, <<Lend, Key, Revoke>>}
===============================================================================
