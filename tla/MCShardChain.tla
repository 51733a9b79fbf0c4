----------------------------- MODULE MCShardChain -----------------------------
(* Small instances of ShardChain, with the execution of ShardState, for TLC. *)
EXTENDS ShardChain, ShardState, TLC

Msg(k, t) == [key |-> k, ts |-> t]
Load(ms, bs) == [msgs |-> ms, blockEvents |-> bs]

\* The first validator carries the voting power that decides; the second one's proposals
\* need its vote.
SomeQuorum == {{0}, {0, 1}}

\* Rounds per height: two competing proposals, at the first height only.
OneHeight == <<1>>
TwoThenOne == <<1, 0>>

\* Two messages of one slot, alone and with block events out of order, which leave the
\* root as it is although they move the last sequence number, and whose second replay
\* merges a lend; block events of which the second replay merges a heartbeat more.
AnyOrderPayloads ==
  LET ms == {Msg(1, 1), Msg(1, 2)}
  IN  {Load(ms, <<>>), Load(ms, <<2, 1>>), Load({}, <<1, 3, 2>>)}

===============================================================================
