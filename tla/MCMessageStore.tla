--------------------------- MODULE MCMessageStore ---------------------------
\* Instances of MessageStore for TLC: small sets of one user's messages.
EXTENDS MessageStore

Msg(kind, key, ts, hash, signer, targets) ==
  [kind |-> kind, key |-> key, ts |-> ts, hash |-> hash, signer |-> signer,
   targets |-> targets]

Add(key, ts, hash) == Msg("add", key, ts, hash, "s1", {})
Remove(key, ts, hash) == Msg("remove", key, ts, hash, "s1", {})

\* Collisions of every sort on the keys of two links and a cast: two times,
\* adds and removes of one time, messages that only their hashes order, from
\* two signers, and two compact states.
Collisions ==
  {Add("a", 1, 1), Add("a", 2, 2), Remove("a", 2, 3),
   Msg("add", "b", 2, 4, "s2", {}), Remove("b", 1, 5), Remove("b", 1, 6),
   Add("cast", 2, 8), Remove("cast", 1, 9),
   Msg("compact", "a", 2, 10, "s1", {"b"}),
   Msg("compact", "a", 3, 11, "s2", {"a"})}
=============================================================================
