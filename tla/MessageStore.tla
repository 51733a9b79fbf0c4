---------------------------- MODULE MessageStore ----------------------------
(***************************************************************************)
(* One user's messages in the stores of casts and of links (reactions and  *)
(* verifications are like links without compact states), as storage/store/ *)
(* account/store.rs keeps them in RocksDB and the engine's merge loop      *)
(* drives it.                                                              *)
(*                                                                         *)
(* A message is stored under its timestamp and hash and is found again     *)
(* through one of two set indices, the adds and the removes, keyed by what *)
(* messages collide on.  Links have a third kind, the compact state, which *)
(* lists the targets to keep and has a slot of its own.  The trie holds    *)
(* every stored message and is what the usage is counted from.             *)
(*                                                                         *)
(* The engine replays a user's messages of a chunk as one transaction: the *)
(* writes collect in a batch that point reads see, and iterations over a   *)
(* prefix do not.  `db' is what is committed, `cur' is db with the batch   *)
(* laid over it.                                                           *)
(***************************************************************************)
EXTENDS Naturals, FiniteSets

CONSTANTS
  Keys,       \* what messages collide on: a link's target and type, ...
  CastKeys,   \* the keys in the store of casts; the others are links'
  Signers,    \* the keys that sign for the user
  None,       \* no message
  Messages,   \* the messages that exist
  BatchSize,  \* most messages of one transaction (a bound)
  Limits,     \* the storage limits the user may have, per store
  Revocable   \* signers whose removal revokes their messages

Message == [kind : {"add", "remove", "compact"}, key : Keys, ts : Nat,
            hash : Nat, signer : Signers, targets : SUBSET Keys]

\* A hash names one message, and no message is the absent one.
ASSUME MessagesAssumption ==
  /\ Messages \subseteq Message
  /\ \A a, b \in Messages : a.hash = b.hash => a = b
  /\ None \notin Messages

ASSUME BoundsAssumption ==
  /\ CastKeys \subseteq Keys
  /\ BatchSize \in Nat
  /\ Limits \subseteq Nat
  /\ Revocable \subseteq Signers

VARIABLES
  db,        \* the committed store
  cur,       \* the store as the transaction under way sees it
  batch,     \* messages the transaction has taken
  merged,    \* the stores in which the transaction has merged a message
  limit,     \* the storage limit of each store
  signers,   \* the signers that are still active
  seen,      \* every message that came to the store
  past       \* what has happened so far, of Happenings

vars == <<db, cur, batch, merged, limit, signers, seen, past>>

\* A transaction of several messages, a limit that became smaller, and a loss
\* other than to a collision: a message compacted, pruned or revoked.
Happenings == {"bulk", "shrunk", "trimmed"}

Stores == {"casts", "links"}
StoreOf(m) == IF m.key \in CastKeys THEN "casts" ELSE "links"
In(S, s) == {m \in S : StoreOf(m) = s}

Store == [msgs : SUBSET Messages,
          adds : [Keys -> Messages \cup {None}],
          removes : [Keys -> Messages \cup {None}],
          compact : Messages \cup {None},
          trie : SUBSET Messages]

EmptyStore == [msgs |-> {},
               adds |-> [k \in Keys |-> None],
               removes |-> [k \in Keys |-> None],
               compact |-> None,
               trie |-> {}]

----------------------------------------------------------------------------
\* message_compare(a, b) > 0, by time first, and as the cast store has it.

LaterWins(a, b) ==
  \/ a.ts > b.ts
  \/ a.ts = b.ts /\ a.kind = "remove" /\ b.kind = "add"
  \/ a.ts = b.ts /\ a.kind = b.kind /\ a.hash > b.hash

RemoveWins(a, b) ==
  \/ a.kind = "remove" /\ b.kind = "add"
  \/ /\ a.kind = b.kind
     /\ a.ts > b.ts \/ (a.ts = b.ts /\ a.hash > b.hash)

\* Mutant: adds and removes are not told apart.
BeatsByTime(a, b) == a.ts > b.ts \/ (a.ts = b.ts /\ a.hash > b.hash)

Beats(a, b) ==
  IF a.key \in CastKeys THEN RemoveWins(a, b) ELSE LaterWins(a, b)

\* The order of the primary keys, fid:tsHash.
Older(a, b) == a.ts < b.ts \/ (a.ts = b.ts /\ a.hash < b.hash)

Indexed(st, m) == {st.removes[m.key], st.adds[m.key]} \ {None}

Refused(st, m) == \E x \in Indexed(st, m) : x = m \/ Beats(x, m)

\* The messages a merge of m replaces: index entries whose message is found.
Conflicts(st, m) == Indexed(st, m) \cap st.msgs

\* Mutant: the index entries stay.
DeleteKeepsIndex(st, D) == [st EXCEPT !.msgs = @ \ D, !.trie = @ \ D]

\* delete_many_transaction with the deletes of the event in the trie.  The
\* index entry of a message's key goes whatever message it points at.
DeleteMany(st, D) ==
  [st EXCEPT
     !.msgs = @ \ D,
     !.adds = [k \in Keys |-> IF \E d \in D : d.kind = "add" /\ d.key = k
                              THEN None ELSE st.adds[k]],
     !.removes = [k \in Keys |-> IF \E d \in D : d.kind = "remove" /\ d.key = k
                                 THEN None ELSE st.removes[k]],
     !.trie = @ \ D]

PutAdd(st, m) ==
  [st EXCEPT !.msgs = @ \cup {m}, !.adds[m.key] = m, !.trie = @ \cup {m}]

\* Mutant: the index entry holds another message's name.
PutRemoveTime(st, m) ==
  [st EXCEPT !.msgs = @ \cup {m}, !.removes[m.key] = [m EXCEPT !.hash = 0], !.trie = @ \cup {m}]

PutRemove(st, m) ==
  [st EXCEPT !.msgs = @ \cup {m}, !.removes[m.key] = m, !.trie = @ \cup {m}]

PutCompact(st, m) == [st EXCEPT !.compact = m, !.trie = @ \cup {m}]

----------------------------------------------------------------------------
\* Whether the store takes a message, and the store that has taken it.
\* `base' is the committed store, which iterations read.

\* Mutant: the compact state is not looked at.
CompactNeverRefuses(st, m) == FALSE

\* An older link is refused by the compact state that does not list it.
CompactRefuses(st, m) ==
  /\ StoreOf(m) = "links" /\ st.compact # None
  /\ m.ts < st.compact.ts
  /\ m.kind = "remove" \/ m.key \notin st.compact.targets

Accepts(st, m) ==
  IF m.kind = "compact"
  THEN st.compact = None \/ st.compact.ts < m.ts
  ELSE ~CompactRefuses(st, m) /\ ~Refused(st, m)

MergeAdd(st, m) == PutAdd(DeleteMany(st, Conflicts(st, m)), m)

MergeRemove(st, m) == PutRemove(DeleteMany(st, Conflicts(st, m)), m)

\* The committed messages a compact state replaces.
Compacted(base, m) ==
  {x \in In(base.msgs, "links") : /\ x.ts <= m.ts
                                  /\ x.kind = "remove" \/ x.key \notin m.targets}

MergeCompact(st, base, m) ==
  PutCompact(DeleteMany(st, Compacted(base, m) \cup ({st.compact} \ {None})), m)

Merged(st, base, m) ==
  CASE m.kind = "add" -> MergeAdd(st, m)
    [] m.kind = "remove" -> MergeRemove(st, m)
    [] m.kind = "compact" -> MergeCompact(st, base, m)

\* Mutant: one message too few is pruned.
PrunableLess(st, base, s) ==
  {m \in In(base.msgs, s) :
     Cardinality({x \in In(base.msgs, s) : Older(x, m)}) + limit + 1
       < Cardinality(In(st.trie, s))}

\* The oldest committed messages of a store, as many as the trie counts over
\* the limit.
Prunable(st, base, s) ==
  {m \in In(base.msgs, s) :
     Cardinality({x \in In(base.msgs, s) : Older(x, m)}) + limit
       < Cardinality(In(st.trie, s))}

Pruned == UNION {Prunable(cur, db, s) : s \in merged}

----------------------------------------------------------------------------
Init ==
  /\ db = EmptyStore
  /\ cur = EmptyStore
  /\ batch = {}
  /\ merged = {}
  /\ limit \in Limits
  /\ signers = Signers
  /\ seen = {}
  /\ past = {}

Happens(cond, what) == past' = IF cond THEN past \cup {what} ELSE past

\* A signer is removed on chain.  System messages come first in a
\* transaction, so nothing of the transaction is merged yet.
RevokeSigner(s) ==
  /\ batch = {}
  /\ s \in signers \cap Revocable
  /\ signers' = signers \ {s}
  /\ cur' = DeleteMany(cur, {m \in db.msgs : m.signer = s})
  /\ Happens(TRUE, "trimmed")
  /\ UNCHANGED <<db, batch, merged, limit, seen>>

\* Storage is rented, or expires.
ChangeLimit(l) ==
  /\ batch = {} /\ l # limit
  /\ limit' = l
  /\ Happens(l < limit, "shrunk")
  /\ UNCHANGED <<db, cur, batch, merged, signers, seen>>

\* The next user message of the transaction: they are sorted by time.  A
\* message the store refuses changes nothing.
MergeMessage(m) ==
  /\ Cardinality(batch) < BatchSize
  /\ m \notin batch
  /\ \A b \in batch : b.ts <= m.ts
  /\ m.signer \in signers
  /\ batch' = batch \cup {m}
  /\ seen' = seen \cup {m}
  /\ IF Accepts(cur, m)
     THEN cur' = Merged(cur, db, m) /\ merged' = merged \cup {StoreOf(m)}
     ELSE UNCHANGED <<cur, merged>>
  /\ past' = past \cup (IF batch # {} THEN {"bulk"} ELSE {})
                  \cup (IF m.kind = "compact" THEN {"trimmed"} ELSE {})
  /\ UNCHANGED <<db, limit, signers>>

\* A store is pruned when a message of its types was merged, once per type.
\* A second pass counts from the same trie and walks the same committed
\* messages, so it finds no more than the first.  Then the chunk commits.
CommitTransaction ==
  /\ cur # db \/ batch # {}
  /\ cur' = DeleteMany(cur, Pruned)
  /\ db' = cur'
  /\ batch' = {}
  /\ merged' = {}
  /\ Happens(Pruned # {}, "trimmed")
  /\ UNCHANGED <<limit, signers, seen>>

Next ==
  \/ \E s \in Signers : RevokeSigner(s)
  \/ \E l \in Limits : ChangeLimit(l)
  \/ \E m \in Messages : MergeMessage(m)
  \/ CommitTransaction

Spec == Init /\ [][Next]_vars

----------------------------------------------------------------------------
\* The store holds what its types say.
TypeOK ==
  /\ db \in Store
  /\ cur \in Store
  /\ batch \subseteq seen
  /\ merged \subseteq Stores
  /\ limit \in Limits
  /\ signers \subseteq Signers
  /\ seen \subseteq Messages
  /\ past \subseteq Happenings

\* The rules as LinkStore and CastStore list them, on a set of messages that
\* collide.
Latest(S) == {m \in S : \A x \in S : x.ts <= m.ts}
RemovesOf(S) == {m \in S : m.kind = "remove"}
RemovesFirst(S) == IF RemovesOf(S) = {} THEN S ELSE RemovesOf(S)
HighestHash(S) == {m \in S : \A x \in S : x.hash <= m.hash}
Winner(S, k) == IF k \in CastKeys THEN HighestHash(Latest(RemovesFirst(S)))
                                 ELSE HighestHash(RemovesFirst(Latest(S)))

OfKey(S, k) == {m \in S : m.key = k}

\* While nothing is pruned, compacted or revoked, the store holds for each key
\* exactly the winner of the messages that came, whatever the order they came
\* in and however transactions cut the sequence: this is what makes the
\* two-phase sets of the stores converge.
WinnersStored ==
  "trimmed" \notin past =>
    \A k \in Keys : OfKey(cur.msgs, k) = Winner(OfKey(seen, k), k)

IndexFinds(st) ==
  /\ \A k \in Keys : st.adds[k] # None =>
       st.adds[k] \in st.msgs /\ st.adds[k].key = k /\ st.adds[k].kind = "add"
  /\ \A k \in Keys : st.removes[k] # None =>
       st.removes[k] \in st.msgs /\ st.removes[k].key = k /\ st.removes[k].kind = "remove"
  /\ \A m \in st.msgs : \/ m.kind = "add" /\ st.adds[m.key] = m
                        \/ m.kind = "remove" /\ st.removes[m.key] = m
  /\ \A k \in Keys : st.adds[k] = None \/ st.removes[k] = None

\* The set indices of the committed store lead to every stored message and to
\* no other one, a key has an add or a remove and never both, and the trie,
\* from which the usage and the state root are taken, holds exactly the
\* stored messages.
IndexHolds ==
  /\ IndexFinds(db)
  /\ db.trie = db.msgs \cup ({db.compact} \ {None})

\* They do as long as nothing was lost but to collisions, and also when
\* something was, if every transaction had one message and no limit became
\* smaller.  (Pruning, compacting and revoking walk the committed messages,
\* of which the transaction may have replaced some.)
IndexMatches ==
  "trimmed" \notin past \/ past \cap {"bulk", "shrunk"} = {} => IndexHolds

\* A committed compact state is obeyed: no remove of a link older than it is
\* stored, and no older add of a target it does not list (in transactions of
\* one message: it does not see what its own transaction has merged).
CompactHolds ==
  "bulk" \notin past /\ db.compact # None =>
    \A m \in In(db.msgs, "links") : m.ts < db.compact.ts =>
                                      m.kind = "add" /\ m.key \in db.compact.targets

\* A transaction that merges a message leaves the store within the limit.
LimitHolds ==
  [][past \cap {"bulk", "shrunk"} = {} =>
       \A s \in merged : merged' = {} => Cardinality(In(db'.trie, s)) <= limit]_vars

=============================================================================
