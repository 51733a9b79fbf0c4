------------------------------- MODULE Trie -------------------------------
(***************************************************************************)
(* The Merkle trie of a shard (storage/trie/trie_node.rs, merkle_trie.rs)  *)
(* and the way the engine uses it.                                         *)
(*                                                                         *)
(* Every message of a shard is a key of the trie, and the root hash is     *)
(* what the validators vote on: it must depend on the set of keys alone,   *)
(* never on the order in which they came and went.  Nodes live in three    *)
(* places.  mem is the tree under MerkleTrie::root; a child that a node of *)
(* mem names and mem does not hold is a `Serialized' child, read from the  *)
(* database when it is first needed.  batch is the open                    *)
(* RocksDbTransactionBatch.  db is the database.                           *)
(*                                                                         *)
(* A key is a sequence of nibbles; all keys have one length (TrieKey pads  *)
(* names for that reason).  A hash is a term: the key for a leaf, the      *)
(* sequence of the children's hashes for an inner node, so equal hashes    *)
(* are equal terms (blake3 has no collisions here).                        *)
(***************************************************************************)
EXTENDS Integers, Sequences, FiniteSets, FiniteSetsExt, SequencesExt, TLC

CONSTANTS
    Keys,           \* the keys the shard's messages map to
    Uncompacted,    \* UNCOMPACTED_LENGTH
    MaxBulk,        \* bound: keys of one insert call
    MaxOps,         \* bound: inserts and deletes of one transaction
    MaxPage         \* bound: page sizes that are tried

ASSUME TrieAssumption ==
    /\ IsFiniteSet(Keys)
    /\ \A k, l \in Keys : Len(k) = Len(l) /\ Len(k) > Uncompacted
    /\ Uncompacted \in Nat

VARIABLES
    up,         \* the process is running
    mem,        \* prefix -> node: MerkleTrie::root and what hangs from it
    batch,      \* the open transaction: [puts |-> prefix -> node, dels |-> prefixes]
    db,         \* prefix -> node
    cache,      \* the engine's pending_txn, with the keys it would leave
    ops,        \* the inserts and deletes of the open transaction
    content,    \* history: the keys merged in the open transaction
    stored      \* history: the keys of the committed transactions

vars == <<up, mem, batch, db, cache, ops, content, stored>>

Root == <<>>
None == <<>>            \* TrieNode::key = None, and what it serializes to
NoHash == <<>>

\* RootPrefix::MerkleTrieNode, the first byte of a node's database key.
MerkleTrieNode == 8

TrieNode == [items |-> 0, key |-> None, kids |-> {}, hashes |-> <<>>]
NewBatch == [puts |-> <<>>, dels |-> {}]
NoCache == [some |-> FALSE, batch |-> NewBatch, keys |-> {}]

IsLeaf(n) == n.kids = {}

Sorted(S) == SetToSortSeq(S, LAMBDA a, b : a < b)

\* TrieNode::hash.  An inner node hashes its children's hashes in the order of
\* their characters; the characters themselves are not part of it.
Hash(n) ==
    IF IsLeaf(n)
    THEN IF n.key = None THEN NoHash ELSE <<"leaf", n.key>>
    ELSE LET cs == Sorted(DOMAIN n.hashes)
         IN IF cs = <<>> THEN NoHash
            ELSE <<"node", [i \in DOMAIN cs |-> n.hashes[cs[i]]]>>

Without(f, S) == [x \in DOMAIN f \ S |-> f[x]]
Beyond(f, p) == {q \in DOMAIN f : IsPrefix(p, q)}

\* TrieNode::update_hash: a node's hash is kept in its parent.
UpdateHash(hashes, c, h) ==
    IF h = NoHash THEN Without(hashes, {c}) ELSE (c :> h) @@ hashes

(***************************************************************************)
(* A tree is the record [mem, batch, db].                                  *)
(***************************************************************************)
\* Bug seed: a node is written once in a transaction.
PutOnce(t, p, n) ==
    [t EXCEPT !.mem = (p :> n) @@ @,
              !.batch.puts = @ @@ (p :> n),
              !.batch.dels = @ \ {p}]

\* put_to_txn of a node that was changed in place.
Put(t, p, n) ==
    [t EXCEPT !.mem = (p :> n) @@ @,
              !.batch.puts = (p :> n) @@ @,
              !.batch.dels = @ \ {p}]

DeleteFromTxn(t, p) ==
    [t EXCEPT !.batch.puts = Without(@, {p}), !.batch.dels = @ \cup {p}]

\* get_or_load_child.  A child that is not in the database loads as an empty
\* node.  A character the node does not have gets a fresh node (insert).
LoadChild(t, p, c) ==
    LET q == Append(p, c)
    IN IF q \in DOMAIN t.mem THEN t
       ELSE [t EXCEPT !.mem = @ @@ (q :> IF c \in t.mem[p].kids /\ q \in DOMAIN t.db
                                         THEN t.db[q] ELSE TrieNode)]

\* Bug seed: the new child is not written.
SplitLeafUnsaved(t, p) ==
    LET n == t.mem[p]
        c == n.key[Len(p) + 1]
        child == [TrieNode EXCEPT !.key = n.key, !.items = 1]
    IN Put([t EXCEPT !.mem = (Append(p, c) :> child) @@ @], p,
           [n EXCEPT !.key = None, !.kids = {c}, !.hashes = UpdateHash(@, c, Hash(child))])

\* split_leaf_node: the key of leaf p moves to a new child.
SplitLeaf(t, p) ==
    LET n == t.mem[p]
        c == n.key[Len(p) + 1]
        child == [TrieNode EXCEPT !.key = n.key, !.items = 1]
    IN Put(Put(t, Append(p, c), child), p,
           [n EXCEPT !.key = None, !.kids = {c}, !.hashes = UpdateHash(@, c, Hash(child))])

At(K, d, c) == {k \in K : k[d + 1] = c}
CharsAt(K, d) == {k[d + 1] : k \in K}

\* TrieNode::insert of the keys K below prefix p.
RECURSIVE InsertKeys(_, _, _)
InsertKeys(t, p, K) ==
    LET d == Len(p)
        leaf == d >= Uncompacted /\ IsLeaf(t.mem[p])
        first == leaf /\ t.mem[p].key = None
        t1 == IF first THEN Put(t, p, [t.mem[p] EXCEPT !.key = CHOOSE k \in K : TRUE,
                                                       !.items = @ + 1])
                       ELSE t
        one == IF first THEN 1 ELSE 0
        rest == IF leaf THEN K \ {t1.mem[p].key} ELSE K
        Into(c, acc) ==
            LET r == InsertKeys(LoadChild(acc.tree, p, c), Append(p, c), At(rest, d, c))
            IN [tree |-> [r.tree EXCEPT
                            !.mem[p].kids = @ \cup {c},
                            !.mem[p].hashes = IF r.new = 0 THEN @
                                ELSE UpdateHash(@, c, Hash(r.tree.mem[Append(p, c)]))],
                new |-> acc.new + r.new]
        all == FoldSet(Into, [tree |-> IF leaf THEN SplitLeaf(t1, p) ELSE t1, new |-> 0],
                       CharsAt(rest, d))
        n == [all.tree.mem[p] EXCEPT !.items = @ + all.new]
    IN CASE rest = {} -> [tree |-> t1, new |-> one]
         [] rest # {} /\ all.new = 0 -> [tree |-> all.tree, new |-> one]
         [] OTHER -> [tree |-> Put(all.tree, p, n), new |-> one + all.new]

\* Bug seed: an emptied child stays.
KeepChild(t, p, c) == t

\* delete: an empty child is removed, with its hash.
DropChild(t, p, c) ==
    [t EXCEPT !.mem = Without([@ EXCEPT ![p].kids = @ \ {c},
                                        ![p].hashes = Without(@, {c})],
                              Beyond(@, Append(p, c)))]

\* Bug seed: the trie is never compacted.
NoCompaction(t, p) == t

\* delete, the compaction: a node left with one key below one child takes the
\* key up.  The child's hash stays behind in hashes, where a later split
\* overwrites it.  The `child prefix' that is deleted from the transaction is
\* already a database key, and delete_to_txn puts the root prefix in front of
\* it once more: the node that goes is the one at MerkleTrieNode, p, c.
Compact(t, p) ==
    LET n == t.mem[p]
        c == CHOOSE x \in n.kids : TRUE
        t1 == LoadChild(t, p, c)
        child == t1.mem[Append(p, c)]
    IN IF n.items = 1 /\ Cardinality(n.kids) = 1 /\ Len(p) >= Uncompacted
       THEN IF child.key # None
            THEN DeleteFromTxn(
                   [t1 EXCEPT !.mem = Without([@ EXCEPT ![p].key = child.key, ![p].kids = {}],
                                              Beyond(@, Append(p, c)))],
                   <<MerkleTrieNode>> \o p \o <<c>>)
            ELSE t1
       ELSE t

\* TrieNode::delete of the keys K below prefix p.
RECURSIVE DeleteKeys(_, _, _)
DeleteKeys(t, p, K) ==
    LET d == Len(p)
        n == t.mem[p]
        From(c, acc) ==
            LET q == Append(p, c)
                r == DeleteKeys(LoadChild(acc.tree, p, c), q, At(K, d, c))
                hashed == [r.tree EXCEPT !.mem[p].hashes =
                              IF r.gone = 0 THEN @ ELSE UpdateHash(@, c, Hash(r.tree.mem[q]))]
            IN [tree |-> IF r.tree.mem[q].items = 0 THEN DropChild(hashed, p, c) ELSE hashed,
                gone |-> acc.gone + r.gone]
        all == FoldSet(From, [tree |-> t, gone |-> 0], CharsAt(K, d) \cap n.kids)
        less == [all.tree EXCEPT !.mem[p].items = @ - all.gone]
        compact == Compact(less, p)
    IN CASE IsLeaf(n) /\ n.key \in K ->
                [tree |-> DeleteFromTxn([t EXCEPT !.mem[p].key = None, !.mem[p].items = @ - 1], p),
                 gone |-> 1]
         [] IsLeaf(n) /\ n.key \notin K -> [tree |-> t, gone |-> 0]
         [] ~ IsLeaf(n) /\ all.gone = 0 -> all
         [] ~ IsLeaf(n) /\ all.gone > 0 /\ less.mem[p].items = 0 ->
                [tree |-> DeleteFromTxn(less, p), gone |-> all.gone]
         [] OTHER -> [tree |-> Put(compact, p, compact.mem[p]), gone |-> all.gone]

-----------------------------------------------------------------------------
Tree == [mem |-> mem, batch |-> batch, db |-> db]

SetTree(t) == mem' = t.mem /\ batch' = t.batch

\* MerkleTrie::initialize on an empty database.
Init ==
    /\ up = TRUE
    /\ mem = (Root :> TrieNode)
    /\ db = (Root :> TrieNode)
    /\ batch = NewBatch
    /\ cache = NoCache
    /\ ops = 0
    /\ content = {}
    /\ stored = {}

\* MerkleTrie::insert: update_for_event one key at a time, replication a page.
Insert(K) ==
    /\ up
    /\ ops < MaxOps
    /\ ops' = ops + 1
    /\ SetTree(InsertKeys(Tree, Root, K).tree)
    /\ content' = content \cup K
    /\ UNCHANGED <<up, db, cache, stored>>

\* MerkleTrie::delete, from update_for_event.
Delete(k) ==
    /\ up
    /\ ops < MaxOps
    /\ ops' = ops + 1
    /\ SetTree(DeleteKeys(Tree, Root, {k}).tree)
    /\ content' = content \ {k}
    /\ UNCHANGED <<up, db, cache, stored>>

\* get_node_from_trie: a read that walks to a key loads the nodes on the way.
Walk(t, k) ==
    LET Step(i, u) == IF SubSeq(k, 1, i - 1) \in DOMAIN u.mem
                         /\ k[i] \in u.mem[SubSeq(k, 1, i - 1)].kids
                      THEN LoadChild(u, SubSeq(k, 1, i - 1), k[i]) ELSE u
    IN FoldLeft(LAMBDA u, i : Step(i, u), t, [i \in 1..Len(k) |-> i])

Read(k) ==
    /\ up
    /\ mem' = Walk(Tree, k).mem
    /\ UNCHANGED <<up, batch, db, cache, ops, content, stored>>

\* RocksDB::commit: the database after batch b.
Committed(b) == Without(b.puts @@ db, b.dels)

\* MerkleTrie::reload(..).unwrap(): the tree starts again from the root in
\* the database d.  A database without a root ends the process.
Reload(d) ==
    IF Root \in DOMAIN d
    THEN up' = TRUE /\ mem' = (Root :> d[Root])
    ELSE up' = FALSE /\ mem' = mem

\* propose_state_change and validate_state_change: the transaction is kept in
\* pending_txn and the trie goes back to the committed state.
Abandon ==
    /\ up
    /\ cache' = [some |-> TRUE, batch |-> batch, keys |-> content]
    /\ batch' = NewBatch
    /\ ops' = 0
    /\ content' = stored
    /\ Reload(db)
    /\ UNCHANGED <<db, stored>>

\* commit_and_emit_events of the open transaction (a chunk that was replayed).
Commit ==
    /\ up
    /\ db' = Committed(batch)
    /\ stored' = content
    /\ batch' = NewBatch
    /\ ops' = 0
    /\ cache' = NoCache
    /\ Reload(db')
    /\ UNCHANGED content

\* commit_and_emit_events of the cached transaction.
CommitCached ==
    /\ up
    /\ cache.some
    /\ batch = NewBatch
    /\ db' = Committed(cache.batch)
    /\ stored' = cache.keys
    /\ content' = cache.keys
    /\ cache' = NoCache
    /\ Reload(db')
    /\ UNCHANGED <<batch, ops>>

\* The process stops and starts again: MerkleTrie::initialize.
Restart ==
    /\ up' = TRUE
    /\ db' = IF Root \in DOMAIN db THEN db ELSE (Root :> TrieNode) @@ db
    /\ mem' = (Root :> db'[Root])
    /\ batch' = NewBatch
    /\ ops' = 0
    /\ cache' = NoCache
    /\ content' = stored
    /\ UNCHANGED stored

Next ==
    \/ \E K \in SUBSET Keys : Cardinality(K) \in 1..MaxBulk /\ Insert(K)
    \/ \E k \in Keys : Delete(k)
    \/ \E k \in Keys : Read(k)
    \/ Abandon
    \/ Commit
    \/ CommitCached
    \/ Restart

Spec == Init /\ [][Next]_vars
-----------------------------------------------------------------------------
(***************************************************************************)
(* Reads.                                                                  *)
(***************************************************************************)
\* get_node_from_txn_or_db.  A node the batch deletes is still read from the
\* database.
GetNode(p) ==
    CASE p \in DOMAIN batch.puts -> batch.puts[p]
      [] p \notin DOMAIN batch.puts /\ p \in DOMAIN db -> db[p]
      [] OTHER -> TrieNode

GetCount(p) == GetNode(p).items
GetHash(p) == Hash(GetNode(p))

\* get_node_from_trie at a prefix that is reached through children.
NodeAt(q) ==
    CASE q \in DOMAIN mem -> mem[q]
      [] q \notin DOMAIN mem /\ q \in DOMAIN db -> db[q]
      [] OTHER -> TrieNode

Reached(q) == \A i \in 1..Len(q) : q[i] \in NodeAt(SubSeq(q, 1, i - 1)).kids

\* get_paged_values_of_subtree: the state of the walk is the path below the
\* prefix, and for every level the characters still to visit, smallest last.
\* It is also the page token.
PageStart(p) ==
    LET n == NodeAt(p)
    IN IF IsLeaf(n)
       THEN [rel |-> <<>>, stack |-> <<>>, keys |-> IF n.key = None THEN <<>> ELSE <<n.key>>]
       ELSE [rel |-> <<>>, stack |-> <<Reverse(Sorted(n.kids))>>, keys |-> <<>>]

\* Bug seed: a level that is exhausted leaves its character on the path.
PageStepKeepsPath(p, s) ==
    LET top == Last(s.stack)
        popped == Append(Front(s.stack), Front(top))
        n == NodeAt(p \o Append(s.rel, Last(top)))
    IN CASE top = <<>> -> [s EXCEPT !.stack = Front(@)]
         [] top # <<>> /\ IsLeaf(n) ->
                [s EXCEPT !.stack = popped,
                          !.keys = IF n.key = None THEN @ ELSE Append(@, n.key)]
         [] OTHER -> [s EXCEPT !.stack = Append(popped, Reverse(Sorted(n.kids))),
                               !.rel = Append(@, Last(top))]

\* One turn of the loop.
PageStep(p, s) ==
    LET top == Last(s.stack)
        popped == Append(Front(s.stack), Front(top))
        n == NodeAt(p \o Append(s.rel, Last(top)))
    IN CASE top = <<>> ->
                [s EXCEPT !.stack = Front(@), !.rel = IF @ = <<>> THEN @ ELSE Front(@)]
         [] top # <<>> /\ IsLeaf(n) ->
                [s EXCEPT !.stack = popped,
                          !.keys = IF n.key = None THEN @ ELSE Append(@, n.key)]
         [] OTHER -> [s EXCEPT !.stack = Append(popped, Reverse(Sorted(n.kids))),
                               !.rel = Append(@, Last(top))]

\* One call: it stops when the page is full or the walk is over.
RECURSIVE Page(_, _, _)
Page(p, s, max) ==
    IF Len(s.keys) >= max \/ s.stack = <<>> THEN s ELSE Page(p, PageStep(p, s), max)

\* The calls of a client that follows the page tokens.
RECURSIVE Pages(_, _, _)
Pages(p, s, max) ==
    LET r == Page(p, s, max)
    IN IF r.stack = <<>> THEN r.keys ELSE r.keys \o Pages(p, [r EXCEPT !.keys = <<>>], max)

-----------------------------------------------------------------------------
(***************************************************************************)
(* The reference: the trie of a set of keys, as a function of the set.     *)
(***************************************************************************)
ShortPrefixes == {SubSeq(k, 1, i) : k \in Keys, i \in 0..Uncompacted}
Under(S, p) == {k \in S : IsPrefix(p, k)}

RECURSIVE HashOf(_, _)
HashOf(S, d) ==
    LET cs == Sorted(CharsAt(S, d))
    IN CASE S = {} -> NoHash
         [] Cardinality(S) = 1 /\ d >= Uncompacted -> <<"leaf", CHOOSE k \in S : TRUE>>
         [] OTHER -> <<"node", [i \in DOMAIN cs |-> HashOf(At(S, d, cs[i]), d + 1)]>>

Lexicographic(a, b) ==
    \E i \in 1..Len(a) : a[i] < b[i] /\ \A j \in 1..(i - 1) : a[j] = b[j]

InOrder(S) == SetToSortSeq(S, Lexicographic)

-----------------------------------------------------------------------------
NodeOK(n) ==
    /\ n.items \in 0..Cardinality(Keys)
    /\ n.key \in Keys \cup {None}
    /\ n.kids \subseteq 0..15
    /\ n.key # None => n.kids = {} /\ n.items = 1
    /\ n.kids = {} \/ n.kids = DOMAIN n.hashes

(* Types: a node in memory, in the batch or in the database either holds a *)
(* key or has children, and names exactly the children it has hashes of.   *)
TypeOK ==
    /\ up \in BOOLEAN
    /\ \A p \in DOMAIN mem : NodeOK(mem[p])
    /\ \A p \in DOMAIN db : NodeOK(db[p])
    /\ \A p \in DOMAIN batch.puts : NodeOK(batch.puts[p])
    /\ batch.dels \cap DOMAIN batch.puts = {}
    /\ ops \in 0..MaxOps
    /\ content \subseteq Keys /\ stored \subseteq Keys

(* The root hash in memory is the hash of the set of keys: however they    *)
(* were inserted, deleted, split, compacted, committed, rolled back and    *)
(* loaded, two nodes with the same messages have the same root             *)
(* (trie_node.rs:469, `the hash will be the same as another trie that      *)
(* doesn't have this node').                                               *)
RootIsCanonical == up => Hash(mem[Root]) = HashOf(content, 0)

(* A subtree that still has keys is counted exactly, inside an open        *)
(* transaction too: get_count is what storage limits are enforced with     *)
(* (stores.rs get_usage_by_store_type), and get_hash is the account root   *)
(* that every transaction carries (engine.rs:1083).                        *)
SubtreesAreCurrent ==
    up => \A p \in ShortPrefixes :
            Under(content, p) # {} =>
                /\ GetCount(p) = Cardinality(Under(content, p))
                /\ GetHash(p) = HashOf(Under(content, p), Len(p))

(* The committed nodes are the trie of the committed keys: the tree a      *)
(* restart, a rollback or a replication snapshot reads from the database   *)
(* has every key, with the hash and the count of its set.                  *)
RECURSIVE StoredBelow(_, _)
StoredBelow(p, S) ==
    /\ p \in DOMAIN db
    /\ Hash(db[p]) = HashOf(S, Len(p))
    /\ db[p].items = Cardinality(S)
    /\ IF db[p].kids = {} THEN S = (IF db[p].key = None THEN {} ELSE {db[p].key})
       ELSE /\ db[p].kids = CharsAt(S, Len(p))
            /\ \A c \in db[p].kids : StoredBelow(Append(p, c), At(S, Len(p), c))

StoredTrie == stored # {} => StoredBelow(Root, stored)

(* Following the page tokens lists every key of a subtree once, in order,  *)
(* whatever the page size: a replication client misses no message.         *)
PagesListAll ==
    up /\ batch = NewBatch =>
        \A p \in {q \in ShortPrefixes : Reached(q)}, max \in 1..MaxPage :
            Pages(p, PageStart(p), max) = InOrder(Under(content, p))

(* A child that a committed node names is in the database: trie_node.rs:81 *)
(* `a node exists in the trie and needs to be loaded from the database     *)
(* when accessed'.                                                         *)
SerializedChildrenExist ==
    \A p \in DOMAIN db : (\A i \in 1..Len(p) : LET q == SubSeq(p, 1, i - 1)
                                                IN q \in DOMAIN db /\ p[i] \in db[q].kids) =>
        \A c \in db[p].kids : Append(p, c) \in DOMAIN db

=============================================================================
