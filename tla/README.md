# A TLA+ model of the Snapchain node

This directory holds TLA+ specifications of the node in `src/`, the TLC
configurations that model-check them, and TLAPS proofs of the main safety
properties of two of them. `PROJECT.json` lists the components, runs, mutants,
theorems, hazards and, for each definition, the source lines it models.

Paths below are relative to `src/src/`.

## 1. The system

A node stores the social messages of Farcaster users. Users are spread over
data shards 1, 2, ...; shard 0 orders what concerns all of them.

| Part | Source | What it does |
|---|---|---|
| Shard validators | `consensus/{malachite/host,validator,proposer}.rs`, `storage/store/engine.rs` | Consensus (the Malachite library) decides one shard chunk per height. The proposer pulls messages, the engine replays them, the root of the trie is voted on, the decided chunk is committed. |
| Block validators | `consensus/proposer.rs`, `storage/store/block_engine.rs` | Shard 0. A block witnesses a chunk of each shard and numbers block events, which every shard must merge in order. |
| Block receiver | `mempool/block_receiver.rs` | On each shard: turns the block events of decided blocks into mempool messages, fills gaps, waits for confirmation. |
| Mempool | `mempool/mempool.rs`, `storage/store/mempool_poller.rs` | Admits messages (duplicates, rate limits, capacity), hands them to the proposers, drops what was decided. |
| Message stores | `storage/store/account/*_store.rs`, `store.rs` | Two-phase sets with set indices, compact states, pruning by storage limits, revocation by signer. |
| Merkle trie | `storage/trie/*` | All messages of a shard as keys; its root is the shard's state root; counts and pages come from it. |
| Read node | `consensus/read_validator.rs`, `malachite/read_{host,sync}.rs` | Follows the decided values by gossip and by asking peers. |
| Bootstrap | `bootstrap/replication/*` | Copies a shard from a peer's snapshot, in parallel, resumable. |
| Replication server | `network/replication/*` | Keeps snapshots open and serves their pages. |
| Connectors | `connectors/*` | Read on-chain events and name transfers and submit them. |
| User state | `storage/store/account/{key_*,gasless_*,storage_lend,username_proof,user_data,onchain_event}*.rs` | Keys and nonces, storage units, names. |
| Hub events | `storage/store/account/event.rs` | Numbered events of every change, for subscribers. |
| Jobs, snapshots | `jobs/*`, `storage/db/{snapshot,backup}.rs` | Pruning, uploads, migrations. |
| Client API | `api/*`, `hyper/*` | Indexers fed by hub events and by backfills, webhooks with a retry queue, HTTP. |
| Gossip, RPC | `network/*` | Delivery of messages; request handlers. |
| Validation, versions | `core/validations/*`, `version/*` | Predicates on one message; a table of features. |

How they interact: a message enters over RPC, gossip, a connector or the block
receiver into the **mempool**; a **proposer** pulls it into a chunk; the
**engine** merges it into the **message stores** and the **trie**; consensus
decides; the chunk is published to the mempool and the subscribers and
committed; **shard 0** witnesses it; **read nodes** follow.

## 2. Modules

| Module | Models | Main state |
|---|---|---|
| `ShardState` | `replay_proposal`, as a function on small states | `trie`, `lends`, `seq` |
| `ShardChain` | one shard's validators, from a round to a committed chunk | on disk `db`, `chunks`, `stored`; in memory `round`, `pending`, `proposed`; consensus `sent`, `valid`, `decided`; history `canon`, `torn` |
| `Ledger` | what nodes promise: prefixes of one growing chain | `chain`, `ledger` |
| `BlockChain` | shard 0's validators and read nodes | `db` (messages, events), `blocks`, `shard`, `proposed`, ... |
| `BlockReceiver` | receiver, mempool order, pull, merge, for one shard | `channel`, `pc`, `cur`, `queue`, `pool`, `pulled`, `merged` |
| `Mempool` | the mempool task and the commits it races with | `queue`, `budget`, `pool`, `abandoned`, `pulled`, `deciding`, `db`, `decisions`, limiters |
| `MessageStore` | one user's casts and links under merge, prune, compact, revoke | `db`, `cur` (the transaction's view), `limit`, `signers`, history `seen`, `past` |
| `ReadNode` | read validator, host and sync actors | `stored`, `last`, `buffered`, `mailbox`, `syncing`, `request`, `alive` |
| `Trie` | the Merkle trie and the engine's use of it | `mem`, `batch`, `db`, `cache`, history `content`, `stored` |
| `Bootstrap` | one shard's bootstrap, page by page | `phase`, `task`, `mem`, `db`, `chunk`, `snap` |
| `MC*` | small instances | |
| `ShardChainProofs`, `MessageStoreProofs` | theorems | |

`ShardChain` takes execution as a parameter (`Exec`, `RootOf`), so that the
proofs hold for every deterministic execution; `MCShardChain` composes it with
`ShardState`. `BlockReceiver` composes four components because its question is
about all of them: does a block event reach a chunk? `ShardChain` and
`ReadNode` are both shown to implement `Ledger`.

### ShardChain

| Action | Code |
|---|---|
| `StartRound` | `StartedRound`, `start_round`: the cached transaction is dropped |
| `ProposeFresh`, `ProposeStored` | `GetValue`: `propose_value`, or the proposal stored for the same height and round |
| `AddProposedValue` | received proposal parts, `add_proposed_value`, `validate_state_change` |
| `SyncValue` | `ProcessSyncedValue`: the chunk a peer has stored for the height |
| `ConsensusDecides` | external: one value per height, valid to a quorum |
| `Decide` | `decide`, `commit_shard_chunk`: the cached transaction if its root and block events are the chunk's, else a replay |
| `DecideUnknown` | `Decided` for a value the proposer does not know: the host restarts the height |
| `Crash`, `CrashAfterState`, `CrashAfterChunk` | a crash between steps, between `db.commit` and `put_shard_chunk`, and after it |

`HashOf` is what the code hashes: the header, with the parent, the time in whole
seconds, the height and the root, and neither the round nor the transactions. A decided
chunk is looked up by that hash, so two proposals of one second with one root and
different transactions are one value to a node. `canon` (the states the decided chunks
lead to) and `torn` (where a crash fell between the two writes) are history variables.

Two things can go wrong to which the code has no answer, and the properties name
them instead of leaving them out (`SoundUpTo`): other transactions were proposed under
the hash that was decided (`UniqueAt`), or a commit was torn and the chunk's second
replay differs from its first (`ReplaysAt`), as for block events out of order. Both
happen in the runs. What holds without any condition: roots agree with the decided
chunks, hashes agree, nobody equivocates, chunks are linked, and the hashes are a
ledger.

`ShardState` keeps of execution what distinguishes orders and repetitions: a
message merges only over an older one of its slot; a block event merges only if
its number is the last one plus one; the number is stored beside the trie and is
not part of the root.

### BlockChain

The block engine caches nothing: proposing, validating and committing are three
replays, and each numbers the events afresh from the last stored one. The
witness of a shard is the chunk after the one the previous block witnessed, if
the proposer has it. `StoreShardChunk` lets the other shards advance
independently on each validator. `CrashAfterState` and `ReaderCrashAfterState` are the
crash between `db.commit` and `put_block`. A validator replays a block before it
remembers it (`AddProposedValue`), a read node commits what was decided at once
(`CommitDecidedValue`).

A message has a slot and an order within it: a lend's lender and borrower and its
timestamp hash, a key operation's custody address and its nonce. A lend of no units
removes the lend it beats and is not kept itself, so an older lend may merge, and
be announced, again (`AnnouncedOnceUntilRevoked`).

### BlockReceiver

`ReceiverStep` is the receiver's task (`ReceiveNothing`, `ReceiveBlock`,
`ReceiveLagged`, `SyncBlock`, `SyncMissing`, `SyncConfirmed`, `SubmitBlock`,
`BlockConfirmed`, `ConfirmationTimedOut`). Two unwraps end it (`pc = "dead"`): receiving
from a broadcast channel that dropped a block, and a gap whose block is not in the
store (`missing`: a failed `put_block` is only logged, `block_engine.rs:945`). A block
whose events do not validate (`invalid`) is submitted as nothing, and waited for all
the same. The mempool orders block events by the second of their block and then by the
number as text, so within a second 10 comes before 9; the poller groups events by fid
in an unspecified order; the engine merges only the next event. `LosePulled` is a round
that fails after the pull.

### Mempool

A tick looks at the size once and then takes up to `Batch` requests. An on-chain
event goes to shard 0 and to its user's shard, key messages to shard 0 alone. Publishing a decided chunk and
committing it are two steps (`OwnProposal`/`OtherProposal`, then `Commit`), and
the mempool may handle the decision before or after the commit, or lose it when
the channel overflows. Messages that were pulled for a proposal that fails are
not put back: this is what the code does, and senders submit again. A proposer that
stops waiting (`StopWaiting`) leaves its request in the channel, and the messages that
answer it go to nobody (`PullForNobody`). Messages with a primary key are looked up in
the stores when they are admitted and when they are pulled; for compact states and key
operations the mempool has no such key and looks nothing up (`HasPrimaryKey`).

### MessageStore

The engine replays a user's messages of a chunk as one transaction. Point reads
see the open batch, iterations over a prefix do not; the module keeps both
views, `cur` and `db`. `past` records what has happened that could take a message
away for another reason than a collision: `"trimmed"` (pruned, compacted or
revoked), `"bulk"` (a transaction of more than one message), `"shrunk"` (a limit
that became smaller). The engine prunes once per message type, at the end of the
transaction; for two types of one store the second pass finds nothing to do, so
the model prunes a store once.
Limits are at least 2: users without storage are refused before the stores.

### ReadNode

`Process` is `process_decided_value`: commit the next value and the buffered
ones after it, buffer one that is ahead, drop the rest. A value is its height and
whose commits it carries: `"own"`, `"other"` (valid signatures for some other value: the
height and value id the commits state are not compared with the chunk's header and
hash) or `"none"` (signatures that do not verify). A chunk with another value's commits
may fail to replay, which ends the host actor (`CommitPanics`); an answer without a value
ends the sync actor (`EmptyResponse`); `alive` is the set of actors that run, and only a
restart of the process brings them back. The library's sync state machine is external:
the height it works at, one request in flight, a timeout after which it asks again. A
response after its timeout is the same as gossip of that value (`GossipDelivers`). A crash between two values of a run of
buffered ones is `CrashWhileProcessing`; a crash inside one commit is
`ShardChain`'s subject.

### Trie

Nodes are in memory, in the open batch or in the database; a child that memory
does not hold is loaded when it is needed. `Insert`, `Delete` and `Read` are the
trie's calls; `Abandon`, `Commit`, `CommitCached` and `Restart` are the engine's
(a proposal is replayed and rolled back, its batch kept and committed later).
Hashes are terms, so equal hashes mean equal contents. Deleting the last key
removes the root node; the reload after that commit fails and ends the process,
and a restart begins with a new root (`up`). The keys of the passing run avoid
the path that compaction deletes by mistake (section 6); the run `trie_delete`
has it.

### Bootstrap

Every task goes through insert (trie mutex) and commit (database mutex) of a page;
sessions fill up, requests fail, the process is signalled or crashes, and resumes
from what the database says. `parallel` is the number of tasks.

The number of a part (`vts`) is the first byte of its keys, two levels of the trie, and
the model keeps three: the root, the nodes two parts share (`mid`), and the node of each
part (`sub`); a node a task wrote late is the one with the older hashes, at each level
on its own. `accts` are the accounts' nodes and `want` the account roots the peer sent:
a page of the next account compares the two for the account before it
(`AccountRootMatches`), and `Finish` does for the last one (`FinishFails` otherwise). A page is one item of one
account; an account has several pages.

The peer may have moved to another snapshot when the bootstrap resumes (`snap`,
`Changed`). After a failure the operator may call the bootstrap again (`Resume`) or
start the node, which finds its directory not empty and goes on without a bootstrap
(`StartNode`, `main.rs:521`); neither is assumed to happen. `VerifyShardRoots` compares
the root and nothing below it, as the code does.

## 3. Runs

`tlc -config X.cfg M`, with `X` and `M` as in the table. Each ends in about
two minutes or less on two workers. Every property has a mutant: a variant of a mapped
definition, such as a dropped guard, under which TLC reports that property violated.

| Run | Config, module | Questions |
|---|---|---|
| `shard_crash` | `ShardChain_crash`, `MCShardChain` | With crashes at every point of a commit: is a node's root the decided one and its state the execution of its chunks (`StateIsExecution`), are its chunks the decided ones (`ChunksAreDecided`), does nobody propose twice in a round (`NoEquivocation`), does a decided chunk replay to its root (`DecidedReplays`), does every node store what one node has stored (`EveryNodeCommits`)? |
| `shard_race` | `ShardChain_race`, `MCShardChain` | With competing and late proposals over two heights: does a commit only ever move to the root of the next decided chunk (`CommitsDecided`) whatever is cached, do chunks point to their predecessors (`ParentIsPrevious`), is it a ledger (`ImplementsLedger`)? |
| `block` | `BlockChain`, `MCBlockChain` | Witnesses advance chunk by chunk over stored chunks (`WitnessesAreInOrder`), events are numbered without gap (`EventsAreNumbered`), a message is announced again only after a revocation (`AnnouncedOnceUntilRevoked`), no validator commits a block it cannot replay (`ValidatorsReplay`). |
| `receiver` | `BlockReceiver`, `MCBlockReceiver` | A block is submitted only after the gap before it is closed (`SubmittedAfterTheGap`), each handled block brings the shard forward (`EveryBlockBringsOne`). |
| `mempool` | `Mempool`, `MCMempool` | Its size has a bound (in `TypeOK`), nothing the stores have under a primary key is proposed (`ProposalIsFresh`), nothing admitted is dropped by a limiter or by the bound on a pull (`AdmittedIsProposed`), a full mempool takes requests again (`RequestsAreTaken`). |
| `store` | `MessageStore`, `MCMessageStore` | The winner of each key is stored (`WinnersStored`), indices and trie match the messages (`IndexMatches`), compact states are obeyed (`CompactHolds`), limits hold (`LimitHolds`). |
| `read_node` | `ReadNode` | It stores one value per height in order and the buffer stays in bounds (in `TypeOK`), it is a ledger up to the first value whose certificate is another's (`ImplementsLedger`), the sync actor learns of every advance (`SyncIsTold`), it catches up while its actors run (`CatchesUp`). |
| `trie` | `Trie`, `MCTrie` | The root depends on the set of keys alone (`RootIsCanonical`), counts and hashes of prefixes are current inside a transaction (`SubtreesAreCurrent`), the database holds the trie (`StoredTrie`), pages list every key once (`PagesListAll`). |
| `bootstrap` | `Bootstrap`, `MCBootstrap` | Progress is never ahead of the data (`ProgressIsDurable`), one task at a time builds the snapshot's trie at every level (`SerialVerifies`), what is promoted has the root, messages and accounts of one snapshot (`PromotedIsTheSnapshot`), a bootstrap that nothing interrupts ends (`BootstrapEnds`). |
| `block_torn`, `trie_delete`, `bootstrap_race` | | Violations: section 6. |

### Bounds

- **shard_crash**: two validators, the first of which decides alone, so that the
  other must catch up; two rounds at one height in one second, so that hashes can be
  shared; three payloads (two messages of one slot; the same with block events 2, 1;
  block events 1, 3, 2), which between them replay to themselves, to another state and
  to another root; two crashes, so that a recovery can be interrupted.
- **shard_race**: two heights, two rounds at the first, two seconds, the same payloads,
  no crash. Two heights are enough for a late proposal of one to be validated while the
  other is decided.
- **block**: two chunks of one shard and one of another, so that a witness can run
  ahead; two validators and a read node; two heights with two rounds and a heartbeat at
  the second; a lend, its revocation and a key; one crash.
- **receiver**: blocks of 2, 0, 1, 1 and 2 events numbered from 9, the first three of one
  second, across the point where text order and number order differ; a channel of 3 for
  5 blocks, so that it can overflow; two lost pulls and an early timeout; the third
  block may not be stored and the fourth not validate.
- **mempool**: capacity 1 with 2 requests per tick, so that the bound is exceeded;
  decision channel of 1, so that it overflows; a limiter of one message; one abandoned
  pull at a time.
- **store**: ten messages with every collision: time, kind, hash, signer, compact;
  transactions of up to two; limits 2 and 3.
- **read_node**: five heights and a buffer of two, so that it fills; values with their
  own, another's or no valid commits; two crashes.
- **trie**: four keys of four nibbles that make splits and compactions at two
  depths; two operations per transaction; pages of up to three.
- **bootstrap**: three parts, two of which share a node, of three pages and two accounts;
  one or two tasks (the code's default is four, `service.rs:116`; up to three over two
  pages pass as well, in under four minutes); two failures, sessions that are full
  after each page; two pages that differ in the second snapshot.

`CHECK_DEADLOCK FALSE` is set where the bounds (heights, crashes, messages) or, in
`receiver`, the dead task end the behaviour.

### Fairness

- `ShardChain`: a node starts its next round, syncs the chunk of its height from a peer
  that has stored it, and handles the decision. Malachite's sync and the host's message
  loop do this. A chunk that was decided and that no node has stored is served by nobody
  (`host.rs:330`), so `EveryNodeCommits` starts from a stored one. Nothing is assumed of
  proposers, votes or crashes, which are bounded.
- `BlockReceiver`: the tasks run (receiver, mempool, proposer, engine); confirmation
  deadlines pass. Lost pulls and other validators are not fair.
- `Mempool`: its task runs, decided chunks are committed, and pulls are strongly fair.
  The task's `select!` is biased (`mempool.rs:836`): pulls come first, then decisions,
  then the tick that takes requests. The model allows every order. A pull that is asked
  for again and again is therefore taken; the tick gets its turn because pulls and
  decisions come at the pace of rounds and not in an unbroken stream.
- `ReadNode`: the sync actor runs; a request that is repeated for ever is answered with
  the value in the end (strong fairness): some peer has it. Gossip promises nothing.
- `Bootstrap`: weak fairness of the process's own steps. Nobody is assumed to call it
  again: `main.rs` exits after a failure, and does not bootstrap when it is restarted.

## 4. Proofs

`tlapm ShardChainProofs.tla`, `tlapm MessageStoreProofs.tla`.

**ShardChain**, for any number of validators, quorums, payloads, heights, rounds,
seconds and crashes, and any execution with the assumptions named in the module
(`ChainAssumption`: sorts of the constants; `ExecType`: execution stays within the
states; `RootDetermines`: two payloads with the same block events that lead a state
to the same root lead it to the same state, which is what
`is_cached_txn_valid` relies on). TLC evaluates the three on the small instances.

- `TypeCorrect`: `Spec => []TypeOK`.
- `Agreement`: `Spec => []StateIsExecution`.
- `ChunksAgree`: `Spec => []ChunksAreDecided`.
- `OneValuePerRound`: `Spec => []NoEquivocation`.
- `PanicsOnlyWhenTorn`: `Spec => []DecidedReplays`.
- `OnlyDecidedIsCommitted`: `Spec => CommitsDecided`.
- `ChunksAreLinked`: `Spec => []ParentIsPrevious`.
- `ValidatorsKeepALedger`: `Spec => ImplementsLedger`.

None assumes that payloads replay to themselves or that hashes are unique: where these
matter, the property itself says so about the chunks that were decided (`SoundUpTo`).

The inductive invariant `IInv` adds to the properties what they rest on: what was
broadcast is still in its proposer's store or is past (which makes `NoEquivocation`
survive a restart); what a quorum called valid was executed on the state before it; the
states of the decided chunks follow from one another (`Chained`); the cached transaction
was computed on the current state (`CacheIsFresh`: without it, a matching root would
prove nothing about the state that is committed); and a node's state is that of its
last chunk, or of the next one where it was torn (`Executed`). Parents follow from a
separate invariant (`LinkInv`). There is one lemma per action. The refinement maps a
value to its hash: with transactions instead, two nodes that committed different
transactions under one hash would disagree.

**MessageStore**, for any messages, keys, limits and transaction sizes
(`MessagesAssumption`: a hash names one message; `BoundsAssumption`: sorts):

- `TypeCorrect`: `Spec => []TypeOK`.
- `Converges`: `Spec => []WinnersStored`.
- `IndicesMatch`: while nothing was trimmed, the indices match.

The invariant says that every message that came is stored or is beaten by a stored
one of its key (`Dominated`), and that `db` and `cur` are both sound. It rests on
`Beats`, the code's comparison, being a strict total order on messages that collide
(`BeatsIsTotal`, `BeatsIsTransitive`), and on `WinnerBeatsAll`, which relates the
comparison to the rules in the stores' documentation.

## 5. What is only model-checked

Liveness, everywhere. `Trie`, whose operators are recursive. All of `BlockChain`,
`BlockReceiver`, `Mempool`, `ReadNode` and `Bootstrap`: proofs of these are in the plan.
`IndexMatches` after pruning, `CompactHolds` and `LimitHolds`.

## 6. Where the code and its own statements disagree

Shown by a run:

- **`block_torn`** (`block_engine.rs:943`). The state with its numbered events and
  the block are two writes. After a crash between them the second replay finds the
  block's messages merged: they are duplicates and emit no event, a heartbeat gets the
  next number, and the events hash differs. A read node commits without validating and
  panics, at every restart. A validator replays the block first, calls it invalid and
  stays at its height; it does not reach the panic (`ValidatorsReplay`).
- **`trie_delete`** (`trie_node.rs:509`). Compaction deletes the child under a key
  that is prefixed twice. The child's node stays, and a node of another account goes
  when one has that path; the reload then reads that child as an empty node.
- **`bootstrap_race`** (`service.rs:959`). A page is inserted under one mutex and
  committed under another. Another task's insert and commit in between leave a root
  without its page; if it is the last write, the shard is finished with a wrong root.
  A database with a wrong root is never promoted (`PromotedIsTheSnapshot`).

Met while modelling, each a state the modules reach or a guard they have, without a
run of its own:

- `engine.rs:1793`: the two writes of a shard's commit. A chunk with block events out
  of order (2, 1) skips 2 in the first replay and merges it in the second; with a lend
  among them the root differs and the recovery panics, and where the root is the same
  the states of two nodes differ. `shard_crash` reaches both; `SoundUpTo` names them.
- `proposer.rs:179`: the hash of a chunk covers its header only, in whole seconds.
  Proposals of two rounds with one root and different transactions (block events that
  move no root) are one value; a node may store the transactions that were not decided.
  Both shard runs reach it; `SoundUpTo` names it.
- `storage_lend_store.rs:422`: a lend of no units deletes the lend it revokes and is not
  kept, so the revoked lend may merge again.
- `mempool.rs:664`: messages taken out to answer a proposer that stopped waiting are
  lost (`AdmittedIsProposed` names it).
- `read_validator.rs:109`: the commits of a value are not compared with its chunk;
  `read_sync.rs:345`: an answer without a value is unwrapped and ends the sync actor.
  `read_node` reaches both.
- `block_engine.rs:945`, `block_receiver.rs:154`: a block that could not be stored is
  logged, and ends the receiver that asks for it later.
- `store.rs:1044`: pruning walks the committed messages while the transaction has
  replaced some. When a limit shrinks, the index entry of a message that stays stored
  is deleted, where `link_store.rs:39` says that indices look up the adds and the
  removes. `IndexMatches` excludes `"shrunk"` and `"bulk"` histories for that reason.
- `mempool.rs:622`: KEY_REMOVE passes the storage limiter; the comment at
  `mempool.rs:610` says that it is intentionally never rate-limited.
- `merkle_trie.rs:383`: a node that the open batch deletes is read from the database,
  so the count of a prefix emptied in the transaction is the committed one.
  `SubtreesAreCurrent` is about prefixes that still have keys.
- `main.rs:521`: an interrupted bootstrap is not resumed by the restarted node, since
  its directory is not empty, although the message at `main.rs:556` and the comment at
  `service.rs:52` say so.
- `service.rs:1126`: only the root is compared before a promotion. With several tasks, a
  node below it may have lost a page while a later commit put the right hash into the
  root; `bootstrap` reaches it, and `PromotedIsTheSnapshot` claims the lower levels for
  one task only. Messages of an earlier snapshot may stay in a database promoted after
  a resume with several tasks.

## 7. What is not modelled

Malachite (external, by its interface), cryptography and the validation predicates,
RocksDB below the level of puts, deletes and batches, byte layouts and protocol
buffers, metrics and logging, command line tools. A `put_proposal` that fails, which the
code logs and ignores (`validator.rs:306`, `validator.rs:318`); the path of the block
proposer from before witnesses were decoupled (`proposer.rs:433`); the storage a lender
must have; the read node's exit on a block of a later protocol version and on bytes it
cannot decode. A crash inside the loop of renames
at the end of a bootstrap, the streaming of proposal parts and the secondary indices
of the stores are left out of the modules that touch them. The other parts of
section 1 without a module are in the plan.

## 8. Plan

Modules, most important first:

1. `UserState`: keys with nonces and expiry, storage units with lends, names with one
   owner; hazards: order of on-chain events against messages, a lend consumed
   although it fails (`engine.rs:882`). Abstract specification: a registry with one
   owner per name and lends within the rented units.
2. `HubEvents`: ids from height and sequence, the order of events of a chunk, a
   subscriber that resumes from an id while events are pruned; recovery replays
   (`engine.rs:1015`).
3. `Connectors`: resume points against the mempool and crashes
   (`onchain_events/mod.rs:1237`, `fname/mod.rs:262`).
4. `Indexers`: live events and a backfill at once, counters under repetition,
   checkpoints (`api/backfill.rs`, `social_graph.rs`, `bridge.rs`).
5. `Webhooks`: delivery, rate limiter, durable retry queue, crashes.
6. `ReplicationServer`: snapshots opened at a height and aged out under readers;
   composed with `Bootstrap`.
7. `Jobs`: block and event pruning, chunked uploads, migrations under crashes.
8. `Gossip`, submission over RPC with `simulate`, and the version schedule as pure
   operators.

Theorems, after those:

- `ReadNode`: type, store order, and the refinement of `Ledger`.
- `BlockChain`: `WitnessesAreInOrder`, `EventsAreNumbered`.
- `BlockReceiver`: `SubmittedAfterTheGap`.
- `Bootstrap`: `ProgressIsDurable`, `SerialVerifies`, `PromotedIsTheSnapshot`.
- `Mempool`: the bound on its size, `ProposalIsFresh`.
- `MessageStore`: `IndexMatches` with pruning in transactions of one message.

These modules use no RECURSIVE operator, and their constants carry named assumptions.
