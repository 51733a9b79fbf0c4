------------------------------ MODULE BlockChain ------------------------------
(***************************************************************************)
(* The nodes of shard 0: the block proposer and the block engine of every  *)
(* validator (src/src/consensus/proposer.rs, BlockProposer, and            *)
(* src/src/storage/store/block_engine.rs), from a proposed block to the    *)
(* committed one, and the read nodes, which commit what was decided.       *)
(*                                                                         *)
(* A block does two things for the other shards.  It witnesses their       *)
(* chunks: for each shard the chunk after the one the previous block       *)
(* witnessed, or that one again when the proposer does not have the next.  *)
(* And it numbers block events: one for every shard 0 message it merges,   *)
(* and a heartbeat every Interval blocks.                                  *)
(*                                                                         *)
(* Unlike a shard engine the block engine caches nothing: a proposal is    *)
(* executed, validated and committed by three separate replays.  Consensus *)
(* is external and as in ShardChain, here without the detail of how a node *)
(* keeps its own proposals.                                                *)
(*                                                                         *)
(* A message is a storage lend or a gasless key operation.  Its slot is    *)
(* what it conflicts over (lender and borrower; the custody address whose  *)
(* nonces it uses), its order is the timestamp hash or the nonce.          *)
(***************************************************************************)
EXTENDS Integers, FiniteSets, SequencesExt

CONSTANTS
  N,           \* number of validators
  Quorums,     \* sets of validators whose votes decide
  Readers,     \* the read nodes
  Shards,      \* the shards whose chunks are witnessed
  Messages,    \* shard 0 user messages: [slot, order, units]
  Payloads,    \* sequences of distinct messages a proposer may pull
  Interval,    \* heartbeat_block_interval
  MaxHeight,   \* bound on the heights decided
  MaxRound,    \* MaxRound[h]: bound on the rounds of height h
  MaxShard,    \* MaxShard[s]: bound on the chunks of shard s
  MaxCrashes,  \* bound on the crashes of all nodes together
  Heartbeat,   \* the body of a heartbeat event
  None         \* the empty shard witness

Nodes == 0 .. N - 1

Replicas == Nodes \cup Readers

ASSUME BlockChainAssumption ==
  /\ N \in Nat \ {0}
  /\ Quorums \subseteq (SUBSET Nodes) \ {{}}
  /\ Readers \cap Nodes = {}
  /\ \A m \in Messages : DOMAIN m = {"slot", "order", "units"} /\ m.order \in Nat /\ m.units \in Nat
  /\ Payloads \subseteq Seq(Messages)
  /\ Interval \in Nat \ {0}
  /\ MaxHeight \in Nat /\ MaxShard \in [Shards -> Nat] /\ MaxCrashes \in Nat
  /\ MaxRound \in [1 .. MaxHeight -> Nat]
  /\ Heartbeat \notin Messages
  /\ None \notin [Shards -> Nat]

VARIABLES
  db,        \* db[n]: merged messages and stored block events (RocksDB)
  blocks,    \* blocks[n]: the stored blocks, by height
  shard,     \* shard[n][s]: chunks of shard s in n's chunk store
  proposed,  \* proposed[n]: the proposer's blocks (proposed_blocks)
  sent,      \* every block some node ever broadcast
  valid,     \* <<n, b>>: n told consensus that b is valid
  decided,   \* the blocks consensus decided, by height
  crashes    \* number of crashes so far

external == <<sent, valid, decided>>
vars     == <<db, blocks, shard, proposed, external, crashes>>

-------------------------------------------------------------------------------
\* Execution

\* Mutant: a message merges over itself.
MergeOverItself(a, m) ==
  IF \E c \in a.messages : c.slot = m.slot /\ c.order > m.order
    THEN a
    ELSE [messages |-> {c \in a.messages : c.slot # m.slot} \cup
                         (IF m.units = 0 THEN {} ELSE {m}),
          merged   |-> Append(a.merged, m)]

\* merge_message: a duplicate, or a message older than the one its slot holds, is an
\* error and emits no event; a newer one takes the slot.  A lend of no units revokes:
\* it is pruned as soon as it is merged, and the slot is left empty.
MergeMessage(a, m) ==
  IF \E c \in a.messages : c.slot = m.slot /\ c.order >= m.order
    THEN a
    ELSE [messages |-> {c \in a.messages : c.slot # m.slot} \cup
                         (IF m.units = 0 THEN {} ELSE {m}),
          merged   |-> Append(a.merged, m)]

\* replay_snapchain_txn: the messages held after a payload and those that merged.
MergeAll(d, p) == FoldLeft(MergeMessage, [messages |-> d.messages, merged |-> <<>>], p)

Bodies(d, h, p) ==
  MergeAll(d, p).merged \o IF h % Interval = 0 THEN <<Heartbeat>> ELSE <<>>

\* Mutant: numbering starts over in every block.
NewEventsFromOne(d, h, p) ==
  [i \in 1 .. Len(Bodies(d, h, p)) |->
     [seq |-> i, height |-> h, body |-> Bodies(d, h, p)[i]]]

\* Mutant: numbers start at zero.
NewEventsFromZero(d, h, p) ==
  [i \in 1 .. Len(Bodies(d, h, p)) |->
     [seq |-> Len(d.events) + i - 1, height |-> h, body |-> Bodies(d, h, p)[i]]]

\* generate_block_events: numbers continue after the largest stored one.
NewEvents(d, h, p) ==
  [i \in 1 .. Len(Bodies(d, h, p)) |->
     [seq |-> Len(d.events) + i, height |-> h, body |-> Bodies(d, h, p)[i]]]

Replay(d, h, p) ==
  [messages |-> MergeAll(d, p).messages,
   events   |-> d.events \o NewEvents(d, h, p)]

\* replay_proposal: the events hash and the state root must be the block's.
ReplayMatches(d, b) ==
  /\ NewEvents(d, b.height, b.payload) = b.events
  /\ Replay(d, b.height, b.payload).messages = b.root

-------------------------------------------------------------------------------
\* Proposals

Confirmed(n) == Len(blocks[n])

NextHeight(n) == Confirmed(n) + 1

Rounds(n) ==
  IF NextHeight(n) <= MaxHeight THEN 0 .. MaxRound[NextHeight(n)] ELSE {}

ProposerOf(h, r) == (h - 1 + r) % N

\* Mutant: the next chunk, stored or not.
NextWitnessAhead(n, s, last) == last + 1

\* The chunk after the last witnessed one when it is stored, else that one again.
NextWitness(n, s, last) == IF shard[n][s] > last THEN last + 1 ELSE last

\* collect_confirmed_shard_witnesses: the first block needs the first chunk of
\* every shard; a later one carries over what the previous block witnessed.  When
\* some shard has no witness the whole list is empty.
Witness(n) ==
  IF Confirmed(n) = 0
    THEN IF \A s \in Shards : shard[n][s] > 0 THEN [s \in Shards |-> 1] ELSE None
    ELSE LET last == blocks[n][Confirmed(n)].witness
         IN  IF last = None THEN None
                            ELSE [s \in Shards |-> NextWitness(n, s, last[s])]

NewBlock(n, r, p) ==
  [height |-> NextHeight(n), round |-> r, witness |-> Witness(n), payload |-> p,
   root |-> Replay(db[n], NextHeight(n), p).messages,
   events |-> NewEvents(db[n], NextHeight(n), p)]

-------------------------------------------------------------------------------
Init ==
  /\ db = [n \in Replicas |-> [messages |-> {}, events |-> <<>>]]
  /\ blocks = [n \in Replicas |-> <<>>]
  /\ shard = [n \in Nodes |-> [s \in Shards |-> 0]]
  /\ proposed = [n \in Nodes |-> {}]
  /\ sent = {}
  /\ valid = {}
  /\ decided = <<>>
  /\ crashes = 0

\* The consensus of shard s stores its next chunk on node n (ShardChain).
StoreShardChunk(n, s) ==
  /\ shard[n][s] < MaxShard[s]
  /\ shard' = [shard EXCEPT ![n][s] = @ + 1]
  /\ UNCHANGED <<db, blocks, proposed, external, crashes>>

\* propose_value: at most one block per height and round (node-local store).  The
\* proposer does not validate its own block.
ProposeValue(n, r, p) ==
  /\ n = ProposerOf(NextHeight(n), r)
  /\ \A b \in sent : <<b.height, b.round>> # <<NextHeight(n), r>>
  /\ proposed' = [proposed EXCEPT ![n] = @ \cup {NewBlock(n, r, p)}]
  /\ sent' = sent \cup {NewBlock(n, r, p)}
  /\ valid' = valid \cup {<<n, NewBlock(n, r, p)>>}
  /\ UNCHANGED <<db, blocks, shard, decided, crashes>>

\* Mutant: add_proposed_value does not replay the block.
AcceptableUnreplayed(n, b) == b.height = NextHeight(n) /\ b.witness # None

\* What add_proposed_value asks of a block: the next height, one witness per shard,
\* a replay that reaches its root and its events.
Acceptable(n, b) ==
  /\ b.height = NextHeight(n)
  /\ b.witness # None
  /\ ReplayMatches(db[n], b)

\* add_proposed_value: a block that is not acceptable is not even remembered, whether it
\* is proposed now or sent by a peer to catch up.
AddProposedValue(n, b) ==
  /\ b \in sent
  /\ Acceptable(n, b)
  /\ proposed' = [proposed EXCEPT ![n] = @ \cup {b}]
  /\ valid' = valid \cup {<<n, b>>}
  /\ UNCHANGED <<db, blocks, shard, sent, decided, crashes>>

DecidedNext(n, b) ==
  /\ NextHeight(n) <= Len(decided)
  /\ b = decided[NextHeight(n)]

DecidedAndKnown(n, b) == b \in proposed[n] /\ DecidedNext(n, b)

\* commit_block up to db.commit: the block is replayed once more, a mismatch panics.
CommitState(n, b) ==
  /\ ReplayMatches(db[n], b)
  /\ db' = [db EXCEPT ![n] = Replay(@, b.height, b.payload)]

\* decide on a validator: commit_block with its put_block, then the proposals up to the
\* height are forgotten.
Decide(n, b) ==
  /\ DecidedAndKnown(n, b)
  /\ CommitState(n, b)
  /\ blocks' = [blocks EXCEPT ![n] = Append(@, b)]
  /\ proposed' = [proposed EXCEPT ![n] = {c \in @ : c.height > b.height}]
  /\ UNCHANGED <<shard, external, crashes>>

\* commit_decided_value on a read node: commit_block, with no validation before it.
CommitDecidedValue(n, b) ==
  /\ DecidedNext(n, b)
  /\ CommitState(n, b)
  /\ blocks' = [blocks EXCEPT ![n] = Append(@, b)]
  /\ UNCHANGED <<shard, proposed, external, crashes>>

CountCrash ==
  /\ crashes < MaxCrashes
  /\ crashes' = crashes + 1

Crash(n) ==
  /\ CountCrash
  /\ proposed' = [proposed EXCEPT ![n] = {}]
  /\ UNCHANGED <<db, blocks, shard, external>>

\* A crash in commit_block, after db.commit and before put_block.
CrashAfterState(n, b) ==
  /\ DecidedAndKnown(n, b)
  /\ CommitState(n, b)
  /\ CountCrash
  /\ proposed' = [proposed EXCEPT ![n] = {}]
  /\ UNCHANGED <<blocks, shard, external>>

\* The same on a read node.
ReaderCrashAfterState(n, b) ==
  /\ DecidedNext(n, b)
  /\ CommitState(n, b)
  /\ CountCrash
  /\ UNCHANGED <<blocks, shard, proposed, external>>

\* Consensus (external): one block per height, reported valid by a quorum.
ConsensusDecides(b) ==
  /\ b \in sent
  /\ b.height = Len(decided) + 1
  /\ \E Q \in Quorums : \A n \in Q : <<n, b>> \in valid
  /\ decided' = Append(decided, b)
  /\ UNCHANGED <<db, blocks, shard, proposed, sent, valid, crashes>>

Next ==
  \/ \E n \in Nodes, s \in Shards : StoreShardChunk(n, s)
  \/ \E n \in Nodes, p \in Payloads : \E r \in Rounds(n) : ProposeValue(n, r, p)
  \/ \E n \in Nodes, b \in sent : AddProposedValue(n, b)
  \/ \E b \in sent : ConsensusDecides(b)
  \/ \E n \in Nodes : \E b \in proposed[n] : Decide(n, b)
  \/ \E n \in Nodes : Crash(n)
  \/ \E n \in Nodes : \E b \in proposed[n] : CrashAfterState(n, b)
  \/ \E n \in Readers, b \in sent : CommitDecidedValue(n, b)
  \/ \E n \in Readers, b \in sent : ReaderCrashAfterState(n, b)

Spec == Init /\ [][Next]_vars

-------------------------------------------------------------------------------
\* Properties

Event == [seq : Nat \ {0}, height : 1 .. MaxHeight, body : Messages \cup {Heartbeat}]

Block == [height : 1 .. MaxHeight, round : Nat,
          witness : [Shards -> Nat] \cup {None}, payload : Payloads,
          root : SUBSET Messages, events : Seq(Event)]

\* Every variable has the type its declaration says.
TypeOK ==
  /\ db \in [Replicas -> [messages : SUBSET Messages, events : Seq(Event)]]
  /\ blocks \in [Replicas -> Seq(Block)]
  /\ \A n \in Nodes : shard[n] \in [Shards -> Nat] /\ \A s \in Shards : shard[n][s] <= MaxShard[s]
  /\ proposed \in [Nodes -> SUBSET Block]
  /\ sent \subseteq Block
  /\ valid \subseteq (Nodes \X Block)
  /\ decided \in Seq(Block)
  /\ crashes \in 0 .. MaxCrashes

\* Every decided block has a witness for every shard (without one the next proposer
\* meets the "Error case, we should never get here" of collect_confirmed_shard_witnesses).
\* Along the chain the witness of a shard never goes back, never skips a chunk and
\* names a chunk some validator has stored, whichever validators propose and however
\* far each is with the shard.
WitnessesAreInOrder ==
  \A h \in 1 .. Len(decided) :
    /\ decided[h].witness # None
    /\ \A s \in Shards :
         LET w == decided[h].witness[s]
         IN  /\ IF h = 1 THEN w = 1
                ELSE w \in {decided[h - 1].witness[s], decided[h - 1].witness[s] + 1}
             /\ \E n \in Nodes : shard[n][s] >= w

\* The number of block events in the decided blocks below height h.
EventsBefore(h) ==
  Cardinality({<<g, i>> \in (1 .. h - 1) \X (1 .. Cardinality(Messages) + 1) :
                 i <= Len(decided[g].events)})

\* The block events of the chain are numbered 1, 2, 3, ... in block order: those of a
\* block go on where the chain before it ended, which is what the shards' "only the
\* next one" rule and the receivers' sync rely on.
EventsAreNumbered ==
  \A h \in 1 .. Len(decided) : \A i \in 1 .. Len(decided[h].events) :
    LET e == decided[h].events[i]
    IN  e.height = h /\ e.seq = EventsBefore(h) + i

ChainEvents ==
  UNION {{decided[h].events[i] : i \in 1 .. Len(decided[h].events)} : h \in 1 .. Len(decided)}

\* However many proposals carry a shard 0 message that takes a slot, the chain announces it
\* to the shards a second time only when a lend of no units for the same slot was announced
\* in between: the revocation deletes the lend and leaves nothing to conflict with.
AnnouncedOnceUntilRevoked ==
  \A e, f \in ChainEvents :
    /\ e.body = f.body /\ e.seq < f.seq
    /\ e.body # Heartbeat /\ e.body.units > 0
    => \E x \in ChainEvents :
         /\ e.seq < x.seq /\ x.seq < f.seq
         /\ x.body # Heartbeat /\ x.body.slot = e.body.slot /\ x.body.units = 0

\* A validator does not reach the panic of commit_block: a decided block it holds was
\* replayed on the state it will be committed to, also after a torn commit.
ValidatorsReplay ==
  \A n \in Nodes : \A b \in proposed[n] :
    DecidedAndKnown(n, b) => ReplayMatches(db[n], b)

\* commit_block: panic!("State change commit failed: {}").  On a read node that has not
\* stored the next decided block, replaying it reaches its root and its events.
DecidedReplays ==
  \A n \in Readers :
    NextHeight(n) <= Len(decided) => ReplayMatches(db[n], decided[NextHeight(n)])

===============================================================================
