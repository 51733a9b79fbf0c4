------------------------------ MODULE ShardChain ------------------------------
(***************************************************************************)
(* The validators of one shard: the host actor, the shard validator, the   *)
(* shard proposer and the shard engine of every node, from a proposed value*)
(* to the committed shard chunk.                                           *)
(*                                                                         *)
(* Consensus itself (the Malachite library) is external.  It is modelled by*)
(* what the host uses of it: it starts rounds at the height after the last *)
(* stored chunk, it asks the proposer of a round for a value, it delivers  *)
(* proposals in any order, late or repeatedly, and it decides one value per*)
(* height, one that every node of some quorum reported valid.              *)
(*                                                                         *)
(* A node may crash at any time.  What is on disk (the shard store db, the *)
(* chunk store, the node's own proposals) survives; the engine's cached    *)
(* transaction and the proposer's set of values do not.  Committing a chunk*)
(* is two database writes, the state first and the chunk second, so a crash*)
(* may fall between them.                                                  *)
(***************************************************************************)
EXTENDS Integers, Sequences, FiniteSets

CONSTANTS
  \* Deterministic execution (an instance is ShardState): the states of a shard's
  \* database, what a proposer may pull from its mempool, and what replaying a
  \* payload on a state leads to and emits.
  States, Payloads, Genesis,
  Exec(_, _),        \* the state after replaying a payload
  RootOf(_),         \* the root of a state's merkle trie
  BlockEventsOf(_),  \* the block events in a payload, in order
  \* The validators
  N,                 \* their number
  Quorums,           \* sets of validators whose votes decide
  \* Bounds
  MaxHeight,         \* on the heights decided
  MaxRound,          \* MaxRound[h]: on the rounds of height h
  MaxTime,           \* on the seconds the nodes' clocks show
  MaxCrashes,        \* on the crashes of all nodes together
  None               \* no round started, no cached transaction, no parent

Nodes == 0 .. N - 1

Times == 0 .. MaxTime

ASSUME ChainAssumption ==
  /\ N \in Nat \ {0}
  /\ MaxHeight \in Nat /\ MaxTime \in Nat /\ MaxCrashes \in Nat
  /\ MaxRound \in [1 .. MaxHeight -> Nat]
  /\ Quorums \subseteq (SUBSET Nodes) \ {{}}
  /\ None \notin Nat

\* Replaying is a function from states to states.
ASSUME ExecType ==
  /\ Genesis \in States
  /\ \A s \in States, p \in Payloads : Exec(s, p) \in States

\* What comparing roots and block events relies on: two payloads with the same block
\* events that lead one state to the same root lead it to the same state.
ASSUME RootDetermines ==
  \A s \in States, p, q \in Payloads :
    /\ RootOf(Exec(s, p)) = RootOf(Exec(s, q))
    /\ BlockEventsOf(p) = BlockEventsOf(q)
    => Exec(s, p) = Exec(s, q)

VARIABLES
  db,        \* db[n]: the committed shard state (RocksDB)
  chunks,    \* chunks[n]: the stored shard chunks, by height
  stored,    \* stored[n]: n's own proposals in its node-local store
  round,     \* round[n]: the round n's consensus is in, None before one starts
  pending,   \* pending[n]: the engine's cached transaction (pending_txn)
  proposed,  \* proposed[n]: the proposer's values (proposed_chunks)
  sent,      \* every value some node ever broadcast
  valid,     \* <<n, v>>: n told consensus that v is valid
  decided,   \* the values consensus decided, by height
  canon,     \* canon[h]: the state after the first h decided chunks (history)
  crashes,   \* number of crashes so far
  torn       \* <<n, h>>: n crashed between the two writes of height h (history)

disk     == <<db, chunks, stored>>
memory   == <<round, pending, proposed>>
external == <<sent, valid, decided, canon>>
failures == <<crashes, torn>>
vars     == <<disk, memory, external, failures>>

-------------------------------------------------------------------------------
\* Heights and values

Confirmed(n) == Len(chunks[n])

NextHeight(n) == Confirmed(n) + 1

Rounds(n) ==
  IF NextHeight(n) <= MaxHeight THEN 0 .. MaxRound[NextHeight(n)] ELSE {}

\* The proposer of a round, by rotation (select_proposer).
ProposerOf(h, r) == (h - 1 + r) % N

\* A shard chunk's hash covers its header only: the parent, the timestamp in whole
\* seconds, the height and the root.  The round is no part of it, and the transactions
\* enter it through the root alone: proposals of two rounds may have one hash.
HashOf(v) == [parent |-> v.parent, time |-> v.time, height |-> v.height, root |-> v.root]

\* Mutant: the parent is the chunk before the last one.
ParentOfOneBack(n) ==
  IF Len(chunks[n]) < 2 THEN None ELSE HashOf(chunks[n][Len(chunks[n]) - 1])

ParentOf(n) ==
  IF chunks[n] = <<>> THEN None ELSE HashOf(chunks[n][Len(chunks[n])])

\* Mutant: a proposal for the last height instead of the next one.
NewValueSameHeight(n, p, t) ==
  [height |-> Confirmed(n), round |-> round[n], time |-> t, parent |-> ParentOf(n),
   root |-> RootOf(Exec(db[n], p)), payload |-> p]

\* Mutant: the payload is executed on top of the cached transaction.
NewValueOnPending(n, p, t) ==
  [height |-> NextHeight(n), round |-> round[n], time |-> t, parent |-> ParentOf(n),
   root |-> RootOf(Exec(IF pending[n] = None THEN db[n] ELSE pending[n].state, p)),
   payload |-> p]

NewValue(n, p, t) ==
  [height |-> NextHeight(n), round |-> round[n], time |-> t, parent |-> ParentOf(n),
   root |-> RootOf(Exec(db[n], p)), payload |-> p]

\* The engine's cached transaction: the writes of one replay, under
\* the two things a commit compares.
Cached(s, p) ==
  [root |-> RootOf(Exec(s, p)), blockEvents |-> BlockEventsOf(p),
   state |-> Exec(s, p)]

\* ProposedValues.add_proposed_value: one value per hash.
AddValue(values, v) == {w \in values : HashOf(w) # HashOf(v)} \cup {v}

\* ProposedValues.decide: forget every height up to the decided one.
ForgetUpTo(values, h) == {w \in values : w.height > h}

-------------------------------------------------------------------------------
Init ==
  /\ db = [n \in Nodes |-> Genesis]
  /\ chunks = [n \in Nodes |-> <<>>]
  /\ stored = [n \in Nodes |-> {}]
  /\ round = [n \in Nodes |-> None]
  /\ pending = [n \in Nodes |-> None]
  /\ proposed = [n \in Nodes |-> {}]
  /\ sent = {}
  /\ valid = {}
  /\ decided = <<>>
  /\ canon = <<>>
  /\ crashes = 0
  /\ torn = {}

-------------------------------------------------------------------------------
\* The host's handlers

\* StartedRound: the engine drops its cached transaction.
StartRound(n, r) ==
  /\ r \in Rounds(n)
  /\ round[n] # None => r > round[n]
  /\ round' = [round EXCEPT ![n] = r]
  /\ pending' = [pending EXCEPT ![n] = None]
  /\ UNCHANGED <<disk, proposed, external, failures>>

\* Mutant: the proposal is broadcast without being stored.
ProposeFreshUnstored(n, p, t) ==
  LET v == NewValue(n, p, t) IN
  /\ round[n] # None
  /\ n = ProposerOf(NextHeight(n), round[n])
  /\ pending' = [pending EXCEPT ![n] = Cached(db[n], p)]
  /\ proposed' = [proposed EXCEPT ![n] = AddValue(@, v)]
  /\ sent' = sent \cup {v}
  /\ valid' = valid \cup {<<n, v>>}
  /\ UNCHANGED <<db, chunks, stored, round, decided, canon, failures>>

\* GetValue, when this node has no stored proposal for the height and round: pull
\* messages, execute them on the committed state at the second t of the node's clock,
\* cache the result, remember the value, store it, and only then hand it to consensus
\* and broadcast it.
ProposeFresh(n, p, t) ==
  LET v == NewValue(n, p, t) IN
  /\ round[n] # None
  /\ n = ProposerOf(NextHeight(n), round[n])
  /\ \A w \in stored[n] : <<w.height, w.round>> # <<v.height, v.round>>
  /\ pending' = [pending EXCEPT ![n] = Cached(db[n], p)]
  /\ proposed' = [proposed EXCEPT ![n] = AddValue(@, v)]
  /\ stored' = [stored EXCEPT ![n] = @ \cup {v}]
  /\ sent' = sent \cup {v}
  /\ valid' = valid \cup {<<n, v>>}
  /\ UNCHANGED <<db, chunks, round, decided, canon, failures>>

\* GetValue after a restart: the stored proposal is handed out again.  It enters
\* neither the proposer's values nor the engine's cache.
ProposeStored(n, v) ==
  /\ round[n] # None
  /\ n = ProposerOf(NextHeight(n), round[n])
  /\ v \in stored[n]
  /\ <<v.height, v.round>> = <<NextHeight(n), round[n]>>
  /\ sent' = sent \cup {v}
  /\ valid' = valid \cup {<<n, v>>}
  /\ UNCHANGED <<disk, memory, decided, canon, failures>>

\* add_proposed_value: remember the value, then replay it when it is for the next
\* height.  A replay that does not reach the value's root leaves the cached
\* transaction alone.
AddProposedValue(n, v) ==
  LET ok == /\ v.height = NextHeight(n)
            /\ RootOf(Exec(db[n], v.payload)) = v.root
  IN
  /\ proposed' = [proposed EXCEPT ![n] = AddValue(@, v)]
  /\ pending' = [pending EXCEPT ![n] = IF ok THEN Cached(db[n], v.payload) ELSE @]
  /\ valid' = IF ok THEN valid \cup {<<n, v>>} ELSE valid
  /\ UNCHANGED <<disk, round, sent, decided, canon, failures>>

\* ReceivedProposalPart: any value that was broadcast, late or repeatedly.
ReceivedProposalPart(n, v) == v \in sent /\ AddProposedValue(n, v)

\* GetDecidedValue at node m and ProcessSyncedValue at node n: a peer serves the chunk
\* it has stored for the height n is at, and nothing else.
SyncValue(n, m) ==
  /\ NextHeight(n) <= Confirmed(m)
  /\ AddProposedValue(n, chunks[m][NextHeight(n)])

\* Mutant: the block events of the cached transaction are not compared.
CacheValidRootOnly(n, v) ==
  /\ pending[n] # None
  /\ pending[n].root = v.root

\* is_cached_txn_valid
CacheValid(n, v) ==
  /\ pending[n] # None
  /\ pending[n].root = v.root
  /\ pending[n].blockEvents = BlockEventsOf(v.payload)

\* commit_shard_chunk: the cached transaction when it is valid, a replay otherwise.
ToCommit(n, v) == IF CacheValid(n, v) THEN pending[n] ELSE Cached(db[n], v.payload)

\* Mutant: nothing is replayed when the cache does not match.
CommitSucceedsCachedOnly(n, v) == CacheValid(n, v)

\* The replay of commit_shard_chunk panics when it does not reach the root; the
\* disk is then as before and the node restarts, which is Crash.
CommitSucceeds(n, v) == CacheValid(n, v) \/ Cached(db[n], v.payload).root = v.root

\* db.commit of the cached or replayed transaction.
CommitState(n, v) == db' = [db EXCEPT ![n] = ToCommit(n, v).state]

\* Mutant: any value of the decided height is taken for the decided one.
DecidedAndKnownByHeight(n, v) ==
  /\ round[n] # None
  /\ NextHeight(n) <= Len(decided)
  /\ v \in proposed[n]
  /\ v.height = NextHeight(n)

\* Consensus decided the next height and this node's proposer knows the value.
DecidedAndKnown(n, v) ==
  /\ round[n] # None
  /\ NextHeight(n) <= Len(decided)
  /\ v \in proposed[n]
  /\ HashOf(v) = HashOf(decided[NextHeight(n)])

\* Mutant: some proposal of the height is stored as the chunk.
DecideStoresSome(n, v) ==
  /\ DecidedAndKnown(n, v)
  /\ CommitSucceeds(n, v)
  /\ CommitState(n, v)
  /\ \E w \in proposed[n] : /\ w.height = v.height
                            /\ chunks' = [chunks EXCEPT ![n] = Append(@, w)]
  /\ proposed' = [proposed EXCEPT ![n] = ForgetUpTo(@, v.height)]
  /\ stored' = [stored EXCEPT ![n] = {w \in @ : w.height # v.height}]
  /\ round' = [round EXCEPT ![n] = None]
  /\ UNCHANGED <<pending, external, failures>>

\* Decided: write the state, write the chunk, forget the proposals of the height.
Decide(n, v) ==
  /\ DecidedAndKnown(n, v)
  /\ CommitSucceeds(n, v)
  /\ CommitState(n, v)
  /\ chunks' = [chunks EXCEPT ![n] = Append(@, v)]
  /\ proposed' = [proposed EXCEPT ![n] = ForgetUpTo(@, v.height)]
  /\ stored' = [stored EXCEPT ![n] = {w \in @ : w.height # v.height}]
  /\ round' = [round EXCEPT ![n] = None]
  /\ UNCHANGED <<pending, external, failures>>

\* Decided for a value the proposer does not have: the host restarts the height.
DecideUnknown(n) ==
  /\ round[n] # None
  /\ NextHeight(n) <= Len(decided)
  /\ \A w \in proposed[n] : HashOf(w) # HashOf(decided[NextHeight(n)])
  /\ round' = [round EXCEPT ![n] = None]
  /\ UNCHANGED <<disk, pending, proposed, external, failures>>

-------------------------------------------------------------------------------
\* Crashes

LoseMemory(n) ==
  /\ crashes < MaxCrashes
  /\ crashes' = crashes + 1
  /\ round' = [round EXCEPT ![n] = None]
  /\ pending' = [pending EXCEPT ![n] = None]
  /\ proposed' = [proposed EXCEPT ![n] = {}]

Crash(n) ==
  /\ LoseMemory(n)
  /\ UNCHANGED <<disk, external, torn>>

\* Mutant: the chunk is written before the state it leads to.
CrashAfterStateChunkFirst(n, v) ==
  /\ DecidedAndKnown(n, v)
  /\ CommitSucceeds(n, v)
  /\ chunks' = [chunks EXCEPT ![n] = Append(@, v)]
  /\ LoseMemory(n)
  /\ UNCHANGED <<db, stored, external, torn>>

\* A crash in Decide, after db.commit and before put_shard_chunk.
CrashAfterState(n, v) ==
  /\ DecidedAndKnown(n, v)
  /\ CommitSucceeds(n, v)
  /\ CommitState(n, v)
  /\ LoseMemory(n)
  /\ torn' = torn \cup {<<n, v.height>>}
  /\ UNCHANGED <<chunks, stored, external>>

\* A crash in Decide, after put_shard_chunk and before delete_proposals.
CrashAfterChunk(n, v) ==
  /\ DecidedAndKnown(n, v)
  /\ CommitSucceeds(n, v)
  /\ CommitState(n, v)
  /\ chunks' = [chunks EXCEPT ![n] = Append(@, v)]
  /\ LoseMemory(n)
  /\ UNCHANGED <<stored, external, torn>>

-------------------------------------------------------------------------------
\* The state after the first h decided chunks.
CanonAt(h) == IF h = 0 THEN Genesis ELSE canon[h]

\* Consensus (external): one value per height, reported valid by a quorum.
ConsensusDecides(v) ==
  /\ v \in sent
  /\ v.height = Len(decided) + 1
  /\ \E Q \in Quorums : \A n \in Q : <<n, v>> \in valid
  /\ decided' = Append(decided, v)
  /\ canon' = Append(canon, Exec(CanonAt(Len(canon)), v.payload))
  /\ UNCHANGED <<disk, memory, sent, valid, failures>>

Next ==
  \/ \E n \in Nodes : \E r \in Rounds(n) : StartRound(n, r)
  \/ \E n \in Nodes, p \in Payloads, t \in Times : ProposeFresh(n, p, t)
  \/ \E n \in Nodes : \E v \in stored[n] : ProposeStored(n, v)
  \/ \E n \in Nodes, v \in sent : ReceivedProposalPart(n, v)
  \/ \E n, m \in Nodes : SyncValue(n, m)
  \/ \E v \in sent : ConsensusDecides(v)
  \/ \E n \in Nodes : \E v \in proposed[n] : Decide(n, v)
  \/ \E n \in Nodes : DecideUnknown(n)
  \/ \E n \in Nodes : Crash(n)
  \/ \E n \in Nodes : \E v \in proposed[n] : CrashAfterState(n, v)
  \/ \E n \in Nodes : \E v \in proposed[n] : CrashAfterChunk(n, v)

Spec == Init /\ [][Next]_vars

\* A node keeps starting rounds, its value sync keeps asking the peers for the chunk
\* of its next height once one of them has stored it, and its host handles the decision.
\* Nothing is assumed of a chunk that is decided and that no node has stored.
Fairness ==
  \A n \in Nodes :
    /\ WF_vars(\E r \in Rounds(n) : round[n] = None /\ StartRound(n, r))
    /\ WF_vars(\E m \in Nodes : /\ SyncValue(n, m)
                                /\ chunks[m][NextHeight(n)] \notin proposed[n])
    /\ WF_vars(\E v \in proposed[n] : Decide(n, v))

FairSpec == Spec /\ Fairness

-------------------------------------------------------------------------------
\* Properties

Roots == {RootOf(s) : s \in States}

IsValue(v) ==
  /\ v.height \in 1 .. MaxHeight /\ v.round \in Nat /\ v.time \in Times
  /\ v.root \in Roots /\ v.payload \in Payloads

\* Every variable has the type its declaration says; what a node stored, remembers,
\* called valid or decided was broadcast.
TypeOK ==
  /\ db \in [Nodes -> States]
  /\ \A v \in sent : IsValue(v)
  /\ chunks \in [Nodes -> Seq(sent)]
  /\ stored \in [Nodes -> SUBSET sent]
  /\ round \in [Nodes -> Nat \cup {None}]
  /\ DOMAIN pending = Nodes
  /\ \A n \in Nodes :
       pending[n] # None => /\ pending[n].state \in States
                            /\ pending[n].root = RootOf(pending[n].state)
  /\ proposed \in [Nodes -> SUBSET sent]
  /\ valid \subseteq (Nodes \X sent)
  /\ decided \in Seq(sent)
  /\ canon \in Seq(States)
  /\ Len(canon) = Len(decided)
  /\ crashes \in 0 .. MaxCrashes
  /\ torn \subseteq (Nodes \X (1 .. Len(decided)))

\* The height whose state node n has on disk: the last stored chunk's, or the next one
\* after a crash between db.commit and put_shard_chunk.
Reached(n) == IF <<n, NextHeight(n)>> \in torn THEN NextHeight(n) ELSE Confirmed(n)

RootAt(h) == IF h = 0 THEN RootOf(Genesis) ELSE decided[h].root

\* No proposal with other transactions has the hash of the chunk decided at h.
UniqueAt(h) ==
  \A v \in sent : HashOf(v) = HashOf(decided[h]) => v.payload = decided[h].payload

\* Replaying the chunk decided at h on the state after it changes nothing.
ReplaysAt(h) == Exec(canon[h], decided[h].payload) = canon[h]

\* Nothing up to height h went wrong that the code has no answer to: two proposals under
\* one hash, or a torn commit of a chunk whose second replay differs from its first (one
\* with block events out of order).
SoundUpTo(h) ==
  \A k \in 1 .. h : UniqueAt(k) /\ ((\E n \in Nodes : <<n, k>> \in torn) => ReplaysAt(k))

\* Replicas agree.  The root of a node's state is always the root in the last decided
\* chunk it committed, whichever path (own proposal, cached validation, replay, recovery
\* after a crash) committed it and whatever its payload.  The whole state, with the last
\* block event that no root covers, is the execution of the decided chunks as long as
\* no hash was shared and every torn commit replays.
StateIsExecution ==
  \A n \in Nodes :
    /\ RootOf(db[n]) = RootAt(Reached(n))
    /\ SoundUpTo(Reached(n)) => db[n] = CanonAt(Reached(n))

\* The chunks a node stored have the hashes that were decided, and they have the decided
\* transactions unless other transactions were proposed under the same hash: the node
\* looks the decided value up by a hash that covers the header only.
ChunksAreDecided ==
  \A n \in Nodes :
    /\ Confirmed(n) <= Len(decided)
    /\ \A h \in 1 .. Confirmed(n) :
         /\ HashOf(chunks[n][h]) = HashOf(decided[h])
         /\ UniqueAt(h) => chunks[n][h].payload = decided[h].payload

\* Every decided chunk points to the one decided before it, although no validator
\* compares a proposal's parent hash with its own last chunk.
ParentIsPrevious ==
  \A h \in 1 .. Len(decided) :
    decided[h].parent = IF h = 1 THEN None ELSE HashOf(decided[h - 1])

\* A validator never hands out two values for one height and round, before and
\* after a crash (put_proposal before the reply to consensus).
NoEquivocation ==
  \A v, w \in sent : <<v.height, v.round>> = <<w.height, w.round>> => v = w

\* Replaying the next decided chunk on node n reaches its root.
Replays(n) ==
  NextHeight(n) <= Len(decided) =>
    LET v == decided[NextHeight(n)]
    IN  RootOf(Exec(db[n], v.payload)) = v.root

\* The replay commit_shard_chunk falls back to panics only where the next chunk was torn
\* on this node and does not replay to itself, or after hashes were shared or such a
\* replay went through below: neither late proposals, nor a stale or lost cache, nor
\* any other crash make a decided chunk fail.
DecidedReplays == \A n \in Nodes : SoundUpTo(Reached(n)) => Replays(n)

\* A step moves the committed state of a node only to a state with the root of the next
\* decided chunk, and to the state after that chunk as long as nothing went wrong.
CommitsDecided ==
  [][\A n \in Nodes : db'[n] # db[n] =>
       \E h \in 1 .. Len(decided) :
         /\ h = NextHeight(n)
         /\ RootOf(db'[n]) = decided[h].root
         /\ SoundUpTo(h)' => db'[n] = canon[h]]_vars

HashesOf(vs) == [h \in 1 .. Len(vs) |-> HashOf(vs[h])]

L == INSTANCE Ledger WITH
       Members <- Nodes, chain <- HashesOf(decided),
       ledger <- [n \in Nodes |-> HashesOf(chunks[n])]

\* The validators keep a ledger of hashes together: what a node has stored is at every
\* moment a prefix of the decided chunks, and no crash takes anything away from it.
ImplementsLedger == L!Spec

\* Once a node has stored a decided chunk, every node stores it in the end, however often
\* it crashed before, unless hashes were shared or a torn chunk does not replay.
EveryNodeCommits ==
  []SoundUpTo(Len(decided)) =>
    \A h \in 1 .. MaxHeight :
      (\E m \in Nodes : Confirmed(m) >= h) ~> \A n \in Nodes : Confirmed(n) >= h

===============================================================================
