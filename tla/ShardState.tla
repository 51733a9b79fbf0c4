------------------------------ MODULE ShardState ------------------------------
(***************************************************************************)
(* The deterministic part of a shard engine: what replaying the            *)
(* transactions of a shard chunk does to the committed store               *)
(* (src/src/storage/store/engine.rs, replay_proposal and what it calls).   *)
(*                                                                         *)
(* User messages are last-writer-wins registers: a message carries a key   *)
(* (the account slot it writes) and a timestamp, and it merges only over an*)
(* older message.  Block events from shard 0 carry a sequence number; the  *)
(* ones in LendSeqs carry a storage lend to merge, the others are          *)
(* heartbeats.  The merkle trie is represented by its contents, so equal   *)
(* roots mean equal contents; the last merged block event is stored next to*)
(* the trie and is not part of the root.                                   *)
(***************************************************************************)
EXTENDS Integers, Sequences, FiniteSetsExt

CONSTANTS Keys,      \* account slots, a set of integers
          MaxStamp,  \* largest message timestamp
          MaxSeq,    \* largest block event sequence number
          LendSeqs   \* sequence numbers of the block events that carry a lend

Stamps == 1 .. MaxStamp

Message == [key : Keys, ts : Stamps]

\* A payload is the list of transactions of a chunk: the user messages and the
\* block events in the order the proposer put them in.
Payload == [msgs : SUBSET Message, blockEvents : Seq(1 .. MaxSeq)]

\* What the database of one shard holds.
State == [trie : [Keys -> 0 .. MaxStamp], lends : SUBSET LendSeqs,
          seq : 0 .. MaxSeq]

InitState == [trie |-> [k \in Keys |-> 0], lends |-> {}, seq |-> 0]

\* trie.root_hash(): covers the merged messages and lends, not the last seqnum.
Root(s) == [trie |-> s.trie, lends |-> s.lends]

\* A block event is merged only when it is the next one, otherwise skipped.
MergeBlockEvent(last, b) == IF b = last + 1 THEN b ELSE last

SeqAfter(last, blockEvents) ==
  LET after[i \in 0 .. Len(blockEvents)] ==
        IF i = 0 THEN last ELSE MergeBlockEvent(after[i - 1], blockEvents[i])
  IN  after[Len(blockEvents)]

\* The lends carried by the block events that replaying merges.
MergedLends(last, blockEvents) ==
  {b \in LendSeqs : last < b /\ b <= SeqAfter(last, blockEvents)}

\* merge_message: the newer message of a slot stays.
MergeMessages(trie, msgs) ==
  [k \in Keys |-> Max({trie[k]} \cup {m.ts : m \in {x \in msgs : x.key = k}})]

BlockEvents(p) == p.blockEvents

\* replay_proposal: the state after the block events and the user messages.
Replay(s, p) ==
  [trie  |-> MergeMessages(s.trie, p.msgs),
   lends |-> s.lends \cup MergedLends(s.seq, p.blockEvents),
   seq   |-> SeqAfter(s.seq, p.blockEvents)]

===============================================================================
