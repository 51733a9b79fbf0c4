---------------------------- MODULE BlockReceiver ----------------------------
(***************************************************************************)
(* How the block events of shard 0 reach another shard on one validator:   *)
(* the block receiver of that shard (src/src/mempool/block_receiver.rs),   *)
(* the mempool it submits to (src/src/mempool/mempool.rs), the transactions*)
(* the poller makes of what the proposer pulls (mempool_poller.rs) and the *)
(* "only the next one" rule of the shard engine (engine.rs).               *)
(*                                                                         *)
(* A block event is represented by its sequence number, a block by its     *)
(* position among the blocks of shard 0.  Blocks arrive over a bounded     *)
(* broadcast channel, which drops the oldest one when it is full; receiving*)
(* after that panics.  Events leave the mempool when they are pulled: a    *)
(* pull whose answer is late or whose round fails loses them, and so does a*)
(* chunk that carries them in an order in which they are not the next one. *)
(* Other validators of the shard may merge events as well.  A block whose  *)
(* events do not validate is not submitted, and one that the node failed to*)
(* store ends the receiver when it is asked for.                           *)
(***************************************************************************)
EXTENDS Integers, Sequences, SequencesExt, FiniteSets

CONSTANTS
  FirstSeq,    \* sequence number of the first event that is not merged yet
  LastOf,      \* LastOf[b]: the last event up to and including block b
  TimeOf,      \* TimeOf[b]: the timestamp of block b in seconds
  FidOf,       \* FidOf[e]: the transaction (fid) event e is put in
  MayBeInvalid, \* blocks for which validate_block_events may fail
  MayBeMissing, \* blocks whose put_block may have failed
  BatchSize,   \* sync_batch_size
  MaxPull,     \* max_messages_per_block
  Capacity,    \* capacity of the block channel
  MaxLost,     \* bound on the pulls that are lost
  MaxEarly     \* bound on the waits that time out while events are pending

Blocks == 1 .. Len(LastOf)

ASSUME BlockReceiverAssumption ==
  /\ FirstSeq \in Nat \ {0}
  /\ LastOf \in Seq(FirstSeq - 1 .. 99)
  /\ \A b \in Blocks \ {1} : LastOf[b - 1] <= LastOf[b]
  /\ TimeOf \in [Blocks -> Nat]
  /\ \A b \in Blocks \ {1} : TimeOf[b - 1] <= TimeOf[b]
  /\ MayBeInvalid \subseteq Blocks /\ MayBeMissing \subseteq Blocks
  /\ BatchSize \in Nat \ {0} /\ MaxPull \in Nat \ {0} /\ Capacity \in Nat \ {0}
  /\ MaxLost \in Nat /\ MaxEarly \in Nat

FirstOf(b) == IF b = 1 THEN FirstSeq ELSE LastOf[b - 1] + 1

EventsOf(b) == [i \in 1 .. LastOf[b] - FirstOf(b) + 1 |-> FirstOf(b) + i - 1]

BlockOf(e) == CHOOSE b \in Blocks : FirstOf(b) <= e /\ e <= LastOf[b]

VARIABLES
  invalid,    \* the blocks for which validate_block_events fails
  missing,    \* the blocks that are not in the block store
  published,  \* number of blocks decided and broadcast so far
  channel,    \* the blocks waiting in block_rx
  lagged,     \* the channel has dropped a block the receiver has not received
  pc,         \* where the receiver is: "idle", "sync", "syncWait", "submit",
              \* "wait" or "dead"
  block,      \* the block in hand, 0 before the first one
  start,      \* start_seqnum of the sync
  cur,        \* current_seqnum of the sync
  queue,      \* events sent to the mempool, not inserted yet
  pool,       \* events in the mempool
  pulled,     \* events in the hands of the proposer
  merged,     \* the last event merged in the shard (max_seqnum of the store)
  unread,     \* largest max_block_event_seqnum waiting in event_rx, 0 for none
  lost,       \* number of pulls lost so far
  early       \* number of waits that timed out while events were pending

receiver == <<pc, block, start, cur>>
mempool  == <<queue, pool>>
blocks   == <<invalid, missing>>
vars     == <<blocks, published, channel, lagged, receiver, mempool, pulled, merged, unread, lost, early>>

Init ==
  /\ invalid \in SUBSET MayBeInvalid /\ missing \in SUBSET MayBeMissing
  /\ published = 0 /\ channel = <<>> /\ lagged = FALSE
  /\ pc = "idle" /\ block = 0 /\ start = 0 /\ cur = 0
  /\ queue = <<>> /\ pool = {} /\ pulled = <<>>
  /\ merged = FirstSeq - 1 /\ unread = 0 /\ lost = 0 /\ early = 0

-------------------------------------------------------------------------------
\* Mutant: a channel without a bound.
PublishUnbounded ==
  /\ published < Len(LastOf)
  /\ published' = published + 1
  /\ channel' = Append(channel, published + 1)
  /\ UNCHANGED <<blocks, lagged, receiver, mempool, pulled, merged, unread, lost, early>>

\* Shard 0 decides its next block and broadcasts it to the receivers; a full
\* channel drops its oldest block.
PublishNewBlock ==
  /\ published < Len(LastOf)
  /\ published' = published + 1
  /\ IF Len(channel) < Capacity
       THEN channel' = Append(channel, published + 1) /\ UNCHANGED lagged
       ELSE channel' = Append(Tail(channel), published + 1) /\ lagged' = TRUE
  /\ UNCHANGED <<blocks, receiver, mempool, pulled, merged, unread, lost, early>>

-------------------------------------------------------------------------------
\* The receiver

\* Mutant: a gap of one event is not noticed.
HasGapFromTwo(b) == FirstOf(b) > merged + 2

\* The first event of the block is not the next one of the shard.
HasGap(b) == FirstOf(b) > merged + 1

\* The block has events, and not only such as are older than the shard's last one.
Needed(b) == EventsOf(b) # <<>> /\ LastOf[b] >= merged

\* A block that has no events, or none the shard still needs, is passed over.
ReceiveNothing ==
  /\ pc = "idle" /\ channel # <<>> /\ ~lagged
  /\ ~Needed(Head(channel))
  /\ channel' = Tail(channel)
  /\ UNCHANGED <<blocks, published, lagged, receiver, mempool, pulled, merged, unread, lost, early>>

\* A block with events: those before it that the shard does not have are synced first.
ReceiveBlock ==
  /\ pc = "idle" /\ channel # <<>> /\ ~lagged
  /\ LET b == Head(channel)
     IN  /\ Needed(b)
         /\ block' = b
         /\ IF HasGap(b)
              THEN /\ pc' = "sync"
                   /\ start' = merged + 1 /\ cur' = merged + 1
              ELSE /\ pc' = "submit" /\ UNCHANGED <<start, cur>>
  /\ channel' = Tail(channel)
  /\ UNCHANGED <<blocks, published, lagged, mempool, pulled, merged, unread, lost, early>>

\* block_rx.recv().await.unwrap() on a channel that has dropped a block.
ReceiveLagged ==
  /\ pc = "idle" /\ channel # <<>> /\ lagged
  /\ pc' = "dead"
  /\ UNCHANGED <<blocks, published, channel, lagged, block, start, cur, mempool,
                 pulled, merged, unread, lost, early>>

StopSeq == FirstOf(block) - 1

\* After the event last: a batch or the whole sync is complete.
BatchDone(last) ==
  \/ last - start > 0 /\ (last - start) % BatchSize = 0
  \/ last >= StopSeq

\* submit_block: the events of a block, or nothing if they do not validate.
Submitted(b) == IF b \in invalid THEN <<>> ELSE EventsOf(b)

\* One turn of sync_missing_block_events: the block with the current event is
\* requested and submitted.
SyncBlock ==
  LET b == BlockOf(cur) IN
  /\ pc = "sync" /\ b \notin missing
  /\ queue' = queue \o Submitted(b)
  /\ IF BatchDone(LastOf[b])
       THEN pc' = "syncWait" /\ UNCHANGED cur
       ELSE /\ cur' = LastOf[b] + 1
            /\ pc' = IF cur' <= StopSeq THEN "sync" ELSE "submit"
  /\ UNCHANGED <<blocks, published, channel, lagged, block, start, pool, pulled,
                 merged, unread, lost, early>>

\* block_rx.await.unwrap().unwrap() when the store has no block with the event.
SyncMissing ==
  /\ pc = "sync" /\ BlockOf(cur) \in missing
  /\ pc' = "dead"
  /\ UNCHANGED <<blocks, published, channel, lagged, block, start, cur, mempool,
                 pulled, merged, unread, lost, early>>

\* wait_for_confirmation of a batch: a BlockConfirmed event reports its last event.
SyncConfirmed ==
  /\ pc = "syncWait" /\ unread >= LastOf[BlockOf(cur)]
  /\ cur' = LastOf[BlockOf(cur)] + 1
  /\ pc' = IF cur' <= StopSeq THEN "sync" ELSE "submit"
  /\ unread' \in {0, unread}
  /\ UNCHANGED <<blocks, published, channel, lagged, block, start, mempool, pulled, merged, lost, early>>

SubmitBlock ==
  /\ pc = "submit"
  /\ queue' = queue \o Submitted(block)
  /\ pc' = "wait"
  /\ UNCHANGED <<blocks, published, channel, lagged, block, start, cur, pool, pulled,
                 merged, unread, lost, early>>

BlockConfirmed ==
  /\ pc = "wait" /\ unread >= LastOf[block]
  /\ pc' = "idle"
  /\ unread' \in {0, unread}
  /\ UNCHANGED <<blocks, published, channel, lagged, block, start, cur, mempool,
                 pulled, merged, lost, early>>

NothingPending == queue = <<>> /\ pool = {} /\ pulled = <<>>

\* Mutant: a wait has no deadline.
WaitsForever == FALSE /\ UNCHANGED vars

\* The deadline of a wait passes: the receiver goes on with the next block.
ConfirmationTimedOut ==
  /\ pc \in {"wait", "syncWait"}
  /\ \/ NothingPending /\ UNCHANGED early
     \/ ~NothingPending /\ early < MaxEarly /\ early' = early + 1
  /\ pc' = "idle"
  /\ unread' = 0
  /\ UNCHANGED <<blocks, published, channel, lagged, block, start, cur, mempool,
                 pulled, merged, lost>>

-------------------------------------------------------------------------------
\* The mempool and the shard

\* insert_into_shard: an event that is merged or already in the mempool is refused.
Insert ==
  /\ queue # <<>>
  /\ queue' = Tail(queue)
  /\ pool' = IF Head(queue) > merged THEN pool \cup {Head(queue)} ELSE pool
  /\ UNCHANGED <<blocks, published, channel, lagged, receiver, pulled, merged, unread, lost, early>>

\* The order of two numbers below 100 written as decimal strings.
StringBefore(a, b) ==
  LET tens(n) == IF n < 10 THEN n ELSE n \div 10
  IN  tens(a) < tens(b) \/ (tens(a) = tens(b) /\ a < b)

\* MempoolKey of block events: the timestamp of the block, which several blocks may
\* have, then the sequence number as a string.
Before(d, e) ==
  LET t(x) == TimeOf[BlockOf(x)]
  IN  t(d) < t(e) \/ (t(d) = t(e) /\ StringBefore(d, e))

\* pull_messages: the first MaxPull events in key order; those already merged are
\* dropped on the way.
PullMessages ==
  LET fresh == SelectSeq(SetToSortSeq(pool, Before), LAMBDA e : e > merged)
  IN  /\ pool # {} /\ pulled = <<>>
      /\ IF Len(fresh) < MaxPull
           THEN pulled' = fresh /\ pool' = {}
           ELSE /\ pulled' = SubSeq(fresh, 1, MaxPull)
                /\ pool' = {e \in pool : Before(fresh[MaxPull], e)}
      /\ UNCHANGED <<blocks, published, channel, lagged, receiver, queue, merged, unread, lost, early>>

\* The engine merges an event only when it is the next one.
MergeBlockEvent(last, e) == IF e = last + 1 THEN e ELSE last

\* One transaction per fid, the fids in any order.
Transactions(events) ==
  {FlattenSeq([i \in 1 .. Len(fids) |->
                 SelectSeq(events, LAMBDA e : FidOf[e] = fids[i])]) :
     fids \in SetToSeqs({FidOf[events[i]] : i \in 1 .. Len(events)})}

\* The chunk with the pulled events is decided and committed; BlockConfirmed reports
\* the last event merged.
CommitChunk ==
  /\ pulled # <<>>
  /\ \E order \in Transactions(pulled) : merged' = FoldLeft(MergeBlockEvent, merged, order)
  /\ pulled' = <<>>
  /\ pool' = pool \ {pulled[i] : i \in 1 .. Len(pulled)}
  /\ unread' = merged'
  /\ UNCHANGED <<blocks, published, channel, lagged, receiver, queue, lost, early>>

\* The pulled events end up in no chunk.
LosePulled ==
  /\ pulled # <<>> /\ lost < MaxLost
  /\ pulled' = <<>>
  /\ lost' = lost + 1
  /\ UNCHANGED <<blocks, published, channel, lagged, receiver, mempool, merged, unread, early>>

\* A chunk of another validator with the events up to e, or with none.
OtherCommitsChunk(e) ==
  /\ published > 0 /\ merged <= e /\ e <= LastOf[published]
  /\ merged' = e
  /\ pool' = {d \in pool : d <= merged \/ d > e}
  /\ unread' = e
  /\ UNCHANGED <<blocks, published, channel, lagged, receiver, queue, pulled, lost, early>>

ReceiverStep ==
  \/ ReceiveNothing \/ ReceiveBlock \/ ReceiveLagged
  \/ SyncBlock \/ SyncMissing \/ SyncConfirmed \/ SubmitBlock
  \/ BlockConfirmed \/ ConfirmationTimedOut

Next ==
  \/ PublishNewBlock
  \/ ReceiverStep
  \/ Insert
  \/ PullMessages
  \/ CommitChunk
  \/ LosePulled
  \/ \E e \in FirstSeq - 1 .. 99 : OtherCommitsChunk(e)

Spec == Init /\ [][Next]_vars

\* Shard 0 goes on, the receiver task runs (its timers fire), the mempool handles its
\* requests, and the shard goes on proposing and deciding.
Fairness ==
  /\ WF_vars(PublishNewBlock)
  /\ WF_vars(ReceiverStep)
  /\ WF_vars(Insert)
  /\ WF_vars(PullMessages)
  /\ WF_vars(CommitChunk)

FairSpec == Spec /\ Fairness

-------------------------------------------------------------------------------
\* Properties

Seqs == FirstSeq .. 99

\* Every variable has the type its declaration says.
TypeOK ==
  /\ invalid \subseteq MayBeInvalid /\ missing \subseteq MayBeMissing
  /\ published \in 0 .. Len(LastOf)
  /\ channel \in Seq(Blocks) /\ Len(channel) <= Capacity
  /\ lagged \in BOOLEAN
  /\ pc \in {"idle", "sync", "syncWait", "submit", "wait", "dead"}
  /\ block \in {0} \cup Blocks
  /\ {start, cur, unread} \subseteq 0 .. 100
  /\ queue \in Seq(Seqs) /\ pool \subseteq Seqs /\ pulled \in Seq(Seqs)
  /\ merged \in FirstSeq - 1 .. 99
  /\ lost \in 0 .. MaxLost /\ early \in 0 .. MaxEarly

\* The events of a block are submitted only when the shard has merged every event
\* before them, although what the receiver knows of the shard is what it read when the
\* block arrived and the confirmations it has seen since.
SubmittedAfterTheGap == pc = "submit" => merged >= StopSeq

\* Whatever is dropped by the order of transactions, every block with events that the
\* receiver handles brings the shard forward by an event, up to the first block whose
\* events do not validate; a lost pull and a wait that times out early cost one each.
\* (A receiver that missed a block, or asked for one that is not stored, is dead.)
EveryBlockBringsOne ==
  <>(\/ lagged \/ pc = "dead"
     \/ merged - (FirstSeq - 1) + lost + early
          >= Cardinality({b \in Blocks : /\ EventsOf(b) # <<>>
                                         /\ \A c \in 1 .. b : c \notin invalid}))

===============================================================================
