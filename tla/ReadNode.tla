------------------------------- MODULE ReadNode -------------------------------
(***************************************************************************)
(* A read node following one shard: the read validator, its host actor and *)
(* its sync actor (src/src/consensus/read_validator.rs and                 *)
(* src/src/consensus/malachite/read_host.rs, read_sync.rs).                *)
(*                                                                         *)
(* Decided values arrive by gossip in any order, twice, late or never.  The*)
(* next one is committed, later ones wait in a bounded buffer, the rest are*)
(* dropped.  The sync actor asks a peer for the value after the last height*)
(* the host told it about.  The sync state machine is a library and is     *)
(* modelled by what the actor feeds it: the height it works at, at most one*)
(* request in flight for it, a timeout that makes it ask again.            *)
(*                                                                         *)
(* A value is represented by its height and by what its commits say: they  *)
(* are the certificate of this very chunk, a certificate of another one,   *)
(* or no quorum's.  Nobody compares the certificate with the chunk that    *)
(* carries it, so the first two are processed alike.                       *)
(***************************************************************************)
EXTENDS Integers, Sequences, FiniteSets, SequencesExt

CONSTANTS
  MaxHeight,    \* bound on the decided heights
  MaxBuffered,  \* max_num_buffered_blocks
  MaxCrashes    \* bound on the crashes of the read node

ASSUME ReadNodeAssumption ==
  MaxHeight \in Nat /\ MaxBuffered \in Nat /\ MaxCrashes \in Nat

Heights == 1 .. MaxHeight
Actors == {"host", "sync"}

\* A decided value of the wire: the height of its header and its commits.
DecidedValue == [height : Heights, commits : {"own", "other", "none"}]

\* What the validators decided at height h, with the certificate they gave it.
Decided(h) == [height |-> h, commits |-> "own"]

VARIABLES
  decided,   \* the number of heights the validators have decided
  stored,    \* the values in the node's block store, in the order stored
  last,      \* last_height
  buffered,  \* the values in buffered_blocks
  mailbox,   \* Decided heights the host told the sync actor, not yet handled
  syncing,   \* the height the sync state machine works at, 0 before it starts
  request,   \* the height of the request in flight, 0 for none
  alive,     \* the actors that run; nobody starts again one that panicked
  crashes    \* number of crashes so far

vars == <<decided, stored, last, buffered, mailbox, syncing, request, alive, crashes>>
host == <<stored, last, buffered>>
sync == <<mailbox, syncing, request>>

Init ==
  /\ decided = 0
  /\ stored = <<>>
  /\ last = 0
  /\ buffered = {}
  /\ mailbox = <<0>>
  /\ syncing = 0
  /\ request = 0
  /\ alive = Actors
  /\ crashes = 0

-------------------------------------------------------------------------------
\* The read validator

\* The commits a value can carry: a certificate exists once its value is decided.
Exists(v) ==
  /\ v.commits = "own" => v.height <= decided
  /\ v.commits = "other" => decided > 0

\* verify_signatures: the commits are a certificate of some decided value.
Verified(v) == v.commits # "none"

\* A chunk whose certificate is not its own may not replay to the root it states.
MayPanic(v) == v.commits = "other"

\* buffered_blocks has one value per height, the last one inserted.
Insert(v) == {w \in buffered : w.height # v.height} \cup {v}

\* commit_decided_value, then process_buffered_blocks: the values that are committed
\* when v is the next one, up to the first gap.
Run(v) ==
  LET ready == {v} \cup {w \in buffered : v.height + 1 .. w.height
                                            \subseteq {x.height : x \in buffered}}
  IN  [i \in 1 .. Cardinality(ready) |->
         CHOOSE w \in ready : w.height = v.height + i - 1]

\* The values of run are stored one after the other, and last_height follows.
StoreRun(run) ==
  /\ stored' = stored \o run
  /\ last' = last + Len(run)

\* sync.cast(Decided): an actor that died is told nothing.
Tell(h) == IF "sync" \in alive THEN Append(mailbox, h) ELSE mailbox

\* Mutant: the buffer takes one value more than it may hold.
BufferOneMore(v) ==
  /\ Verified(v) /\ v.height > last + 1
  /\ Cardinality(buffered) <= MaxBuffered
  /\ buffered' = Insert(v)
  /\ UNCHANGED <<stored, last, mailbox, alive>>

\* A value ahead of the next one waits in the buffer while there is room.
Buffer(v) ==
  /\ Verified(v) /\ v.height > last + 1
  /\ Cardinality(buffered) < MaxBuffered
  /\ buffered' = Insert(v)
  /\ UNCHANGED <<stored, last, mailbox, alive>>

\* Mutant: the sync actor is told of the first committed height only.
CommitTellsFirst(v) ==
  /\ Verified(v) /\ v.height = last + 1
  /\ StoreRun(Run(v))
  /\ buffered' = buffered \ ToSet(Run(v))
  /\ mailbox' = Tell(v.height)
  /\ UNCHANGED alive

\* The next value and the buffered ones that follow it are committed, and the sync
\* actor is told the height reached.
Commit(v) ==
  /\ Verified(v) /\ v.height = last + 1
  /\ StoreRun(Run(v))
  /\ buffered' = buffered \ ToSet(Run(v))
  /\ mailbox' = Tell(last')
  /\ UNCHANGED alive

\* commit_shard_chunk panics at a value of the run: what came before is stored, and
\* the host actor is gone with its buffer.
CommitPanics(v) ==
  /\ Verified(v) /\ v.height = last + 1
  /\ \E i \in 1 .. Len(Run(v)) : /\ MayPanic(Run(v)[i])
                                  /\ StoreRun(SubSeq(Run(v), 1, i - 1))
  /\ buffered' = {}
  /\ alive' = alive \ {"host"}
  /\ UNCHANGED mailbox

\* A value without a quorum, at or below the last height, or one the buffer has no
\* room for.
Drop(v) ==
  /\ \/ ~ Verified(v)
     \/ v.height <= last
     \/ v.height > last + 1 /\ Cardinality(buffered) >= MaxBuffered
  /\ UNCHANGED <<stored, last, buffered, mailbox, alive>>

\* process_decided_value
Process(v) ==
  /\ "host" \in alive
  /\ Buffer(v) \/ Commit(v) \/ CommitPanics(v) \/ Drop(v)

\* A value arrives by gossip.
GossipDelivers(v) ==
  /\ Exists(v)
  /\ Process(v)
  /\ UNCHANGED <<decided, syncing, request, crashes>>

-------------------------------------------------------------------------------
\* The sync actor

\* Msg::Decided: UpdateHeight, then StartHeight of the next one.  A request for an
\* earlier height is no longer waited for.
HandleDecided ==
  /\ mailbox # <<>>
  /\ mailbox' = Tail(mailbox)
  /\ syncing' = Head(mailbox) + 1
  /\ request' = 0
  /\ UNCHANGED <<decided, host, alive, crashes>>

\* Mutant: only a peer that is ahead by more than one height is asked.
SendValueRequestTooLate ==
  /\ syncing > 0 /\ syncing < decided
  /\ request = 0
  /\ request' = syncing
  /\ UNCHANGED <<decided, host, mailbox, syncing, alive, crashes>>

\* A peer's status shows that it has the height; a value request is sent.
SendValueRequest ==
  /\ syncing > 0 /\ syncing <= decided
  /\ request = 0
  /\ request' = syncing
  /\ UNCHANGED <<decided, host, mailbox, syncing, alive, crashes>>

\* The response: the value goes to the host like a gossiped one.
ValueResponse(v) ==
  /\ request # 0
  /\ Exists(v)
  /\ request' = 0
  /\ Process(v)
  /\ UNCHANGED <<decided, syncing, crashes>>

\* The peer answers that it does not have the value: unwrap ends the sync actor.
EmptyResponse ==
  /\ request # 0
  /\ alive' = alive \ {"sync"}
  /\ mailbox' = <<>> /\ syncing' = 0 /\ request' = 0
  /\ UNCHANGED <<decided, host, crashes>>

\* No response in time: the request is forgotten.
RequestTimesOut ==
  /\ request # 0
  /\ request' = 0
  /\ UNCHANGED <<decided, host, mailbox, syncing, alive, crashes>>

-------------------------------------------------------------------------------
\* The validators decide one more height (ShardChain).
ValidatorsDecide ==
  /\ decided < MaxHeight
  /\ decided' = decided + 1
  /\ UNCHANGED <<host, sync, alive, crashes>>

\* Mutant: the last stored value is lost.
RestartLosesLast(kept) ==
  LET rest == IF kept = <<>> THEN kept ELSE Front(kept) IN
  /\ crashes < MaxCrashes
  /\ crashes' = crashes + 1
  /\ stored' = rest
  /\ last' = Len(rest)
  /\ buffered' = {}
  /\ mailbox' = <<Len(rest)>>
  /\ syncing' = 0
  /\ request' = 0
  /\ alive' = Actors
  /\ UNCHANGED decided

\* initialize_height: the height is read back from the store, and the sync actor is
\* told about it.  A crash in process_buffered_blocks keeps what it had committed.
Restart(kept) ==
  /\ crashes < MaxCrashes
  /\ crashes' = crashes + 1
  /\ stored' = kept
  /\ last' = Len(kept)
  /\ buffered' = {}
  /\ mailbox' = <<Len(kept)>>
  /\ syncing' = 0
  /\ request' = 0
  /\ alive' = Actors
  /\ UNCHANGED decided

Crash == Restart(stored)

CrashWhileProcessing(v) ==
  /\ "host" \in alive
  /\ Exists(v) /\ Verified(v) /\ v.height = last + 1
  /\ \E i \in 1 .. Len(Run(v)) : Restart(stored \o SubSeq(Run(v), 1, i))

Next ==
  \/ ValidatorsDecide
  \/ \E v \in DecidedValue : GossipDelivers(v)
  \/ HandleDecided
  \/ SendValueRequest
  \/ \E v \in DecidedValue : ValueResponse(v)
  \/ EmptyResponse
  \/ RequestTimesOut
  \/ Crash
  \/ \E v \in DecidedValue : CrashWhileProcessing(v)

Spec == Init /\ [][Next]_vars

\* The actors handle their messages, a peer that has the height is eventually asked,
\* and a request that is repeated is eventually answered with the value asked for.
\* Gossip promises nothing.
Fairness ==
  /\ WF_vars(HandleDecided)
  /\ WF_vars(SendValueRequest)
  /\ SF_vars(ValueResponse([height |-> request, commits |-> "own"]))

FairSpec == Spec /\ Fairness

-------------------------------------------------------------------------------
\* Properties

\* Every variable has the type its declaration says.  The store has one value of every
\* height up to last_height.  The buffer holds at most max_num_buffered_blocks values,
\* one per height, none of which could be committed.
TypeOK ==
  /\ decided \in 0 .. MaxHeight
  /\ stored \in Seq(DecidedValue)
  /\ last = Len(stored)
  /\ \A i \in 1 .. last : stored[i].height = i
  /\ buffered \subseteq {v \in DecidedValue : v.height > last + 1 /\ Verified(v)}
  /\ Cardinality(buffered) <= MaxBuffered
  /\ \A v, w \in buffered : v.height = w.height => v = w
  /\ mailbox \in Seq(0 .. MaxHeight)
  /\ syncing \in 0 .. MaxHeight + 1
  /\ request \in 0 .. MaxHeight
  /\ alive \subseteq Actors
  /\ crashes \in 0 .. MaxCrashes

\* While both actors run, the sync actor never works at a height the node has left
\* behind without being told: it is at the next height, or a message in its mailbox
\* says so.
SyncIsTold ==
  alive = Actors =>
    \/ syncing = last + 1
    \/ mailbox # <<>> /\ mailbox[Len(mailbox)] = last

\* What the node has stored up to the first value whose commits are not its own.
Certified ==
  SubSeq(stored, 1, Max({k \in 0 .. last : \A i \in 1 .. k : stored[i] = Decided(i)}))

L == INSTANCE Ledger WITH
       Members <- {"read"},
       chain <- [i \in 1 .. decided |-> Decided(i)], ledger <- [n \in {"read"} |-> Certified]

\* A read node keeps a ledger: up to the first value whose certificate is not that of
\* the chunk (verify_signatures does not compare them), what it has stored is at every
\* moment a prefix of what the validators decided, and neither a restart nor a panic
\* takes anything away from it.
ImplementsLedger == L!Spec

\* Every decided height is eventually stored, although gossip may lose every value
\* and a full buffer drops those ahead, unless an actor has died: a peer's answer
\* without a value ends the sync actor, a value that does not replay ends the host.
CatchesUp == \A h \in Heights : decided >= h ~> last >= h \/ alive # Actors

===============================================================================
