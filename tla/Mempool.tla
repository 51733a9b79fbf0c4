------------------------------- MODULE Mempool -------------------------------
(***************************************************************************)
(* The mempool of a validator (src/src/mempool/mempool.rs) between the     *)
(* senders that submit messages, the proposers of the shards that pull them*)
(* and the decided chunks it hears about.                                  *)
(*                                                                         *)
(* The mempool is one task.  At a tick it compares its size with the       *)
(* capacity once and then takes up to Batch requests in a row; otherwise it*)
(* answers pulls and handles decisions.  A decided chunk is broadcast      *)
(* before it is committed to the shard's database, which the mempool reads *)
(* to refuse what was already merged, both when a message is admitted and  *)
(* when it is pulled.                                                      *)
(*                                                                         *)
(* A proposer asks for messages and waits a limited time for them.  When it*)
(* stops waiting its request stays in the channel, and the messages that   *)
(* are taken out of the mempool to answer it go to nobody.                 *)
(***************************************************************************)
EXTENDS Integers, Sequences, FiniteSets, FiniteSetsExt

CONSTANTS
  Shards,      \* the shards 1, 2, ...; shard 0 is there too
  Messages,    \* messages that are submitted
  Kind,        \* Kind[m]: "cast", "compact", "keyAdd", "keyRemove", "rent" or "fname"
  FidShard,    \* FidShard[m]: the shard of the message's fid
  Rank,        \* Rank[m]: position of m in the order by timestamp and identity
  MaxPull,     \* max_messages_per_block
  Capacity,    \* capacity_per_shard
  Batch,       \* requests taken per tick (256 in the code)
  QueueSize,   \* queue_size
  ChannelSize, \* capacity of the decision channels
  MaxAbandoned,\* MaxAbandoned[s]: bound on the requests given up and not yet answered
  Limited,     \* enable_rate_limits
  Quota,       \* messages the storage limiter lets a fid send per hour
  None         \* no limiter in the cache

AllShards == {0} \cup Shards

ASSUME MempoolAssumption ==
  /\ Shards \subseteq Nat \ {0}
  /\ Kind \in [Messages -> {"cast", "compact", "keyAdd", "keyRemove", "rent", "fname"}]
  /\ FidShard \in [Messages -> Shards] /\ Rank \in [Messages -> Nat]
  /\ {MaxPull, Capacity, Batch, QueueSize, ChannelSize, Quota} \subseteq Nat \ {0}
  /\ MaxAbandoned \in [AllShards -> Nat]
  /\ Limited \in BOOLEAN /\ None \notin Nat

VARIABLES
  queue,     \* AddMessage requests in mempool_rx
  budget,    \* requests the current tick may still take
  pool,      \* pool[s]: messages
  abandoned, \* abandoned[s]: requests the proposer of shard s stopped waiting for
  pulled,    \* pulled[s]: what the proposer of shard s pulled for its proposal
  deciding,  \* deciding[s]: the chunk broadcast and not yet committed
  db,        \* db[s]: the messages merged in shard s
  decisions, \* decided chunks <<shard, messages>> waiting in the channel
  keyToken,  \* the KEY_ADD limiter of the fid has a token
  limiter    \* tokens of the storage limiter of the fid, None when not cached

limits == <<keyToken, limiter>>
vars   == <<queue, budget, pool, abandoned, pulled, deciding, db, decisions, limits>>

IsUser(m) == Kind[m] \in {"cast", "compact", "keyAdd", "keyRemove"}

\* route_mempool_message: on-chain events also go to shard 0, name transfers to every
\* shard, keys to shard 0 only.
RouteMempoolMessage(m) ==
  CASE Kind[m] \in {"cast", "compact"} -> {FidShard[m]}
    [] Kind[m] = "rent"                -> {0, FidShard[m]}
    [] Kind[m] = "fname"               -> Shards
    [] OTHER                           -> {0}

\* The order of MempoolKey: validator messages first.
Before(m, n) ==
  \/ ~IsUser(m) /\ IsUser(n)
  \/ IsUser(m) = IsUser(n) /\ Rank[m] < Rank[n]

\* type_to_set_postfix: the message has a primary key it can be found under.  Validator
\* messages are not looked up, and compact states and key operations have no postfix.
HasPrimaryKey(m) == Kind[m] = "cast"

\* message_already_exists
AlreadyExists(s, m) == HasPrimaryKey(m) /\ m \in db[s]

TotalMessages == FoldSet(LAMBDA s, n : n + Cardinality(pool[s]), 0, AllShards)

Init ==
  /\ queue = <<>> /\ budget = 0
  /\ pool = [s \in AllShards |-> {}]
  /\ abandoned = [s \in AllShards |-> 0]
  /\ pulled = [s \in AllShards |-> {}]
  /\ deciding = [s \in AllShards |-> {}]
  /\ db = [s \in AllShards |-> {}]
  /\ decisions = <<>>
  /\ keyToken = TRUE /\ limiter = None

-------------------------------------------------------------------------------
\* Requests

\* A sender (RPC, gossip, connector) submits a message.
Submit(m) ==
  /\ Len(queue) < QueueSize
  /\ queue' = Append(queue, m)
  /\ UNCHANGED <<budget, pool, abandoned, pulled, deciding, db, decisions, limits>>

\* The select loop is free: no tick is taking requests.
Idle == budget = 0

\* Mutant: the capacity is not looked at.
TickUnlimited ==
  /\ Idle /\ queue # <<>>
  /\ budget' = Batch
  /\ UNCHANGED <<queue, pool, abandoned, pulled, deciding, db, decisions, limits>>

\* poll_interval.tick: the size is compared with the capacity once.
Tick ==
  /\ Idle /\ queue # <<>>
  /\ TotalMessages < Capacity
  /\ budget' = Batch
  /\ UNCHANGED <<queue, pool, abandoned, pulled, deciding, db, decisions, limits>>

\* The storage the fid has rented, as stored on its shard.
HasStorage(m) == \E r \in db[FidShard[m]] : Kind[r] = "rent"

\* get_rate_limiter_for_fid: a limiter that is not cached starts full; a fid with no
\* storage has none.
Limiter(m) ==
  IF limiter # None THEN limiter ELSE IF HasStorage(m) THEN Quota ELSE 0

\* message_exceeds_rate_limits, for a message that passed the checks before it: the
\* KEY_ADD limiter, then the storage limiter; each consumes a token when it has one.
RateLimit(m) ==
  IF ~IsUser(m) THEN UNCHANGED limits
  ELSE LET keyOk == Kind[m] = "keyAdd" => keyToken
       IN  /\ keyToken' = IF Kind[m] = "keyAdd" THEN FALSE ELSE keyToken
           /\ limiter' = IF Limited /\ keyOk
                           THEN CASE Limiter(m) > 0 -> Limiter(m) - 1
                                  [] limiter # None -> 0
                                  [] OTHER          -> None
                           ELSE limiter

Exceeds(m) ==
  /\ IsUser(m)
  /\ (Kind[m] = "keyAdd" /\ ~keyToken) \/ (Limited /\ Limiter(m) = 0)

\* The shards that admit m: it is not in their mempool and was not merged there.
Admitting(m) ==
  {s \in RouteMempoolMessage(m) : m \notin pool[s] /\ ~AlreadyExists(s, m)}

\* try_recv and insert: one request is handled.  A message with several shards is a
\* validator message, so the limiters are asked at most once.
Insert ==
  LET m == Head(queue) IN
  /\ budget > 0 /\ queue # <<>>
  /\ budget' = budget - 1
  /\ queue' = Tail(queue)
  /\ IF Admitting(m) = {}
       THEN UNCHANGED <<pool, limits>>
       ELSE /\ RateLimit(m)
            /\ pool' = IF Exceeds(m) THEN pool
                       ELSE [s \in AllShards |-> IF s \in Admitting(m)
                                                   THEN pool[s] \cup {m} ELSE pool[s]]
  /\ UNCHANGED <<abandoned, pulled, deciding, db, decisions>>

\* try_recv finds the queue empty: the tick is over.
QueueEmpty ==
  /\ budget > 0 /\ queue = <<>>
  /\ budget' = 0
  /\ UNCHANGED <<queue, pool, abandoned, pulled, deciding, db, decisions, limits>>

-------------------------------------------------------------------------------
\* Pulls and decisions

\* Mutant: the limiters are asked again when a message is pulled.
StillValidLimited(s, m) == ~AlreadyExists(s, m) /\ ~Exceeds(m)

\* Mutant: what is pulled is not looked up again.
StillValidUnchecked(s, m) == TRUE

\* message_is_valid with at_admission = false.
StillValid(s, m) == ~AlreadyExists(s, m)

Valid(s) == {m \in pool[s] : StillValid(s, m)}

\* The first MaxPull valid messages in key order.
First(s) ==
  {m \in Valid(s) : Cardinality({x \in Valid(s) : Before(x, m)}) < MaxPull}

\* What is left in the mempool of shard s once MaxPull valid messages were taken in key order.
Left(s) ==
  IF Cardinality(First(s)) < MaxPull
    THEN {} ELSE {m \in pool[s] : \A x \in First(s) : Before(x, m)}

\* Mutant: a message that is no longer valid stays in the mempool.
PullKeepsStale(s) ==
  /\ Idle /\ abandoned[s] = 0 /\ deciding[s] = {}
  /\ pulled' = [pulled EXCEPT ![s] = First(s)]
  /\ pool' = [pool EXCEPT ![s] = @ \ First(s)]
  /\ UNCHANGED <<queue, budget, abandoned, deciding, db, decisions, limits>>

\* pull_messages for the proposer of shard s, which waits for the answer; what its former
\* proposal held is gone.
PullMessages(s) ==
  /\ Idle /\ abandoned[s] = 0 /\ deciding[s] = {}
  /\ pulled' = [pulled EXCEPT ![s] = First(s)]
  /\ pool' = [pool EXCEPT ![s] = Left(s)]
  /\ UNCHANGED <<queue, budget, abandoned, deciding, db, decisions, limits>>

\* "Did not receive messages from mempool in time": the proposer goes on without messages.
StopWaiting(s) ==
  /\ abandoned[s] < MaxAbandoned[s] /\ deciding[s] = {}
  /\ abandoned' = [abandoned EXCEPT ![s] = @ + 1]
  /\ pulled' = [pulled EXCEPT ![s] = {}]
  /\ UNCHANGED <<queue, budget, pool, deciding, db, decisions, limits>>

\* pull_messages for such a request, which is answered before any later one: the send
\* fails, and the messages are in neither place.
PullForNobody(s) ==
  /\ Idle /\ abandoned[s] > 0
  /\ abandoned' = [abandoned EXCEPT ![s] = @ - 1]
  /\ pool' = [pool EXCEPT ![s] = Left(s)]
  /\ UNCHANGED <<queue, budget, pulled, deciding, db, decisions, limits>>

\* A chunk of shard s with the messages c is decided and broadcast: the node's own
\* proposal, or another validator's with one message.  A full channel drops its oldest.
Publish(s, c) ==
  /\ deciding[s] = {} /\ c # {}
  /\ deciding' = [deciding EXCEPT ![s] = c]
  /\ pulled' = [pulled EXCEPT ![s] = {}]
  /\ decisions' = Append(IF Len(decisions) < ChannelSize THEN decisions ELSE Tail(decisions),
                         <<s, c>>)
  /\ UNCHANGED <<queue, budget, pool, abandoned, db, limits>>

OwnProposal(s) == Publish(s, pulled[s])

OtherProposal(s, m) == s \in RouteMempoolMessage(m) /\ ~AlreadyExists(s, m) /\ Publish(s, {m})

\* commit_shard_chunk or commit_block.
Commit(s) ==
  /\ deciding[s] # {}
  /\ db' = [db EXCEPT ![s] = @ \cup deciding[s]]
  /\ deciding' = [deciding EXCEPT ![s] = {}]
  /\ UNCHANGED <<queue, budget, pool, abandoned, pulled, decisions, limits>>

\* remove_committed_txns: the messages of a decided chunk leave the mempool of its
\* shard; a storage rent drops the fid's limiter, so that it starts anew.
RemoveCommitted ==
  LET s == Head(decisions)[1]  c == Head(decisions)[2] IN
  /\ Idle /\ decisions # <<>>
  /\ decisions' = Tail(decisions)
  /\ pool' = [pool EXCEPT ![s] = @ \ c]
  /\ limiter' = IF \E m \in c : Kind[m] = "rent" THEN None ELSE limiter
  /\ UNCHANGED <<queue, budget, abandoned, pulled, deciding, db, keyToken>>

\* A minute, an hour or the idle time of the limiters passes.
Refill ==
  /\ ~keyToken \/ limiter # None
  /\ keyToken' = TRUE
  /\ limiter' \in {limiter, None}
  /\ UNCHANGED <<queue, budget, pool, abandoned, pulled, deciding, db, decisions>>

Next ==
  \/ \E m \in Messages : Submit(m)
  \/ Tick
  \/ Insert
  \/ QueueEmpty
  \/ \E s \in AllShards : PullMessages(s)
  \/ \E s \in AllShards : StopWaiting(s)
  \/ \E s \in AllShards : PullForNobody(s)
  \/ \E s \in AllShards : OwnProposal(s)
  \/ \E s \in AllShards, m \in Messages : OtherProposal(s, m)
  \/ \E s \in AllShards : Commit(s)
  \/ RemoveCommitted
  \/ Refill

Spec == Init /\ [][Next]_vars

\* The mempool task runs, every shard goes on asking for messages and committing.
Fairness ==
  /\ WF_vars(Tick) /\ WF_vars(Insert) /\ WF_vars(QueueEmpty) /\ WF_vars(RemoveCommitted)
  /\ \A s \in AllShards : WF_vars(Commit(s)) /\ SF_vars(PullMessages(s))
                              /\ SF_vars(PullForNobody(s))

FairSpec == Spec /\ Fairness

-------------------------------------------------------------------------------
\* Properties

\* The most entries the requests of one tick can add.
BatchEntries ==
  Max({MapThenSumSet(LAMBDA m : Cardinality(RouteMempoolMessage(m)), S) :
         S \in {T \in SUBSET Messages : Cardinality(T) <= Batch}})

\* Every variable has the type its declaration says.  The size is looked at once per
\* tick, over all shards together: the mempool may grow beyond its capacity, by what the
\* requests of one tick add in all the shards they go to.
TypeOK ==
  /\ TotalMessages <= Capacity - 1 + BatchEntries
  /\ queue \in Seq(Messages) /\ Len(queue) <= QueueSize
  /\ budget \in 0 .. Batch
  /\ \A f \in {pool, pulled, deciding, db} : f \in [AllShards -> SUBSET Messages]
  /\ decisions \in Seq(AllShards \X SUBSET Messages) /\ Len(decisions) <= ChannelSize
  /\ \A s \in AllShards : abandoned[s] \in 0 .. MaxAbandoned[s]
  /\ keyToken \in BOOLEAN
  /\ limiter \in 0 .. Quota \cup {None}

\* A proposal never holds a message with a primary key that is already merged in its
\* shard, although a chunk is removed from the mempool before it is committed and a copy
\* of one of its messages may be admitted in between.  Compact states and key operations
\* are proposed again: only the engine tells that they were merged.
ProposalIsFresh ==
  \A s \in AllShards : \A m \in pulled[s] : HasPrimaryKey(m) => m \notin db[s]

\* message_is_valid: "Rate-limit checks are token-consuming. Run only at admission".  A
\* message that was admitted leaves the mempool into a proposal, unless it is merged or
\* decided meanwhile or answers a request its proposer stopped waiting for; no limiter and
\* no bound on a pull takes it away.
AdmittedIsProposed ==
  [][\A s \in AllShards : \A m \in pool[s] \ pool'[s] :
       \/ m \in pulled'[s]
       \/ AlreadyExists(s, m)
       \/ decisions # <<>> /\ s = Head(decisions)[1] /\ m \in Head(decisions)[2]
       \/ abandoned[s] > 0]_vars

\* Every request is eventually answered: a mempool at its capacity is emptied by the
\* pulls of the shards and takes requests again.
RequestsAreTaken == (queue # <<>> /\ budget = 0) ~> budget > 0

===============================================================================
