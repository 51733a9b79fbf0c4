---------------------------- MODULE ShardChainProofs ----------------------------
(***************************************************************************)
(* Replicas agree, for every number of validators, every payload, every    *)
(* crash and every deterministic execution, as far as the hashes and the   *)
(* two writes of a commit let them; the decided chunks are linked, and the *)
(* validators of a shard implement Ledger.                                 *)
(***************************************************************************)
EXTENDS ShardChain, SequenceTheorems, TLAPS

-------------------------------------------------------------------------------
\* The inductive invariant

\* A round is running only below the bound on heights.
RoundInBounds == \A n \in Nodes : round[n] # None => NextHeight(n) <= MaxHeight

\* A node called its own proposals valid.
StoredAreValid == \A n \in Nodes : \A v \in stored[n] : <<n, v>> \in valid

\* A broadcast value is still in its proposer's store, or its height is past.
SentAreStored ==
  \A v \in sent : \E n \in Nodes :
    /\ n = ProposerOf(v.height, v.round)
    /\ v \in stored[n] \/ v.height <= Confirmed(n)

DecidedByHeight == \A h \in 1 .. Len(decided) : decided[h].height = h

\* A node tore no commit beyond the height it works at.
TornIsPast == \A n \in Nodes, h \in Nat : <<n, h>> \in torn => h <= NextHeight(n)

Types == TypeOK /\ RoundInBounds

Chained ==
  /\ StoredAreValid
  /\ SentAreStored
  /\ NoEquivocation
  /\ DecidedByHeight
  /\ ChunksAreDecided
  /\ TornIsPast

\* What holds whatever executing a payload does.
ChainInv == Types /\ Chained

\* A value that may be decided next was executed on the state before it.
ValidAreExecuted ==
  \A e \in valid :
    /\ e[2].height <= Len(decided) + 1
    /\ e[2].height = Len(decided) + 1 /\ SoundUpTo(Len(decided)) =>
         e[2].root = RootOf(Exec(CanonAt(Len(decided)), e[2].payload))

\* The states of the decided chunks follow from one another, and their roots are the
\* decided ones.
CanonIsExecution ==
  \A h \in 1 .. Len(decided) :
    /\ canon[h] = Exec(CanonAt(h - 1), decided[h].payload)
    /\ SoundUpTo(h - 1) => decided[h].root = RootOf(canon[h])

\* The cached transaction of a node in a round was computed on its current state.
CacheIsFresh ==
  \A n \in Nodes :
    round[n] # None /\ pending[n] # None =>
      \E p \in Payloads : pending[n] = Cached(db[n], p)

Executed ==
  /\ ValidAreExecuted
  /\ CanonIsExecution
  /\ StateIsExecution

\* And what the states are.
IInv == ChainInv /\ Executed /\ CacheIsFresh

-------------------------------------------------------------------------------
\* Types

LEMMA SeqGrows ==
  ASSUME NEW S, NEW T, S \subseteq T, NEW s \in Seq(S)
  PROVE  s \in Seq(T)
OBVIOUS

LEMMA AppendType ==
  ASSUME NEW S, NEW s \in Seq(S), NEW e \in S
  PROVE  /\ Append(s, e) \in Seq(S)
         /\ Len(Append(s, e)) = Len(s) + 1
         /\ Append(s, e)[Len(s) + 1] = e
         /\ \A i \in 1 .. Len(s) : Append(s, e)[i] = s[i]
         /\ Len(s) \in Nat
OBVIOUS

LEMMA CachedType ==
  ASSUME NEW s \in States, NEW p \in Payloads
  PROVE  /\ Cached(s, p).state = Exec(s, p)
         /\ Cached(s, p).root = RootOf(Exec(s, p))
         /\ Cached(s, p).blockEvents = BlockEventsOf(p)
         /\ Exec(s, p) \in States
BY ExecType DEF Cached

\* What the type invariant says of a node and of the chain.
LEMMA NodeTypes ==
  ASSUME TypeOK, NEW n \in Nodes
  PROVE  /\ db[n] \in States
         /\ chunks[n] \in Seq(sent) /\ Confirmed(n) \in Nat
         /\ stored[n] \subseteq sent /\ proposed[n] \subseteq sent
         /\ NextHeight(n) = Confirmed(n) + 1
BY DEF TypeOK, Confirmed, NextHeight

LEMMA ChainTypes ==
  ASSUME TypeOK
  PROVE  /\ decided \in Seq(sent) /\ Len(decided) \in Nat
         /\ canon \in Seq(States) /\ Len(canon) = Len(decided)
         /\ \A h \in 1 .. Len(decided) : decided[h] \in sent /\ canon[h] \in States
         /\ \A v \in sent : v.payload \in Payloads /\ v.height \in Nat \ {0}
         /\ \A e \in valid : e[2] \in sent
BY ChainAssumption DEF TypeOK, IsValue

LEMMA CanonType ==
  ASSUME TypeOK, NEW h \in 0 .. Len(decided)
  PROVE  CanonAt(h) \in States
BY ExecType DEF TypeOK, CanonAt

LEMMA NewValueType ==
  ASSUME Types, NEW n \in Nodes, NEW p \in Payloads, NEW t \in Times, round[n] # None
  PROVE  IsValue(NewValue(n, p, t))
<1>1. RootOf(Exec(db[n], p)) \in Roots
  BY ExecType DEF Types, TypeOK, Roots
<1>2. NextHeight(n) \in 1 .. MaxHeight /\ round[n] \in Nat
  BY ChainAssumption DEF Types, TypeOK, RoundInBounds, NextHeight, Confirmed
<1>. QED BY <1>1, <1>2 DEF NewValue, IsValue

LEMMA TypesInit == Init => Types
<1>. SUFFICES ASSUME Init PROVE Types
  OBVIOUS
<1>1. decided = <<>> /\ canon = <<>> /\ sent = {} /\ valid = {} /\ torn = {} /\ crashes = 0
  BY DEF Init
<1>2. TypeOK
  BY <1>1, ChainAssumption, ExecType DEF Init, TypeOK
<1>3. RoundInBounds
  BY DEF Init, RoundInBounds
<1>. QED BY <1>2, <1>3 DEF Types

\* What a commit writes is a state with the root of the committed value.
LEMMA CommitType ==
  ASSUME TypeOK, NEW n \in Nodes, NEW v \in sent, CommitSucceeds(n, v)
  PROVE  /\ ToCommit(n, v).state \in States
         /\ RootOf(ToCommit(n, v).state) = v.root
<1>1. CASE CacheValid(n, v)
  BY <1>1 DEF TypeOK, ToCommit, CacheValid
<1>2. CASE ~CacheValid(n, v)
  <2>1. db[n] \in States /\ v.payload \in Payloads
    BY NodeTypes, ChainTypes
  <2>2. /\ Cached(db[n], v.payload).state = Exec(db[n], v.payload)
        /\ Cached(db[n], v.payload).root = RootOf(Exec(db[n], v.payload))
        /\ Exec(db[n], v.payload) \in States
    BY <2>1, CachedType
  <2>. QED BY <1>2, <2>2 DEF ToCommit, CommitSucceeds
<1>. QED BY <1>1, <1>2

\* A node that adds a known value, and what it may cache and call valid with it.
LEMMA AddProposedValueType ==
  ASSUME Types, NEW n \in Nodes, NEW v \in sent, AddProposedValue(n, v)
  PROVE  Types'
<1>1. v.payload \in Payloads /\ db[n] \in States
  BY NodeTypes, ChainTypes DEF Types
<1>2. TypeOK'
  BY <1>1, CachedType DEF AddProposedValue, Types, TypeOK, AddValue, disk, failures
<1>. QED BY <1>2 DEF AddProposedValue, Types, RoundInBounds, NextHeight, Confirmed, disk

LEMMA ProposeFreshType ==
  ASSUME Types, NEW n \in Nodes, NEW p \in Payloads, NEW t \in Times, ProposeFresh(n, p, t)
  PROVE  Types'
<1>. DEFINE v == NewValue(n, p, t)
<1>1. IsValue(v)
  BY NewValueType DEF ProposeFresh
<1>2. /\ sent' = sent \cup {v} /\ valid' = valid \cup {<<n, v>>}
      /\ proposed' = [proposed EXCEPT ![n] = AddValue(@, v)]
      /\ stored' = [stored EXCEPT ![n] = @ \cup {v}]
      /\ pending' = [pending EXCEPT ![n] = Cached(db[n], p)]
      /\ UNCHANGED <<db, chunks, round, decided, canon, crashes, torn>>
  BY DEF ProposeFresh, failures
<1>. HIDE DEF v
<1>3. /\ chunks' \in [Nodes -> Seq(sent')]
      /\ decided' \in Seq(sent')
  <2>1. sent \subseteq sent'
    BY <1>2
  <2>2. \A m \in Nodes : chunks[m] \in Seq(sent')
    BY <2>1, SeqGrows DEF Types, TypeOK
  <2>. QED BY <1>2, <2>1, <2>2, SeqGrows DEF Types, TypeOK
<1>4. /\ stored' \in [Nodes -> SUBSET sent']
      /\ proposed' \in [Nodes -> SUBSET sent']
      /\ valid' \subseteq (Nodes \X sent')
  BY <1>2 DEF Types, TypeOK, AddValue
<1>5. \A w \in sent' : IsValue(w)
  BY <1>1, <1>2 DEF Types, TypeOK
<1>6. /\ DOMAIN pending' = Nodes
      /\ \A m \in Nodes : pending'[m] # None => /\ pending'[m].state \in States
                                                /\ pending'[m].root = RootOf(pending'[m].state)
  <2>1. db[n] \in States
    BY NodeTypes DEF Types
  <2>. QED BY <1>2, <2>1, CachedType DEF Types, TypeOK
<1>7. TypeOK'
  BY <1>2, <1>3, <1>4, <1>5, <1>6 DEF Types, TypeOK
<1>8. RoundInBounds'
  BY <1>2 DEF Types, RoundInBounds, NextHeight, Confirmed
<1>. QED BY <1>7, <1>8 DEF Types

LEMMA ConsensusDecidesType ==
  ASSUME Types, NEW v \in sent, ConsensusDecides(v)
  PROVE  Types'
<1>1. CanonAt(Len(canon)) \in States /\ v.payload \in Payloads
  <2>1. Len(canon) \in 0 .. Len(decided)
    BY ChainTypes DEF Types
  <2>. QED BY <2>1, CanonType, ChainTypes DEF Types
<1>2. Exec(CanonAt(Len(canon)), v.payload) \in States
  BY <1>1, ExecType
<1>3. /\ decided' \in Seq(sent) /\ Len(decided') = Len(decided) + 1 /\ Len(decided) \in Nat
      /\ canon' \in Seq(States) /\ Len(canon') = Len(canon) + 1
  BY <1>2, AppendType, ChainTypes DEF ConsensusDecides, Types
<1>4. torn' \subseteq (Nodes \X (1 .. Len(decided')))
  BY <1>3 DEF ConsensusDecides, failures, Types, TypeOK
<1>5. TypeOK'
  BY <1>3, <1>4 DEF ConsensusDecides, disk, memory, failures, Types, TypeOK
<1>. QED BY <1>5 DEF ConsensusDecides, disk, memory, Types, RoundInBounds, NextHeight, Confirmed

\* Storing a value as the next chunk.
LEMMA StoreChunkType ==
  ASSUME Types, NEW n \in Nodes, NEW v \in sent, CommitSucceeds(n, v), CommitState(n, v),
         chunks' = [chunks EXCEPT ![n] = Append(@, v)],
         UNCHANGED <<external, torn>>
  PROVE  /\ db' \in [Nodes -> States]
         /\ chunks' \in [Nodes -> Seq(sent)]
         /\ \A m \in Nodes \ {n} : NextHeight(m)' = NextHeight(m)
<1>1. ToCommit(n, v).state \in States
  BY CommitType DEF Types
<1>2. Append(chunks[n], v) \in Seq(sent)
  BY AppendType, NodeTypes DEF Types
<1>. QED BY <1>1, <1>2 DEF CommitState, Types, TypeOK, NextHeight, Confirmed

LEMMA DecideType ==
  ASSUME Types, NEW n \in Nodes, NEW v \in proposed[n], Decide(n, v)
  PROVE  Types'
<1>1. v \in sent
  BY NodeTypes DEF Types
<1>2. /\ db' \in [Nodes -> States]
      /\ chunks' \in [Nodes -> Seq(sent)]
      /\ \A m \in Nodes \ {n} : NextHeight(m)' = NextHeight(m)
  BY <1>1, StoreChunkType, Zenon DEF Decide, failures
<1>3. TypeOK'
  BY <1>2 DEF Decide, Types, TypeOK, ForgetUpTo, external, failures
<1>4. RoundInBounds'
  BY <1>2 DEF Decide, Types, TypeOK, RoundInBounds
<1>. QED BY <1>3, <1>4 DEF Types

LEMMA CrashType ==
  ASSUME Types, NEW n \in Nodes, LoseMemory(n)
  PROVE  /\ crashes' \in 0 .. MaxCrashes
         /\ round' \in [Nodes -> Nat \cup {None}]
         /\ DOMAIN pending' = Nodes
         /\ \A m \in Nodes : pending'[m] # None => /\ pending'[m].state \in States
                                                   /\ pending'[m].root = RootOf(pending'[m].state)
         /\ proposed' \in [Nodes -> SUBSET sent]
         /\ round'[n] = None
         /\ \A m \in Nodes \ {n} : round'[m] = round[m]
BY ChainAssumption DEF LoseMemory, Types, TypeOK

LEMMA CrashAfterStateType ==
  ASSUME Types, NEW n \in Nodes, NEW v \in proposed[n], CrashAfterState(n, v),
         v.height \in 1 .. Len(decided)
  PROVE  Types'
<1>1. v \in sent
  BY NodeTypes DEF Types
<1>2. ToCommit(n, v).state \in States
  BY <1>1, CommitType DEF Types, CrashAfterState
<1>3. db' \in [Nodes -> States]
  BY <1>2 DEF CrashAfterState, CommitState, Types, TypeOK
<1>4. torn' \subseteq (Nodes \X (1 .. Len(decided)))
  BY DEF CrashAfterState, Types, TypeOK
<1>5. TypeOK'
  BY <1>3, <1>4, CrashType DEF CrashAfterState, external, Types, TypeOK
<1>6. RoundInBounds'
  BY CrashType DEF CrashAfterState, Types, RoundInBounds, NextHeight, Confirmed
<1>. QED BY <1>5, <1>6 DEF Types

LEMMA CrashAfterChunkType ==
  ASSUME Types, NEW n \in Nodes, NEW v \in proposed[n], CrashAfterChunk(n, v)
  PROVE  Types'
<1>1. v \in sent
  BY NodeTypes DEF Types
<1>2. /\ db' \in [Nodes -> States]
      /\ chunks' \in [Nodes -> Seq(sent)]
      /\ \A m \in Nodes \ {n} : NextHeight(m)' = NextHeight(m)
  BY <1>1, StoreChunkType, Zenon DEF CrashAfterChunk
<1>3. TypeOK'
  BY <1>2, CrashType DEF CrashAfterChunk, external, Types, TypeOK
<1>4. RoundInBounds'
  BY <1>2, CrashType DEF CrashAfterChunk, Types, RoundInBounds
<1>. QED BY <1>3, <1>4 DEF Types

\* The value a node looks up by the decided hash has that hash, and the decided
\* transactions when no others were proposed under it.
LEMMA KnownIsDecided ==
  ASSUME TypeOK, DecidedByHeight, NEW n \in Nodes, NEW v, DecidedAndKnown(n, v)
  PROVE  /\ NextHeight(n) \in 1 .. Len(decided)
         /\ v \in sent
         /\ HashOf(v) = HashOf(decided[NextHeight(n)])
         /\ v.height = NextHeight(n)
         /\ v.root = decided[NextHeight(n)].root
         /\ UniqueAt(NextHeight(n)) => v.payload = decided[NextHeight(n)].payload
<1>1. NextHeight(n) \in 1 .. Len(decided)
  BY NodeTypes, ChainTypes DEF DecidedAndKnown
<1>2. v \in sent
  BY NodeTypes DEF DecidedAndKnown
<1>3. HashOf(v) = HashOf(decided[NextHeight(n)])
  BY DEF DecidedAndKnown
<1>4. /\ v.height = decided[NextHeight(n)].height
      /\ v.root = decided[NextHeight(n)].root
  BY <1>3 DEF HashOf
<1>. QED BY <1>1, <1>2, <1>3, <1>4 DEF DecidedByHeight, UniqueAt

\* What a peer serves was broadcast.
LEMMA SyncedIsSent ==
  ASSUME TypeOK, NEW n \in Nodes, NEW m \in Nodes, SyncValue(n, m)
  PROVE  \E v \in sent : AddProposedValue(n, v)
<1>1. NextHeight(n) \in 1 .. Len(chunks[m])
  BY NodeTypes DEF SyncValue, Confirmed
<1>2. chunks[m][NextHeight(n)] \in sent
  BY <1>1, NodeTypes
<1>. QED BY <1>2 DEF SyncValue

LEMMA TypesNext ==
  ASSUME Types, DecidedByHeight, [Next]_vars
  PROVE  Types'
<1>1. CASE UNCHANGED vars
  BY <1>1 DEF Types, TypeOK, RoundInBounds, NextHeight, Confirmed,
              vars, disk, memory, external, failures
<1>2. ASSUME NEW n \in Nodes, NEW r \in Rounds(n), StartRound(n, r)
      PROVE  Types'
  <2>1. NextHeight(n) <= MaxHeight /\ r \in Nat
    BY ChainAssumption DEF Rounds
  <2>2. TypeOK'
    BY <1>2, <2>1 DEF StartRound, Types, TypeOK, disk, external, failures
  <2>3. RoundInBounds'
    BY <1>2, <2>1 DEF StartRound, Types, TypeOK, RoundInBounds, NextHeight, Confirmed, disk
  <2>. QED BY <2>2, <2>3 DEF Types
<1>3. CASE \E n \in Nodes, p \in Payloads, t \in Times : ProposeFresh(n, p, t)
  BY <1>3, ProposeFreshType
<1>4. ASSUME NEW n \in Nodes, NEW v \in stored[n], ProposeStored(n, v)
      PROVE  Types'
  <2>1. sent' = sent
    BY <1>4, NodeTypes DEF ProposeStored, Types
  <2>. QED BY <1>4, <2>1 DEF ProposeStored, Types, TypeOK, RoundInBounds, NextHeight, Confirmed,
                             disk, memory, failures
<1>5. CASE \E n \in Nodes, v \in sent : AddProposedValue(n, v)
  BY <1>5, AddProposedValueType
<1>6. CASE \E v \in sent : ConsensusDecides(v)
  BY <1>6, ConsensusDecidesType
<1>7. CASE \E n \in Nodes : \E v \in proposed[n] : Decide(n, v)
  BY <1>7, DecideType
<1>8. ASSUME NEW n \in Nodes, DecideUnknown(n)
      PROVE  Types'
  BY <1>8 DEF DecideUnknown, Types, TypeOK, RoundInBounds, NextHeight, Confirmed, disk, external,
              failures
<1>9. ASSUME NEW n \in Nodes, Crash(n)
      PROVE  Types'
  <2>1. TypeOK'
    BY <1>9, CrashType DEF Crash, Types, TypeOK, disk, external
  <2>2. RoundInBounds'
    BY <1>9, CrashType DEF Crash, Types, RoundInBounds, NextHeight, Confirmed, disk
  <2>. QED BY <2>1, <2>2 DEF Types
<1>10. ASSUME NEW n \in Nodes, NEW v \in proposed[n], CrashAfterState(n, v)
       PROVE  Types'
  <2>1. v.height \in 1 .. Len(decided)
    BY <1>10, KnownIsDecided DEF CrashAfterState, Types
  <2>. QED BY <1>10, <2>1, CrashAfterStateType
<1>11. CASE \E n \in Nodes : \E v \in proposed[n] : CrashAfterChunk(n, v)
  BY <1>11, CrashAfterChunkType
<1>12. (\E n, m \in Nodes : SyncValue(n, m)) => \E n \in Nodes, v \in sent : AddProposedValue(n, v)
  BY SyncedIsSent DEF Types
<1>. QED BY <1>1, <1>2, <1>3, <1>4, <1>5, <1>6, <1>7, <1>8, <1>9, <1>10, <1>11, <1>12
         DEF Next, ReceivedProposalPart

-------------------------------------------------------------------------------
\* What is broadcast and stored

\* Once other transactions were proposed under a decided hash, or a torn chunk did not
\* replay, it stays so: what is sound after a step was sound before it.
SoundGrew == \A h \in 0 .. Len(decided) : SoundUpTo(h)' => SoundUpTo(h)

LEMMA SoundBelow ==
  ASSUME NEW g \in Nat, NEW h \in Nat, g <= h, SoundUpTo(h)
  PROVE  SoundUpTo(g)
<1>1. \A k \in 1 .. g : k \in 1 .. h
  OBVIOUS
<1>. QED BY <1>1, Zenon DEF SoundUpTo

LEMMA SoundBefore ==
  ASSUME TypeOK,
         sent \subseteq sent', torn \subseteq torn',
         \A h \in 1 .. Len(decided) : decided'[h] = decided[h] /\ canon'[h] = canon[h]
  PROVE  SoundGrew
<1>1. \A k \in 1 .. Len(decided) : UniqueAt(k)' => UniqueAt(k)
  BY DEF UniqueAt
<1>2. \A k \in 1 .. Len(decided) : ReplaysAt(k)' => ReplaysAt(k)
  BY DEF ReplaysAt
<1>3. Len(decided) \in Nat
  BY ChainTypes
<1>. SUFFICES ASSUME NEW h \in 0 .. Len(decided), SoundUpTo(h)', NEW k \in 1 .. h
              PROVE  UniqueAt(k) /\ ((\E n \in Nodes : <<n, k>> \in torn) => ReplaysAt(k))
  BY DEF SoundGrew, SoundUpTo
<1>4. k \in 1 .. Len(decided)
  BY <1>3
<1>5. UniqueAt(k)' /\ ((\E n \in Nodes : <<n, k>> \in torn') => ReplaysAt(k)')
  BY Zenon DEF SoundUpTo
<1>. QED BY <1>1, <1>2, <1>4, <1>5, Zenon

\* A new value goes through propose_value, which found no stored one for its round.
LEMMA FreshIsNew ==
  ASSUME ChainInv, NEW n \in Nodes, NEW p \in Payloads, NEW t \in Times, ProposeFresh(n, p, t),
         NEW w \in sent
  PROVE  <<w.height, w.round>> # <<NewValue(n, p, t).height, NewValue(n, p, t).round>>
<1>1. PICK m \in Nodes : /\ m = ProposerOf(w.height, w.round)
                         /\ w \in stored[m] \/ w.height <= Confirmed(m)
  BY DEF ChainInv, Chained, SentAreStored
<1>2. /\ NewValue(n, p, t).height = NextHeight(n)
      /\ NewValue(n, p, t).round = round[n]
  BY DEF NewValue
<1>3. SUFFICES ASSUME w.height = NextHeight(n), w.round = round[n]
               PROVE  FALSE
  BY <1>2
<1>4. m = n
  BY <1>1, <1>3 DEF ProposeFresh
<1>5. w \notin stored[n]
  BY <1>2, <1>3 DEF ProposeFresh
<1>6. ~(w.height <= Confirmed(n))
  BY <1>3, NodeTypes DEF ChainInv, Types
<1>. QED BY <1>1, <1>4, <1>5, <1>6

\* A chunk keeps the decided hash, and the decided transactions as long as they are alone
\* under it, when more is broadcast.
LEMMA ChunksStayDecided ==
  ASSUME ChunksAreDecided, UNCHANGED <<chunks, decided>>, sent \subseteq sent'
  PROVE  ChunksAreDecided'
<1>1. \A h \in 1 .. Len(decided) : UniqueAt(h)' => UniqueAt(h)
  BY DEF UniqueAt
<1>2. \A n \in Nodes : Confirmed(n)' = Confirmed(n)
  BY DEF Confirmed
<1>. QED BY <1>1, <1>2 DEF ChunksAreDecided, Confirmed

\* A node that forgets or learns values leaves the rest as it is.
LEMMA ChainedUnchanged ==
  ASSUME ChainInv, UNCHANGED <<chunks, stored, sent, decided, torn>>, valid \subseteq valid'
  PROVE  Chained'
<1>. USE DEF ChainInv, Chained
<1>1. StoredAreValid'
  BY Zenon DEF StoredAreValid
<1>2. SentAreStored'
  BY DEF SentAreStored, Confirmed
<1>3. NoEquivocation' /\ DecidedByHeight' /\ TornIsPast'
  BY DEF NoEquivocation, DecidedByHeight, TornIsPast, NextHeight, Confirmed
<1>4. ChunksAreDecided'
  BY ChunksStayDecided
<1>. QED BY <1>1, <1>2, <1>3, <1>4

LEMMA ChainedProposeFresh ==
  ASSUME ChainInv, NEW n \in Nodes, NEW p \in Payloads, NEW t \in Times, ProposeFresh(n, p, t)
  PROVE  Chained'
<1>. DEFINE v == NewValue(n, p, t)
<1>1. /\ sent' = sent \cup {v} /\ valid' = valid \cup {<<n, v>>}
      /\ stored' = [stored EXCEPT ![n] = @ \cup {v}]
      /\ UNCHANGED <<chunks, decided, torn>>
  BY DEF ProposeFresh, failures
<1>2. n = ProposerOf(v.height, v.round)
  BY DEF ProposeFresh, NewValue
<1>3. \A w \in sent : <<w.height, w.round>> # <<v.height, v.round>>
  BY FreshIsNew
<1>. HIDE DEF v
<1>4. StoredAreValid'
  BY <1>1, Zenon DEF ChainInv, Types, TypeOK, Chained, StoredAreValid
<1>5. SentAreStored'
  <2>1. v \in stored'[n]
    BY <1>1 DEF ChainInv, Types, TypeOK
  <2>2. \A m \in Nodes : stored[m] \subseteq stored'[m] /\ Confirmed(m)' = Confirmed(m)
    BY <1>1 DEF ChainInv, Types, TypeOK, Confirmed
  <2>. QED BY <1>1, <1>2, <2>1, <2>2 DEF ChainInv, Chained, SentAreStored
<1>6. NoEquivocation'
  BY <1>1, <1>3 DEF ChainInv, Chained, NoEquivocation
<1>7. DecidedByHeight' /\ TornIsPast'
  BY <1>1 DEF ChainInv, Chained, DecidedByHeight, TornIsPast, NextHeight, Confirmed
<1>8. ChunksAreDecided'
  BY <1>1, ChunksStayDecided DEF ChainInv, Chained
<1>. QED BY <1>4, <1>5, <1>6, <1>7, <1>8 DEF Chained

\* What deciding one more value adds.
LEMMA OneMoreDecided ==
  ASSUME Types, NEW v \in sent, ConsensusDecides(v)
  PROVE  /\ Len(decided) \in Nat
         /\ Len(decided') = Len(decided) + 1
         /\ decided'[Len(decided) + 1] = v
         /\ canon'[Len(decided) + 1] = Exec(CanonAt(Len(decided)), v.payload)
         /\ \A h \in 1 .. Len(decided) : decided'[h] = decided[h] /\ canon'[h] = canon[h]
         /\ v.height = Len(decided) + 1
<1>1. CanonAt(Len(canon)) \in States /\ v.payload \in Payloads
  <2>1. Len(canon) \in 0 .. Len(decided)
    BY ChainTypes DEF Types
  <2>. QED BY <2>1, CanonType, ChainTypes DEF Types
<1>2. Exec(CanonAt(Len(canon)), v.payload) \in States
  BY <1>1, ExecType
<1>. QED BY <1>2, AppendType, ChainTypes DEF ConsensusDecides, Types

LEMMA ChainedConsensusDecides ==
  ASSUME ChainInv, NEW v \in sent, ConsensusDecides(v)
  PROVE  Chained'
<1>1. /\ Len(decided) \in Nat
      /\ Len(decided') = Len(decided) + 1
      /\ decided'[Len(decided) + 1] = v
      /\ \A h \in 1 .. Len(decided) : decided'[h] = decided[h]
      /\ v.height = Len(decided) + 1
  BY OneMoreDecided DEF ChainInv
<1>2. UNCHANGED <<chunks, stored, sent, valid, torn>>
  BY DEF ConsensusDecides, disk, failures
<1>3. StoredAreValid' /\ NoEquivocation' /\ TornIsPast'
  BY <1>2 DEF ChainInv, Chained, StoredAreValid, NoEquivocation, TornIsPast, NextHeight, Confirmed
<1>4. SentAreStored'
  BY <1>2 DEF ChainInv, Chained, SentAreStored, Confirmed
<1>5. DecidedByHeight'
  BY <1>1 DEF ChainInv, Chained, DecidedByHeight
<1>6. ChunksAreDecided'
  <2>1. \A n \in Nodes : /\ Confirmed(n)' = Confirmed(n) /\ Confirmed(n) \in Nat
                         /\ Confirmed(n) <= Len(decided)
    BY <1>2, NodeTypes DEF ChainInv, Types, Chained, ChunksAreDecided, Confirmed
  <2>2. \A h \in 1 .. Len(decided) : UniqueAt(h)' => UniqueAt(h)
    BY <1>1, <1>2 DEF UniqueAt
  <2>. SUFFICES ASSUME NEW n \in Nodes
                PROVE  /\ Confirmed(n) <= Len(decided')
                       /\ \A h \in 1 .. Confirmed(n) :
                            /\ HashOf(chunks[n][h]) = HashOf(decided'[h])
                            /\ UniqueAt(h)' => chunks[n][h].payload = decided'[h].payload
    BY <1>2, <2>1, Zenon DEF ChunksAreDecided
  <2>3. \A h \in 1 .. Confirmed(n) : h \in 1 .. Len(decided)
    BY <1>1, <2>1
  <2>4. Confirmed(n) <= Len(decided')
    BY <1>1, <2>1
  <2>5. \A h \in 1 .. Confirmed(n) :
            /\ HashOf(chunks[n][h]) = HashOf(decided[h])
            /\ UniqueAt(h) => chunks[n][h].payload = decided[h].payload
    BY DEF ChainInv, Chained, ChunksAreDecided
  <2>. QED BY <1>1, <2>2, <2>3, <2>4, <2>5, Zenon
<1>. QED BY <1>3, <1>4, <1>5, <1>6 DEF Chained

\* Storing the decided chunk of the next height: what Decide and a crash before
\* delete_proposals have in common.
LEMMA ChunkIsNext ==
  ASSUME TypeOK, NEW n \in Nodes, NEW v \in sent,
         chunks' = [chunks EXCEPT ![n] = Append(@, v)]
  PROVE  /\ Confirmed(n)' = NextHeight(n)
         /\ chunks'[n][NextHeight(n)] = v
         /\ \A h \in 1 .. Confirmed(n) : chunks'[n][h] = chunks[n][h]
         /\ Confirmed(n) \in Nat /\ NextHeight(n) = Confirmed(n) + 1
         /\ \A m \in Nodes \ {n} : chunks'[m] = chunks[m] /\ Confirmed(m)' = Confirmed(m)
<1>1. chunks'[n] = Append(chunks[n], v) /\ \A m \in Nodes \ {n} : chunks'[m] = chunks[m]
  BY DEF TypeOK
<1>. QED BY <1>1, AppendType, NodeTypes DEF Confirmed, NextHeight

LEMMA ChainedStoreChunk ==
  ASSUME ChainInv, NEW n \in Nodes, NEW v, DecidedAndKnown(n, v),
         chunks' = [chunks EXCEPT ![n] = Append(@, v)],
         \/ stored' = stored
         \/ stored' = [stored EXCEPT ![n] = {w \in @ : w.height # v.height}],
         UNCHANGED <<external, torn>>
  PROVE  Chained'
<1>1. /\ NextHeight(n) \in 1 .. Len(decided) /\ v \in sent
      /\ HashOf(v) = HashOf(decided[NextHeight(n)]) /\ v.height = NextHeight(n)
      /\ UniqueAt(NextHeight(n)) => v.payload = decided[NextHeight(n)].payload
  BY KnownIsDecided DEF ChainInv, Types, Chained
<1>2. /\ stored \in [Nodes -> SUBSET sent] /\ Len(decided) \in Nat
  BY DEF ChainInv, Types, TypeOK
<1>3. /\ Confirmed(n)' = NextHeight(n)
      /\ chunks'[n][NextHeight(n)] = v
      /\ \A h \in 1 .. Confirmed(n) : chunks'[n][h] = chunks[n][h]
      /\ Confirmed(n) \in Nat /\ NextHeight(n) = Confirmed(n) + 1
      /\ \A m \in Nodes \ {n} : chunks'[m] = chunks[m] /\ Confirmed(m)' = Confirmed(m)
  BY <1>1, ChunkIsNext, Zenon DEF ChainInv, Types
<1>4. \A m \in Nodes \ {n} : stored'[m] = stored[m]
  BY <1>2
<1>5. UNCHANGED <<decided, sent, valid, torn>>
  BY DEF external
<1>6. SentAreStored'
  <2>. SUFFICES ASSUME NEW w \in sent, NEW m \in Nodes,
                       m = ProposerOf(w.height, w.round),
                       w \in stored[m] \/ w.height <= Confirmed(m)
                PROVE  w \in stored'[m] \/ w.height <= Confirmed(m)'
    BY <1>5 DEF ChainInv, Chained, SentAreStored
  <2>1. w.height \in Nat
    BY ChainTypes DEF ChainInv, Types
  <2>2. CASE m # n
    BY <2>2, <1>3, <1>4
  <2>3. CASE m = n
    <3>1. CASE w \in stored[n] /\ w.height # v.height
      BY <2>3, <3>1, <1>2
    <3>2. CASE w.height = v.height
      BY <2>3, <3>2, <1>1, <1>3
    <3>3. CASE w.height <= Confirmed(n)
      BY <2>1, <2>3, <3>3, <1>3
    <3>. QED BY <2>3, <3>1, <3>2, <3>3
  <2>. QED BY <2>2, <2>3
<1>7. NoEquivocation' /\ DecidedByHeight'
  BY <1>5 DEF ChainInv, Chained, NoEquivocation, DecidedByHeight
<1>8. ChunksAreDecided'
  <2>1. \A h : UniqueAt(h)' <=> UniqueAt(h)
    BY <1>5 DEF UniqueAt
  <2>. SUFFICES ASSUME NEW m \in Nodes
                PROVE  /\ Confirmed(m)' <= Len(decided)
                       /\ \A h \in 1 .. Confirmed(m)' :
                            /\ HashOf(chunks'[m][h]) = HashOf(decided[h])
                            /\ UniqueAt(h) => chunks'[m][h].payload = decided[h].payload
    BY <1>5, <2>1, Zenon DEF ChunksAreDecided
  <2>2. CASE m # n
    BY <2>2, <1>3 DEF ChainInv, Chained, ChunksAreDecided
  <2>3. CASE m = n
    <3>1. Confirmed(n)' <= Len(decided)
      BY <1>1, <1>2, <1>3
    <3>2. \A h \in 1 .. Confirmed(n) :
            /\ HashOf(chunks'[n][h]) = HashOf(decided[h])
            /\ UniqueAt(h) => chunks'[n][h].payload = decided[h].payload
      BY <1>3, Zenon DEF ChainInv, Chained, ChunksAreDecided
    <3>3. \A h \in 1 .. Confirmed(n)' : h \in 1 .. Confirmed(n) \/ h = NextHeight(n)
      BY <1>3
    <3>. QED BY <2>3, <3>1, <3>2, <3>3, <1>1, <1>3, Zenon
  <2>. QED BY <2>2, <2>3, Zenon
<1>9. StoredAreValid'
  <2>1. \A m \in Nodes : stored'[m] \subseteq stored[m]
    BY <1>2, <1>4
  <2>. QED BY <1>5, <2>1, Zenon DEF ChainInv, Chained, StoredAreValid
<1>10. TornIsPast'
  <2>1. \A m \in Nodes : NextHeight(m) <= NextHeight(m)' /\ NextHeight(m)' \in Nat /\ NextHeight(m) \in Nat
    BY <1>3, NodeTypes DEF ChainInv, Types, NextHeight
  <2>. QED BY <1>5, <2>1 DEF ChainInv, Chained, TornIsPast
<1>. QED BY <1>6, <1>7, <1>8, <1>9, <1>10 DEF Chained

LEMMA ChainInvInit == Init => ChainInv
<1>. SUFFICES ASSUME Init PROVE ChainInv
  OBVIOUS
<1>1. Types
  BY TypesInit
<1>2. decided = <<>> /\ Len(decided) = 0 /\ sent = {} /\ valid = {} /\ torn = {}
  BY DEF Init
<1>3. /\ StoredAreValid /\ SentAreStored /\ NoEquivocation /\ DecidedByHeight /\ TornIsPast
  BY <1>2 DEF Init, StoredAreValid, SentAreStored, NoEquivocation, DecidedByHeight, TornIsPast
<1>4. ChunksAreDecided
  BY <1>2 DEF Init, Confirmed, ChunksAreDecided
<1>. QED BY <1>1, <1>3, <1>4 DEF ChainInv, Chained

LEMMA ChainInvNext == ChainInv /\ [Next]_vars => ChainInv'
<1>. SUFFICES ASSUME ChainInv, [Next]_vars
              PROVE  ChainInv'
  OBVIOUS
<1>0. Types /\ TypeOK /\ DecidedByHeight
  BY DEF ChainInv, Types, Chained
<1>1. Types'
  BY <1>0, TypesNext, Zenon
<1>2. Chained'
  <2>1. CASE UNCHANGED vars
    BY <2>1, ChainedUnchanged DEF vars, disk, external, failures
  <2>2. CASE \E n \in Nodes : \E r \in Rounds(n) : StartRound(n, r)
    BY <2>2, ChainedUnchanged DEF StartRound, disk, external, failures
  <2>3. CASE \E n \in Nodes, p \in Payloads, t \in Times : ProposeFresh(n, p, t)
    BY <2>3, ChainedProposeFresh
  <2>4. ASSUME NEW n \in Nodes, NEW v \in stored[n], ProposeStored(n, v)
        PROVE  Chained'
    <3>1. v \in sent
      BY <1>0, NodeTypes
    <3>2. UNCHANGED <<chunks, stored, sent, decided, torn>> /\ valid \subseteq valid'
      BY <2>4, <3>1 DEF ProposeStored, disk, failures
    <3>. QED BY <3>2, ChainedUnchanged
  <2>5. CASE \E n \in Nodes, v \in sent : AddProposedValue(n, v)
    BY <2>5, ChainedUnchanged DEF AddProposedValue, disk, failures
  <2>6. CASE \E v \in sent : ConsensusDecides(v)
    BY <2>6, ChainedConsensusDecides
  <2>7. CASE \E n \in Nodes : \E v \in proposed[n] : Decide(n, v)
    BY <2>7, ChainedStoreChunk, Zenon DEF Decide, failures
  <2>8. CASE \E n \in Nodes : DecideUnknown(n)
    BY <2>8, ChainedUnchanged DEF DecideUnknown, disk, external, failures
  <2>9. CASE \E n \in Nodes : Crash(n)
    BY <2>9, ChainedUnchanged DEF Crash, disk, external
  <2>10. ASSUME NEW n \in Nodes, NEW v \in proposed[n], CrashAfterState(n, v)
         PROVE  Chained'
    <3>1. UNCHANGED <<chunks, stored, sent, decided, valid>> /\ torn' = torn \cup {<<n, v.height>>}
      BY <2>10 DEF CrashAfterState, external
    <3>2. v.height = NextHeight(n)
      BY <1>0, <2>10, KnownIsDecided DEF CrashAfterState
    <3>3. StoredAreValid' /\ SentAreStored' /\ NoEquivocation' /\ DecidedByHeight'
      BY <3>1 DEF ChainInv, Chained, StoredAreValid, SentAreStored, NoEquivocation, DecidedByHeight,
                  Confirmed
    <3>4. ChunksAreDecided'
      BY <3>1, ChunksStayDecided DEF ChainInv, Chained
    <3>5. TornIsPast'
      BY <1>0, <3>1, <3>2, NodeTypes DEF ChainInv, Chained, TornIsPast, NextHeight, Confirmed
    <3>. QED BY <3>3, <3>4, <3>5 DEF Chained
  <2>11. CASE \E n \in Nodes : \E v \in proposed[n] : CrashAfterChunk(n, v)
    BY <2>11, ChainedStoreChunk, Zenon DEF CrashAfterChunk
  <2>12. (\E n, m \in Nodes : SyncValue(n, m)) => \E n \in Nodes, v \in sent : AddProposedValue(n, v)
    BY <1>0, SyncedIsSent
  <2>. QED BY <2>1, <2>2, <2>3, <2>4, <2>5, <2>6, <2>7, <2>8, <2>9, <2>10, <2>11, <2>12
           DEF Next, ReceivedProposalPart
<1>. QED BY <1>1, <1>2 DEF ChainInv

-------------------------------------------------------------------------------
\* What is executed

LEMMA ReachedType ==
  ASSUME ChainInv, NEW n \in Nodes
  PROVE  /\ Reached(n) \in 0 .. Len(decided)
         /\ Confirmed(n) \in 0 .. Len(decided)
         /\ Reached(n) = Confirmed(n) \/ (Reached(n) = NextHeight(n) /\ <<n, NextHeight(n)>> \in torn)
         /\ Confirmed(n) = Len(decided) => Reached(n) = Confirmed(n)
<1>1. Confirmed(n) \in Nat /\ Len(decided) \in Nat /\ NextHeight(n) = Confirmed(n) + 1
  BY NodeTypes, ChainTypes DEF ChainInv, Types
<1>2. Confirmed(n) <= Len(decided)
  BY DEF ChainInv, Chained, ChunksAreDecided
<1>3. <<n, NextHeight(n)>> \in torn => NextHeight(n) \in 1 .. Len(decided)
  BY DEF ChainInv, Types, TypeOK
<1>. QED BY <1>1, <1>2, <1>3 DEF Reached

\* As long as nothing went wrong, replaying the next decided chunk leads to the state
\* after it on every node, torn or not.
LEMMA ReplayIsCanon ==
  ASSUME ChainInv, Executed, NEW n \in Nodes, NextHeight(n) \in 1 .. Len(decided),
         SoundUpTo(Reached(n))
  PROVE  /\ Exec(db[n], decided[NextHeight(n)].payload) = canon[NextHeight(n)]
         /\ decided[NextHeight(n)].root = RootOf(canon[NextHeight(n)])
<1>. DEFINE h == NextHeight(n)
<1>1. h = Confirmed(n) + 1 /\ Confirmed(n) \in Nat /\ h - 1 = Confirmed(n)
  BY NodeTypes DEF ChainInv, Types
<1>2. db[n] = CanonAt(Reached(n))
  BY DEF Executed, StateIsExecution
<1>3. Reached(n) = Confirmed(n) \/ (Reached(n) = h /\ <<n, h>> \in torn)
  BY ReachedType
<1>4. SoundUpTo(Confirmed(n))
  BY <1>1, <1>3, SoundBelow
<1>5. canon[h] = Exec(CanonAt(Confirmed(n)), decided[h].payload) /\ decided[h].root = RootOf(canon[h])
  <2>1. /\ canon[h] = Exec(CanonAt(h - 1), decided[h].payload)
        /\ SoundUpTo(h - 1) => decided[h].root = RootOf(canon[h])
    BY DEF Executed, CanonIsExecution
  <2>. QED BY <1>1, <1>4, <2>1
<1>6. CASE Reached(n) = Confirmed(n)
  BY <1>2, <1>5, <1>6
<1>7. CASE Reached(n) = h /\ <<n, h>> \in torn
  <2>1. ReplaysAt(h)
    BY <1>1, <1>7 DEF SoundUpTo
  <2>2. db[n] = canon[h]
    BY <1>1, <1>2, <1>7 DEF CanonAt
  <2>. QED BY <1>5, <2>1, <2>2 DEF ReplaysAt
<1>. QED BY <1>3, <1>6, <1>7

\* Whatever a node commits for the decided value, the cache or a replay, it is the state
\* after it, as long as nothing went wrong up to it.
LEMMA CommitIsCanon ==
  ASSUME IInv, NEW n \in Nodes, NEW v, DecidedAndKnown(n, v), SoundUpTo(NextHeight(n))
  PROVE  ToCommit(n, v).state = canon[NextHeight(n)]
<1>. DEFINE h == NextHeight(n)
<1>0. ChainInv /\ Executed /\ CacheIsFresh /\ TypeOK /\ DecidedByHeight
  BY DEF IInv, ChainInv, Types, Chained
<1>1. /\ h \in 1 .. Len(decided) /\ v \in sent
      /\ v.root = decided[h].root
      /\ UniqueAt(h) => v.payload = decided[h].payload
  BY <1>0, KnownIsDecided
<1>2. SoundUpTo(Reached(n)) /\ UniqueAt(h)
  <2>1. h = Confirmed(n) + 1 /\ Confirmed(n) \in Nat
    BY <1>0, NodeTypes
  <2>2. Reached(n) = Confirmed(n) \/ Reached(n) = h
    BY <1>0, ReachedType, Zenon
  <2>3. SoundUpTo(Reached(n))
    BY <2>1, <2>2, SoundBelow
  <2>. QED BY <1>1, <2>3 DEF SoundUpTo
<1>3. Exec(db[n], v.payload) = canon[h] /\ v.root = RootOf(canon[h])
  BY <1>0, <1>1, <1>2, ReplayIsCanon
<1>4. db[n] \in States /\ v.payload \in Payloads
  BY <1>0, <1>1, NodeTypes, ChainTypes
<1>5. CASE CacheValid(n, v)
  <2>1. PICK p \in Payloads : pending[n] = Cached(db[n], p)
    BY <1>0, <1>5 DEF CacheIsFresh, CacheValid, DecidedAndKnown
  <2>2. /\ Cached(db[n], p).root = RootOf(Exec(db[n], p))
        /\ Cached(db[n], p).blockEvents = BlockEventsOf(p)
        /\ Cached(db[n], p).state = Exec(db[n], p)
    BY <1>4, CachedType
  <2>3. /\ RootOf(Exec(db[n], p)) = RootOf(Exec(db[n], v.payload))
        /\ BlockEventsOf(p) = BlockEventsOf(v.payload)
    BY <1>3, <1>5, <2>1, <2>2 DEF CacheValid
  <2>4. Exec(db[n], p) = Exec(db[n], v.payload)
    BY <1>4, <2>3, RootDetermines
  <2>. QED BY <1>3, <1>5, <2>1, <2>2, <2>4 DEF ToCommit
<1>6. CASE ~CacheValid(n, v)
  BY <1>3, <1>4, <1>6, CachedType DEF ToCommit
<1>. QED BY <1>5, <1>6

\* A step that leaves the states, the chunks and what is decided and torn alone.
LEMMA ExecutedKept ==
  ASSUME ChainInv, Executed, sent \subseteq sent',
         UNCHANGED <<db, chunks, decided, canon, torn>>
  PROVE  /\ SoundGrew
         /\ CanonIsExecution'
         /\ StateIsExecution'
<1>1. SoundGrew
  BY SoundBefore DEF ChainInv, Types
<1>2. \A h : CanonAt(h)' = CanonAt(h) /\ RootAt(h)' = RootAt(h)
  BY DEF CanonAt, RootAt
<1>3. \A n \in Nodes : Reached(n)' = Reached(n)
  BY DEF Reached, NextHeight, Confirmed
<1>4. Len(decided) \in Nat
  BY ChainTypes DEF ChainInv, Types
<1>5. CanonIsExecution'
  <2>. SUFFICES ASSUME NEW h \in 1 .. Len(decided), SoundUpTo(h - 1)'
                PROVE  decided[h].root = RootOf(canon[h])
    BY <1>2 DEF Executed, CanonIsExecution
  <2>1. h - 1 \in 0 .. Len(decided)
    BY <1>4
  <2>2. SoundUpTo(h - 1)
    BY <1>1, <2>1 DEF SoundGrew
  <2>. QED BY <2>2 DEF Executed, CanonIsExecution
<1>6. StateIsExecution'
  <2>. SUFFICES ASSUME NEW n \in Nodes
                PROVE  /\ RootOf(db[n]) = RootAt(Reached(n))
                       /\ SoundUpTo(Reached(n))' => db[n] = CanonAt(Reached(n))
    <3>1. \A n \in Nodes : RootAt(Reached(n))' = RootAt(Reached(n)) /\ CanonAt(Reached(n))' = CanonAt(Reached(n))
      BY <1>3 DEF RootAt, CanonAt
    <3>. QED BY <3>1 DEF StateIsExecution
  <2>1. Reached(n) \in 0 .. Len(decided) /\ Reached(n)' = Reached(n)
    BY <1>3, ReachedType, Zenon
  <2>2. SoundUpTo(Reached(n))' => SoundUpTo(Reached(n))
    <3>1. PICK h \in 0 .. Len(decided) : h = Reached(n) /\ h = Reached(n)'
      BY <2>1
    <3>2. SoundUpTo(Reached(n))' => SoundUpTo(h)'
      BY <3>1, Zenon DEF SoundUpTo
    <3>. QED BY <1>1, <3>1, <3>2 DEF SoundGrew
  <2>. QED BY <2>2 DEF Executed, StateIsExecution
<1>. QED BY <1>1, <1>5, <1>6

\* What a node executes on its committed state, at the first undecided height, it
\* executes on the state after the last decided chunk.
LEMMA ValidStep ==
  ASSUME ChainInv, Executed, SoundGrew, UNCHANGED <<decided, canon>>,
         NEW n \in Nodes, NEW v, valid' \subseteq valid \cup {<<n, v>>},
         <<n, v>> \in valid \/ <<n, v>> \notin valid' \/
           (v.height = NextHeight(n) /\ v.root = RootOf(Exec(db[n], v.payload)))
  PROVE  ValidAreExecuted'
<1>. DEFINE h == Len(decided)
<1>1. h \in Nat /\ NextHeight(n) = Confirmed(n) + 1 /\ Confirmed(n) \in 0 .. h
  BY NodeTypes, ChainTypes, ReachedType, Zenon DEF ChainInv, Types
<1>2. Confirmed(n) = h /\ SoundUpTo(h) => db[n] = CanonAt(h)
  BY ReachedType, Zenon DEF Executed, StateIsExecution
<1>3. SoundUpTo(h)' => SoundUpTo(h)
  BY <1>1 DEF SoundGrew
<1>4. CanonAt(h)' = CanonAt(h)
  BY DEF CanonAt
<1>. SUFFICES ASSUME NEW e \in valid'
              PROVE  /\ e[2].height <= h + 1
                     /\ e[2].height = h + 1 /\ SoundUpTo(h)' =>
                          e[2].root = RootOf(Exec(CanonAt(h), e[2].payload))
  <2>1. Len(decided)' = h
    OBVIOUS
  <2>. QED BY <1>4, <2>1, Zenon DEF ValidAreExecuted
<1>5. CASE e \in valid
  BY <1>3, <1>5 DEF Executed, ValidAreExecuted
<1>6. CASE e = <<n, v>> /\ v.height = NextHeight(n) /\ v.root = RootOf(Exec(db[n], v.payload))
  <2>1. e[2] = v
    BY <1>6
  <2>. QED BY <1>1, <1>2, <1>3, <1>6, <2>1
<1>. QED BY <1>5, <1>6

\* A step of one node's memory.
LEMMA ExecutedUnchanged ==
  ASSUME ChainInv, Executed, UNCHANGED <<db, chunks, sent, valid, decided, canon, torn>>
  PROVE  Executed'
<1>1. SoundGrew /\ CanonIsExecution' /\ StateIsExecution'
  BY ExecutedKept
<1>2. ValidAreExecuted'
  <2>1. Len(decided) \in Nat
    BY ChainTypes DEF ChainInv, Types
  <2>2. SoundUpTo(Len(decided))' => SoundUpTo(Len(decided))
    BY <1>1, <2>1 DEF SoundGrew
  <2>3. CanonAt(Len(decided))' = CanonAt(Len(decided))
    BY DEF CanonAt
  <2>. QED BY <2>2, <2>3 DEF Executed, ValidAreExecuted
<1>. QED BY <1>1, <1>2 DEF Executed

LEMMA StepProposeFresh ==
  ASSUME IInv, NEW n \in Nodes, NEW p \in Payloads, NEW t \in Times, ProposeFresh(n, p, t)
  PROVE  Executed' /\ CacheIsFresh'
<1>. DEFINE v == NewValue(n, p, t)
<1>1. /\ sent \subseteq sent' /\ valid' = valid \cup {<<n, v>>}
      /\ UNCHANGED <<db, chunks, decided, canon, torn>>
  BY DEF ProposeFresh, failures
<1>2. SoundGrew /\ CanonIsExecution' /\ StateIsExecution'
  BY <1>1, ExecutedKept DEF IInv
<1>3. v.height = NextHeight(n) /\ v.root = RootOf(Exec(db[n], v.payload))
  BY DEF NewValue
<1>4. ValidAreExecuted'
  <2>. HIDE DEF v
  <2>. QED BY <1>1, <1>2, <1>3, ValidStep, Zenon DEF IInv
<1>5. CacheIsFresh'
  BY DEF IInv, ChainInv, Types, TypeOK, CacheIsFresh, ProposeFresh
<1>. QED BY <1>2, <1>4, <1>5 DEF Executed

LEMMA StepProposeStored ==
  ASSUME IInv, NEW n \in Nodes, NEW v \in stored[n], ProposeStored(n, v)
  PROVE  Executed' /\ CacheIsFresh'
<1>1. <<n, v>> \in valid /\ v \in sent
  BY NodeTypes DEF IInv, ChainInv, Types, Chained, StoredAreValid
<1>2. UNCHANGED <<db, chunks, sent, valid, decided, canon, torn>>
  BY <1>1 DEF ProposeStored, disk, failures
<1>3. Executed'
  BY <1>2, ExecutedUnchanged DEF IInv
<1>4. CacheIsFresh'
  BY Zenon DEF IInv, CacheIsFresh, ProposeStored, disk, memory
<1>. QED BY <1>3, <1>4

LEMMA StepAddProposedValue ==
  ASSUME IInv, NEW n \in Nodes, NEW v \in sent, AddProposedValue(n, v)
  PROVE  Executed' /\ CacheIsFresh'
<1>1. UNCHANGED <<db, chunks, sent, decided, canon, torn, round>>
  BY DEF AddProposedValue, disk, failures
<1>2. SoundGrew /\ CanonIsExecution' /\ StateIsExecution'
  BY <1>1, ExecutedKept DEF IInv
<1>3. ValidAreExecuted'
  <2>1. /\ valid' \subseteq valid \cup {<<n, v>>}
        /\ <<n, v>> \in valid \/ <<n, v>> \notin valid' \/
             (v.height = NextHeight(n) /\ v.root = RootOf(Exec(db[n], v.payload)))
    BY DEF AddProposedValue
  <2>. QED BY <1>1, <1>2, <2>1, ValidStep DEF IInv
<1>4. CacheIsFresh'
  <2>1. v.payload \in Payloads
    BY ChainTypes DEF IInv, ChainInv, Types
  <2>. QED BY <1>1, <2>1 DEF IInv, ChainInv, Types, TypeOK, CacheIsFresh, AddProposedValue
<1>. QED BY <1>2, <1>3, <1>4 DEF Executed

LEMMA StepConsensusDecides ==
  ASSUME IInv, NEW v \in sent, ConsensusDecides(v)
  PROVE  Executed' /\ CacheIsFresh'
<1>. DEFINE d == Len(decided)
<1>0. ChainInv /\ Executed /\ TypeOK /\ Types
  BY DEF IInv, ChainInv, Types
<1>1. /\ d \in Nat /\ Len(decided') = d + 1
      /\ decided'[d + 1] = v
      /\ canon'[d + 1] = Exec(CanonAt(d), v.payload)
      /\ \A h \in 1 .. d : decided'[h] = decided[h] /\ canon'[h] = canon[h]
      /\ v.height = d + 1
  BY <1>0, OneMoreDecided
<1>2. UNCHANGED <<db, chunks, sent, valid, torn, round, pending>>
  BY DEF ConsensusDecides, disk, memory, failures
<1>3. SoundGrew
  BY <1>0, <1>1, <1>2, SoundBefore
<1>4. \A h \in 0 .. d : CanonAt(h)' = CanonAt(h) /\ RootAt(h)' = RootAt(h)
  BY <1>1 DEF CanonAt, RootAt
<1>5. \A e \in valid : e[2].height <= d + 1
  BY <1>0 DEF Executed, ValidAreExecuted
<1>6. SoundUpTo(d) => v.root = RootOf(Exec(CanonAt(d), v.payload))
  <2>1. PICK n \in Nodes : <<n, v>> \in valid
    BY ChainAssumption DEF ConsensusDecides
  <2>. QED BY <1>0, <1>1, <2>1 DEF Executed, ValidAreExecuted
<1>7. ValidAreExecuted'
  <2>1. \A e \in valid : e[2].height \in Nat
    BY <1>0, ChainTypes
  <2>2. \A e \in valid : e[2].height <= (d + 1) + 1 /\ e[2].height # (d + 1) + 1
    BY <1>1, <1>5, <2>1
  <2>. QED BY <1>1, <1>2, <2>2, Zenon DEF ValidAreExecuted
<1>8. CanonIsExecution'
  <2>. SUFFICES ASSUME NEW h \in 1 .. d + 1
                PROVE  /\ canon'[h] = Exec(CanonAt(h - 1)', decided'[h].payload)
                       /\ SoundUpTo(h - 1)' => decided'[h].root = RootOf(canon'[h])
    BY <1>1 DEF CanonIsExecution
  <2>1. h - 1 \in 0 .. d
    BY <1>1
  <2>2. SoundUpTo(h - 1)' => SoundUpTo(h - 1)
    BY <1>3, <2>1 DEF SoundGrew
  <2>3. CanonAt(h - 1)' = CanonAt(h - 1)
    BY <1>4, <2>1
  <2>4. CASE h = d + 1
    <3>1. h - 1 = d
      BY <1>1, <2>4
    <3>. QED BY <1>1, <1>6, <2>2, <2>3, <2>4, <3>1
  <2>5. CASE h \in 1 .. d
    <3>1. /\ canon[h] = Exec(CanonAt(h - 1), decided[h].payload)
          /\ SoundUpTo(h - 1) => decided[h].root = RootOf(canon[h])
      BY <1>0, <2>5 DEF Executed, CanonIsExecution
    <3>. QED BY <1>1, <2>2, <2>3, <2>5, <3>1
  <2>. QED BY <1>1, <2>4, <2>5
<1>9. StateIsExecution'
  <2>. SUFFICES ASSUME NEW n \in Nodes, NEW h \in 0 .. d, h = Reached(n)
                PROVE  /\ RootOf(db[n]) = RootAt(h)'
                       /\ SoundUpTo(h)' => db[n] = CanonAt(h)'
    <3>1. \A n \in Nodes : Reached(n)' = Reached(n)
      BY <1>2 DEF Reached, NextHeight, Confirmed
    <3>2. \A n \in Nodes : Reached(n) \in 0 .. d
      BY <1>0, ReachedType, Zenon
    <3>. QED BY <1>2, <3>1, <3>2 DEF StateIsExecution, RootAt, CanonAt, SoundUpTo
  <2>1. RootOf(db[n]) = RootAt(h) /\ (SoundUpTo(h) => db[n] = CanonAt(h))
    BY <1>0 DEF Executed, StateIsExecution
  <2>2. SoundUpTo(h)' => SoundUpTo(h)
    BY <1>3 DEF SoundGrew
  <2>. QED BY <1>4, <2>1, <2>2
<1>10. CacheIsFresh'
  BY <1>2 DEF IInv, CacheIsFresh
<1>. QED BY <1>7, <1>8, <1>9, <1>10 DEF Executed

\* What a commit of the decided value does to the state: the root is the decided one, and
\* the state is the one after the decided chunk if nothing went wrong up to it.
LEMMA CommitStep ==
  ASSUME IInv, NEW n \in Nodes, NEW v, DecidedAndKnown(n, v), CommitSucceeds(n, v),
         CommitState(n, v), UNCHANGED external, torn \subseteq torn',
         NEW h, h = NextHeight(n)
  PROVE  /\ h \in 1 .. Len(decided)
         /\ RootOf(db'[n]) = decided[h].root
         /\ SoundUpTo(h)' => db'[n] = canon[h]
         /\ \A m \in Nodes \ {n} : db'[m] = db[m]
         /\ SoundGrew
<1>0. TypeOK /\ DecidedByHeight
  BY DEF IInv, ChainInv, Types, Chained
<1>1. h \in 1 .. Len(decided) /\ v \in sent /\ v.root = decided[h].root
  BY <1>0, KnownIsDecided
<1>2. db'[n] = ToCommit(n, v).state /\ \A m \in Nodes \ {n} : db'[m] = db[m]
  BY <1>0 DEF CommitState, TypeOK
<1>3. RootOf(ToCommit(n, v).state) = v.root
  BY <1>0, <1>1, CommitType
<1>4. SoundGrew
  BY <1>0, SoundBefore DEF external
<1>5. SoundUpTo(h)' => SoundUpTo(h)
  <2>1. h \in 0 .. Len(decided)
    BY <1>1
  <2>. QED BY <1>4, <2>1 DEF SoundGrew
<1>6. SoundUpTo(h) => ToCommit(n, v).state = canon[h]
  BY CommitIsCanon
<1>. QED BY <1>1, <1>2, <1>3, <1>4, <1>5, <1>6

LEMMA ExecutedCommit ==
  ASSUME IInv, NEW n \in Nodes, NEW v, DecidedAndKnown(n, v), CommitSucceeds(n, v),
         CommitState(n, v), UNCHANGED external, torn \subseteq torn',
         NEW h, h = NextHeight(n), h = Reached(n)',
         \A m \in Nodes \ {n} : Reached(m)' = Reached(m)
  PROVE  Executed'
<1>0. ChainInv /\ Executed
  BY DEF IInv
<1>1. /\ h \in 1 .. Len(decided)
      /\ RootOf(db'[n]) = decided[h].root
      /\ SoundUpTo(h)' => db'[n] = canon[h]
      /\ \A m \in Nodes \ {n} : db'[m] = db[m]
      /\ SoundGrew
  BY CommitStep, Zenon
<1>2. UNCHANGED <<sent, valid, decided, canon>>
  BY DEF external
<1>3. \A g : CanonAt(g)' = CanonAt(g) /\ RootAt(g)' = RootAt(g)
  BY <1>2 DEF CanonAt, RootAt
<1>4. Len(decided) \in Nat
  BY <1>0, ChainTypes DEF ChainInv, Types
<1>5. ValidAreExecuted'
  <2>1. SoundUpTo(Len(decided))' => SoundUpTo(Len(decided))
    BY <1>1, <1>2, <1>4 DEF SoundGrew
  <2>2. CanonAt(Len(decided))' = CanonAt(Len(decided))
    BY <1>2 DEF CanonAt
  <2>. QED BY <1>0, <1>2, <2>1, <2>2 DEF Executed, ValidAreExecuted
<1>6. CanonIsExecution'
  <2>. SUFFICES ASSUME NEW g \in 1 .. Len(decided), SoundUpTo(g - 1)'
                PROVE  decided[g].root = RootOf(canon[g])
    BY <1>0, <1>2, <1>3 DEF Executed, CanonIsExecution
  <2>1. g - 1 \in 0 .. Len(decided)
    BY <1>4
  <2>2. SoundUpTo(g - 1)
    BY <1>1, <2>1 DEF SoundGrew
  <2>. QED BY <1>0, <2>2 DEF Executed, CanonIsExecution
<1>7. StateIsExecution'
  <2>. SUFFICES ASSUME NEW m \in Nodes, NEW g, g = Reached(m)'
                PROVE  /\ RootOf(db'[m]) = RootAt(g)
                       /\ SoundUpTo(g)' => db'[m] = CanonAt(g)
    BY <1>3 DEF StateIsExecution, RootAt, CanonAt, SoundUpTo
  <2>1. CASE m = n
    <3>1. g = h
      BY <2>1, Zenon
    <3>2. h # 0
      BY <1>1
    <3>3. RootAt(h) = decided[h].root /\ CanonAt(h) = canon[h]
      BY <3>2, Zenon DEF RootAt, CanonAt
    <3>. QED BY <1>1, <2>1, <3>1, <3>3, Zenon
  <2>2. CASE m # n
    <3>1. g = Reached(m) /\ g \in 0 .. Len(decided) /\ db'[m] = db[m]
      BY <1>0, <1>1, <2>2, ReachedType, Zenon
    <3>2. RootOf(db[m]) = RootAt(g) /\ (SoundUpTo(g) => db[m] = CanonAt(g))
      BY <1>0, <3>1 DEF Executed, StateIsExecution
    <3>3. SoundUpTo(g)' => SoundUpTo(g)
      BY <1>1, <3>1, Zenon DEF SoundGrew
    <3>. QED BY <3>1, <3>2, <3>3, Zenon
  <2>. QED BY <2>1, <2>2, Zenon
<1>. QED BY <1>5, <1>6, <1>7, Zenon DEF Executed

\* Where a node is after it stored a chunk.
LEMMA ReachedStore ==
  ASSUME ChainInv, NEW n \in Nodes, NEW v \in sent,
         chunks' = [chunks EXCEPT ![n] = Append(@, v)], UNCHANGED torn
  PROVE  /\ Reached(n)' = NextHeight(n)
         /\ \A m \in Nodes \ {n} : Reached(m)' = Reached(m)
<1>1. /\ Confirmed(n)' = NextHeight(n) /\ NextHeight(n) = Confirmed(n) + 1 /\ Confirmed(n) \in Nat
      /\ \A m \in Nodes \ {n} : Confirmed(m)' = Confirmed(m)
  BY ChunkIsNext, Zenon DEF ChainInv, Types
<1>2. <<n, NextHeight(n) + 1>> \notin torn
  BY <1>1 DEF ChainInv, Chained, TornIsPast
<1>. QED BY <1>1, <1>2 DEF Reached, NextHeight

LEMMA StepDecide ==
  ASSUME IInv, NEW n \in Nodes, NEW v \in proposed[n], Decide(n, v)
  PROVE  Executed' /\ CacheIsFresh'
<1>1. v \in sent
  BY NodeTypes DEF IInv, ChainInv, Types
<1>2. /\ Reached(n)' = NextHeight(n)
      /\ \A m \in Nodes \ {n} : Reached(m)' = Reached(m)
  BY <1>1, ReachedStore, Zenon DEF IInv, Decide, failures
<1>3. Executed'
  BY <1>2, ExecutedCommit, Zenon DEF Decide, failures
<1>4. CacheIsFresh'
  BY Zenon DEF IInv, ChainInv, Types, TypeOK, CacheIsFresh, Decide, CommitState
<1>. QED BY <1>3, <1>4

\* The torn commit: the state moves on, the chunk is not stored.
LEMMA StepCrashAfterState ==
  ASSUME IInv, NEW n \in Nodes, NEW v \in proposed[n], CrashAfterState(n, v)
  PROVE  Executed' /\ CacheIsFresh'
<1>1. v.height = NextHeight(n)
  BY KnownIsDecided, Zenon DEF IInv, ChainInv, Types, Chained, CrashAfterState
<1>2. torn' = torn \cup {<<n, NextHeight(n)>>} /\ chunks' = chunks
  BY <1>1, Zenon DEF CrashAfterState
<1>3. /\ Reached(n)' = NextHeight(n)
      /\ \A m \in Nodes \ {n} : Reached(m)' = Reached(m)
  BY <1>2 DEF Reached, NextHeight, Confirmed
<1>4. Executed'
  BY <1>2, <1>3, ExecutedCommit, Zenon DEF CrashAfterState
<1>5. CacheIsFresh'
  BY Zenon DEF IInv, ChainInv, Types, TypeOK, CacheIsFresh, CrashAfterState, LoseMemory, CommitState
<1>. QED BY <1>4, <1>5

LEMMA StepCrashAfterChunk ==
  ASSUME IInv, NEW n \in Nodes, NEW v \in proposed[n], CrashAfterChunk(n, v)
  PROVE  Executed' /\ CacheIsFresh'
<1>1. v \in sent
  BY NodeTypes DEF IInv, ChainInv, Types
<1>2. /\ Reached(n)' = NextHeight(n)
      /\ \A m \in Nodes \ {n} : Reached(m)' = Reached(m)
  BY <1>1, ReachedStore, Zenon DEF IInv, CrashAfterChunk
<1>3. Executed'
  BY <1>2, ExecutedCommit, Zenon DEF CrashAfterChunk
<1>4. CacheIsFresh'
  BY Zenon DEF IInv, ChainInv, Types, TypeOK, CacheIsFresh, CrashAfterChunk, LoseMemory, CommitState
<1>. QED BY <1>3, <1>4

LEMMA IInvInit == Init => IInv
<1>. SUFFICES ASSUME Init PROVE IInv
  OBVIOUS
<1>1. ChainInv
  BY ChainInvInit
<1>2. decided = <<>> /\ Len(decided) = 0 /\ valid = {} /\ torn = {}
  BY DEF Init
<1>3. ValidAreExecuted /\ CanonIsExecution
  BY <1>2 DEF ValidAreExecuted, CanonIsExecution
<1>4. \A n \in Nodes : Confirmed(n) = 0 /\ db[n] = Genesis /\ round[n] = None
  BY DEF Init, Confirmed
<1>5. CacheIsFresh /\ StateIsExecution
  BY <1>2, <1>4 DEF CacheIsFresh, StateIsExecution, CanonAt, RootAt, Reached
<1>. QED BY <1>1, <1>3, <1>5 DEF IInv, Executed

LEMMA IInvNext == IInv /\ [Next]_vars => IInv'
<1>. SUFFICES ASSUME IInv, [Next]_vars
              PROVE  IInv'
  OBVIOUS
<1>0. ChainInv /\ Executed /\ CacheIsFresh /\ TypeOK
  BY DEF IInv, ChainInv, Types
<1>1. ChainInv'
  BY <1>0, ChainInvNext
<1>2. Executed' /\ CacheIsFresh'
  <2>1. CASE UNCHANGED vars
    <3>1. Executed'
      BY <1>0, <2>1, ExecutedUnchanged DEF vars, disk, external, failures
    <3>. QED BY <1>0, <2>1, <3>1 DEF CacheIsFresh, vars, disk, memory
  <2>2. ASSUME NEW n \in Nodes, NEW r \in Rounds(n), StartRound(n, r)
        PROVE  Executed' /\ CacheIsFresh'
    <3>1. Executed'
      BY <1>0, <2>2, ExecutedUnchanged DEF StartRound, disk, external, failures
    <3>2. CacheIsFresh'
      BY <1>0, <2>2 DEF TypeOK, CacheIsFresh, StartRound, disk
    <3>. QED BY <3>1, <3>2
  <2>3. CASE \E n \in Nodes, p \in Payloads, t \in Times : ProposeFresh(n, p, t)
    BY <2>3, StepProposeFresh
  <2>4. CASE \E n \in Nodes : \E v \in stored[n] : ProposeStored(n, v)
    BY <2>4, StepProposeStored
  <2>5. CASE \E n \in Nodes, v \in sent : AddProposedValue(n, v)
    BY <2>5, StepAddProposedValue
  <2>6. CASE \E v \in sent : ConsensusDecides(v)
    BY <2>6, StepConsensusDecides
  <2>7. CASE \E n \in Nodes : \E v \in proposed[n] : Decide(n, v)
    BY <2>7, StepDecide
  <2>8. ASSUME NEW n \in Nodes, DecideUnknown(n)
        PROVE  Executed' /\ CacheIsFresh'
    <3>1. Executed'
      BY <1>0, <2>8, ExecutedUnchanged, Zenon DEF DecideUnknown, disk, external, failures
    <3>2. CacheIsFresh'
      BY <1>0, <2>8, Zenon DEF TypeOK, CacheIsFresh, DecideUnknown, disk
    <3>. QED BY <3>1, <3>2, Zenon
  <2>9. ASSUME NEW n \in Nodes, Crash(n)
        PROVE  Executed' /\ CacheIsFresh'
    <3>1. Executed'
      BY <1>0, <2>9, ExecutedUnchanged DEF Crash, disk, external
    <3>2. CacheIsFresh'
      BY <1>0, <2>9 DEF TypeOK, CacheIsFresh, Crash, LoseMemory, disk
    <3>. QED BY <3>1, <3>2
  <2>10. CASE \E n \in Nodes : \E v \in proposed[n] : CrashAfterState(n, v)
    BY <2>10, StepCrashAfterState
  <2>11. CASE \E n \in Nodes : \E v \in proposed[n] : CrashAfterChunk(n, v)
    BY <2>11, StepCrashAfterChunk
  <2>12. (\E n, m \in Nodes : SyncValue(n, m)) => \E n \in Nodes, v \in sent : AddProposedValue(n, v)
    BY <1>0, SyncedIsSent
  <2>. QED BY <2>1, <2>2, <2>3, <2>4, <2>5, <2>6, <2>7, <2>8, <2>9, <2>10, <2>11, <2>12, Zenon
           DEF Next, ReceivedProposalPart
<1>. QED BY <1>1, <1>2 DEF IInv

-------------------------------------------------------------------------------
\* The theorems

\* TypeOK: every variable of the shard chain keeps its type.
THEOREM TypeCorrect == Spec => []TypeOK
<1>1. ChainInv => TypeOK
  BY DEF ChainInv, Types
<1>. QED BY <1>1, ChainInvInit, ChainInvNext, PTL DEF Spec

\* StateIsExecution: whatever commit_shard_chunk committed, the cached transaction, a replay
\* or a recovery after a torn commit, the root of a node's state is the decided one, and the
\* state is the execution of the decided chunks unless a hash was shared or a torn chunk
\* does not replay.
THEOREM Agreement == Spec => []StateIsExecution
<1>1. IInv => StateIsExecution
  BY DEF IInv, Executed
<1>. QED BY <1>1, IInvInit, IInvNext, PTL DEF Spec

\* ChunksAreDecided: the chunks every node stored have the decided hashes, and the decided
\* transactions unless others were proposed under the same header hash, whatever executing
\* them does and wherever nodes crash.
THEOREM ChunksAgree == Spec => []ChunksAreDecided
<1>1. ChainInv => ChunksAreDecided
  BY DEF ChainInv, Chained
<1>. QED BY <1>1, ChainInvInit, ChainInvNext, PTL DEF Spec

\* NoEquivocation: no validator ever broadcasts two values for one height and round.  GetValue
\* stores a proposal before it hands it out, and hands the stored one out after a restart.
THEOREM OneValuePerRound == Spec => []NoEquivocation
<1>1. ChainInv => NoEquivocation
  BY DEF ChainInv, Chained
<1>. QED BY <1>1, ChainInvInit, ChainInvNext, PTL DEF Spec

\* DecidedReplays: wherever the replay of commit_shard_chunk would panic, a hash was shared, or
\* a commit was torn whose chunk does not replay to the state it led to.
THEOREM PanicsOnlyWhenTorn == Spec => []DecidedReplays
<1>1. IInv => DecidedReplays
  <2>. SUFFICES ASSUME IInv, NEW n \in Nodes, SoundUpTo(Reached(n)),
                       NextHeight(n) <= Len(decided)
                PROVE  RootOf(Exec(db[n], decided[NextHeight(n)].payload))
                         = decided[NextHeight(n)].root
    BY DEF DecidedReplays, Replays
  <2>1. NextHeight(n) \in 1 .. Len(decided)
    BY NodeTypes, ChainTypes DEF IInv, ChainInv, Types
  <2>. QED BY <2>1, ReplayIsCanon DEF IInv
<1>. QED BY <1>1, IInvInit, IInvNext, PTL DEF Spec

\* CommitsDecided: whichever of the cache, a replay or a recovery commits, a step moves the
\* committed state of a node (commit_shard_chunk) only to a state with the root of the next
\* decided chunk, and to the state after it unless a hash was shared or a torn chunk does
\* not replay.
THEOREM OnlyDecidedIsCommitted == Spec => CommitsDecided
<1>. DEFINE Moved(n) == db'[n] # db[n] =>
              \E h \in 1 .. Len(decided) :
                /\ h = NextHeight(n)
                /\ RootOf(db'[n]) = decided[h].root
                /\ SoundUpTo(h)' => db'[n] = canon[h]
<1>1. ASSUME IInv, [Next]_vars
      PROVE  \A n \in Nodes : Moved(n)
  <2>1. CASE db' = db
    BY <2>1
  <2>2. ASSUME NEW n \in Nodes, NEW v \in proposed[n],
               Decide(n, v) \/ CrashAfterState(n, v) \/ CrashAfterChunk(n, v)
        PROVE  \A m \in Nodes : Moved(m)
    <3>1. /\ DecidedAndKnown(n, v) /\ CommitSucceeds(n, v) /\ CommitState(n, v)
          /\ UNCHANGED external /\ torn \subseteq torn'
      BY <2>2, Zenon DEF Decide, CrashAfterState, CrashAfterChunk, failures
    <3>2. PICK h : h = NextHeight(n)
      OBVIOUS
    <3>3. /\ h \in 1 .. Len(decided)
          /\ RootOf(db'[n]) = decided[h].root
          /\ SoundUpTo(h)' => db'[n] = canon[h]
          /\ \A m \in Nodes \ {n} : db'[m] = db[m]
      BY <1>1, <3>1, <3>2, CommitStep
    <3>. QED BY <3>2, <3>3
  <2>3. \/ db' = db
        \/ \E n \in Nodes : \E v \in proposed[n] :
             Decide(n, v) \/ CrashAfterState(n, v) \/ CrashAfterChunk(n, v)
    BY <1>1, Zenon DEF Next, StartRound, ProposeFresh, ProposeStored, ReceivedProposalPart, SyncValue,
       AddProposedValue, ConsensusDecides, DecideUnknown, Crash, vars, disk
  <2>. QED BY <2>1, <2>2, <2>3
<1>2. IInv /\ [Next]_vars => [\A n \in Nodes : Moved(n)]_vars
  BY <1>1
<1>. QED BY <1>2, IInvInit, IInvNext, PTL DEF Spec, CommitsDecided

-------------------------------------------------------------------------------
\* Parents

\* Every value that was broadcast has as parent the decided chunk before it, which its proposer
\* had stored.  Nobody checks it; all proposers of a height have a last chunk with one hash.
ParentsAreDecided ==
  \A v \in sent :
    /\ v.height <= Len(decided) + 1
    /\ v.parent = IF v.height = 1 THEN None ELSE HashOf(decided[v.height - 1])

LinkInv == ChainInv /\ ParentsAreDecided

LEMMA NewValueParent ==
  ASSUME ChainInv, NEW n \in Nodes, NEW p, NEW t
  PROVE  /\ NewValue(n, p, t).height <= Len(decided) + 1
         /\ NewValue(n, p, t).parent = IF NewValue(n, p, t).height = 1 THEN None
                                       ELSE HashOf(decided[NewValue(n, p, t).height - 1])
<1>. DEFINE c == Len(chunks[n])
<1>1. c \in Nat /\ c <= Len(decided) /\ Len(decided) \in Nat /\ chunks[n] \in Seq(sent)
  BY NodeTypes, ChainTypes DEF ChainInv, Types, Chained, ChunksAreDecided, Confirmed
<1>2. NewValue(n, p, t).height = c + 1 /\ NewValue(n, p, t).parent = ParentOf(n)
  BY DEF NewValue, NextHeight, Confirmed
<1>3. c > 0 => HashOf(chunks[n][c]) = HashOf(decided[c])
  BY <1>1 DEF ChainInv, Chained, ChunksAreDecided, Confirmed
<1>4. ParentOf(n) = IF c = 0 THEN None ELSE HashOf(decided[c])
  BY <1>1, <1>3 DEF ParentOf
<1>5. /\ NewValue(n, p, t).height <= Len(decided) + 1
      /\ NewValue(n, p, t).height - 1 = c
      /\ NewValue(n, p, t).height = 1 <=> c = 0
  BY <1>1, <1>2
<1>6. NewValue(n, p, t).parent = IF c = 0 THEN None ELSE HashOf(decided[c])
  BY <1>2, <1>4
<1>. QED BY <1>5, <1>6, Zenon

LEMMA ParentsStep ==
  ASSUME LinkInv, [Next]_vars
  PROVE  ParentsAreDecided'
<1>1. Types /\ TypeOK /\ ChainInv /\ ParentsAreDecided
  BY DEF LinkInv, ChainInv, Types
<1>2. CASE UNCHANGED <<sent, decided>>
  BY <1>1, <1>2 DEF ParentsAreDecided
<1>3. ASSUME NEW n \in Nodes, NEW p \in Payloads, NEW t \in Times, ProposeFresh(n, p, t)
      PROVE  ParentsAreDecided'
  <2>1. sent' = sent \cup {NewValue(n, p, t)} /\ decided' = decided
    BY <1>3, Zenon DEF ProposeFresh
  <2>. QED BY <1>1, <2>1, NewValueParent DEF ParentsAreDecided
<1>4. ASSUME NEW n \in Nodes, NEW v \in stored[n], ProposeStored(n, v)
      PROVE  ParentsAreDecided'
  <2>1. v \in sent
    BY <1>1, NodeTypes
  <2>2. UNCHANGED <<sent, decided>>
    BY <1>4, <2>1 DEF ProposeStored
  <2>. QED BY <1>2, <2>2
<1>5. ASSUME NEW v \in sent, ConsensusDecides(v)
      PROVE  ParentsAreDecided'
  <2>1. /\ Len(decided) \in Nat /\ Len(decided') = Len(decided) + 1
        /\ \A h \in 1 .. Len(decided) : decided'[h] = decided[h]
    BY <1>1, <1>5, OneMoreDecided
  <2>2. sent' = sent
    BY <1>5 DEF ConsensusDecides
  <2>3. \A w \in sent : w.height \in Nat \ {0}
    BY <1>1, ChainTypes
  <2>. QED BY <1>1, <2>1, <2>2, <2>3 DEF ParentsAreDecided
<1>6. \/ UNCHANGED <<sent, decided>>
      \/ \E n \in Nodes, p \in Payloads, t \in Times : ProposeFresh(n, p, t)
      \/ \E n \in Nodes : \E v \in stored[n] : ProposeStored(n, v)
      \/ \E v \in sent : ConsensusDecides(v)
  BY Zenon DEF Next, StartRound, ReceivedProposalPart, SyncValue, AddProposedValue, Decide,
         DecideUnknown, Crash, CrashAfterState, CrashAfterChunk, vars, external
<1>. QED BY <1>2, <1>3, <1>4, <1>5, <1>6

\* ParentIsPrevious: every decided chunk names the one before it as its parent, although
\* add_proposed_value does not look at the parent hash of a proposal.
THEOREM ChunksAreLinked == Spec => []ParentIsPrevious
<1>1. Init => LinkInv
  BY ChainInvInit DEF LinkInv, Init, ParentsAreDecided
<1>2. LinkInv /\ [Next]_vars => LinkInv'
  BY ChainInvNext, ParentsStep DEF LinkInv
<1>3. LinkInv => ParentIsPrevious
  <2>. SUFFICES ASSUME LinkInv, NEW h \in 1 .. Len(decided)
                PROVE  decided[h].parent = IF h = 1 THEN None ELSE HashOf(decided[h - 1])
    BY DEF ParentIsPrevious
  <2>1. decided[h] \in sent /\ decided[h].height = h
    BY ChainTypes DEF LinkInv, ChainInv, Types, Chained, DecidedByHeight
  <2>. QED BY <2>1 DEF LinkInv, ParentsAreDecided
<1>. QED BY <1>1, <1>2, <1>3, PTL DEF Spec

-------------------------------------------------------------------------------
\* The refinement

LEMMA HashesType ==
  ASSUME NEW S, NEW s \in Seq(S)
  PROVE  /\ HashesOf(s) \in Seq({HashOf(v) : v \in S})
         /\ Len(HashesOf(s)) = Len(s) /\ Len(s) \in Nat
         /\ \A h \in 1 .. Len(s) : HashesOf(s)[h] = HashOf(s[h])
<1>1. \A h \in 1 .. Len(s) : s[h] \in S
  OBVIOUS
<1>. QED BY <1>1 DEF HashesOf

LEMMA HashesAppend ==
  ASSUME NEW S, NEW s \in Seq(S), NEW v \in S
  PROVE  HashesOf(Append(s, v)) = Append(HashesOf(s), HashOf(v))
<1>. DEFINE H == {HashOf(w) : w \in S}
            a == Append(s, v)
            b == Append(HashesOf(s), HashOf(v))
<1>1. /\ a \in Seq(S) /\ Len(a) = Len(s) + 1 /\ a[Len(s) + 1] = v
      /\ \A i \in 1 .. Len(s) : a[i] = s[i]
      /\ Len(s) \in Nat
  BY AppendType
<1>2. /\ HashesOf(s) \in Seq(H) /\ Len(HashesOf(s)) = Len(s)
      /\ \A i \in 1 .. Len(s) : HashesOf(s)[i] = HashOf(s[i])
  BY HashesType, Zenon
<1>3. /\ b \in Seq(H) /\ Len(b) = Len(s) + 1 /\ b[Len(s) + 1] = HashOf(v)
      /\ \A i \in 1 .. Len(s) : b[i] = HashesOf(s)[i]
  <2>1. HashOf(v) \in H
    OBVIOUS
  <2>. HIDE DEF H
  <2>. QED BY <1>2, <2>1, AppendType
<1>4. /\ HashesOf(a) \in Seq(H) /\ Len(HashesOf(a)) = Len(s) + 1
      /\ \A i \in 1 .. Len(s) + 1 : HashesOf(a)[i] = HashOf(a[i])
  BY <1>1, HashesType, Zenon
<1>5. \A i \in 1 .. Len(s) + 1 : HashesOf(a)[i] = b[i]
  <2>1. \A i \in 1 .. Len(s) + 1 : i \in 1 .. Len(s) \/ i = Len(s) + 1
    BY <1>1
  <2>. HIDE DEF a, b
  <2>. QED BY <1>1, <1>2, <1>3, <1>4, <2>1
<1>. HIDE DEF H, a, b
<1>6. HashesOf(a) = b
  BY <1>3, <1>4, <1>5, SeqEqual
<1>. QED BY <1>6 DEF a, b

\* Storing the next decided chunk is a step of the ledger.
LEMMA ChunkIsStored ==
  ASSUME ChainInv, NEW n \in Nodes, NEW v, DecidedAndKnown(n, v),
         chunks' = [chunks EXCEPT ![n] = Append(@, v)], UNCHANGED decided
  PROVE  L!Store(n)
<1>. DEFINE k == NextHeight(n)
            H == {HashOf(w) : w \in sent}
            s == HashesOf(chunks'[n])
            t == SubSeq(HashesOf(decided), 1, k)
<1>1. /\ k \in 1 .. Len(decided) /\ v \in sent
      /\ HashOf(v) = HashOf(decided[k])
  BY KnownIsDecided, Zenon DEF ChainInv, Types, Chained
<1>2. /\ decided \in Seq(sent) /\ Len(decided) \in Nat /\ chunks[n] \in Seq(sent)
      /\ Confirmed(n) \in Nat /\ k = Confirmed(n) + 1 /\ Len(chunks[n]) = Confirmed(n)
      /\ \A h \in 1 .. Confirmed(n) : HashOf(chunks[n][h]) = HashOf(decided[h])
      /\ chunks'[n] = Append(chunks[n], v)
      /\ \A m \in Nodes \ {n} : chunks'[m] = chunks[m]
  BY NodeTypes, ChainTypes, Zenon DEF ChainInv, Types, TypeOK, Chained, ChunksAreDecided, Confirmed
<1>3. /\ HashesOf(decided) \in Seq(H) /\ Len(HashesOf(decided)) = Len(decided)
      /\ \A h \in 1 .. Len(decided) : HashesOf(decided)[h] = HashOf(decided[h])
  BY <1>2, HashesType, Zenon
<1>4. /\ s \in Seq(H) /\ Len(s) = k
      /\ \A h \in 1 .. k : s[h] = HashOf(chunks'[n][h])
  <2>1. PICK c : c = chunks'[n]
    OBVIOUS
  <2>2. c \in Seq(sent) /\ Len(c) = k
    BY <1>1, <1>2, <2>1, AppendType
  <2>3. /\ HashesOf(c) \in Seq(H) /\ Len(HashesOf(c)) = k
        /\ \A h \in 1 .. k : HashesOf(c)[h] = HashOf(c[h])
    BY <2>2, HashesType, Zenon
  <2>. QED BY <2>1, <2>3, Zenon
<1>5. \A h \in 1 .. k : HashOf(chunks'[n][h]) = HashOf(decided[h])
  <2>1. /\ Append(chunks[n], v)[k] = v
        /\ \A i \in 1 .. Confirmed(n) : Append(chunks[n], v)[i] = chunks[n][i]
    BY <1>1, <1>2, AppendType
  <2>2. \A h \in 1 .. k : h \in 1 .. Confirmed(n) \/ h = k
    BY <1>2
  <2>. QED BY <1>1, <1>2, <2>1, <2>2, Zenon
<1>6. /\ t \in Seq(H) /\ Len(t) = k
      /\ \A h \in 1 .. k : t[h] = HashesOf(decided)[h]
  <2>. HIDE DEF H
  <2>. QED BY <1>1, <1>2, <1>3
<1>7. \A h \in 1 .. k : h \in 1 .. Len(decided)
  BY <1>1, <1>2
<1>8. s = t
  <2>1. \A h \in 1 .. k : s[h] = t[h]
    <3>. HIDE DEF s, t, H, k
    <3>. QED BY <1>3, <1>4, <1>5, <1>6, <1>7, Zenon
  <2>. HIDE DEF s, t, H, k
  <2>. QED BY <1>4, <1>6, <2>1, SeqEqual
<1>9. Len(HashesOf(chunks[n])) = Confirmed(n)
  BY <1>2, HashesType, Zenon
<1>10. k \in Len(HashesOf(chunks[n])) + 1 .. Len(HashesOf(decided))
  BY <1>1, <1>2, <1>3, <1>9
<1>11. [m \in Nodes |-> HashesOf(chunks[m])]' =
         [[m \in Nodes |-> HashesOf(chunks[m])] EXCEPT ![n] = t]
  <2>. DEFINE F == [m \in Nodes |-> HashesOf(chunks[m])]
              G == [m \in Nodes |-> HashesOf(chunks'[m])]
  <2>1. G[n] = t
    BY <1>8
  <2>2. \A m \in Nodes \ {n} : G[m] = F[m]
    BY <1>2
  <2>3. F' = G
    BY DEF HashesOf
  <2>4. DOMAIN F = Nodes /\ F = [m \in Nodes |-> F[m]] /\ G = [m \in Nodes |-> G[m]]
    OBVIOUS
  <2>5. G = [F EXCEPT ![n] = t]
    <3>. HIDE DEF F, G, t
    <3>. QED BY <2>1, <2>2, <2>4
  <2>. QED BY <2>3, <2>5
<1>12. HashesOf(decided)' = HashesOf(decided)
  BY DEF HashesOf
<1>13. [m \in Nodes |-> HashesOf(chunks[m])][n] = HashesOf(chunks[n])
  OBVIOUS
<1>. QED BY <1>10, <1>11, <1>12, <1>13, Zenon DEF L!Store

\* ImplementsLedger: whatever the nodes propose, replay, lose and recover, the decided hashes
\* grow one by one and what a node has stored is a prefix of them that only grows.
THEOREM ValidatorsKeepALedger == Spec => ImplementsLedger
<1>. DEFINE lv == <<HashesOf(decided), [n \in Nodes |-> HashesOf(chunks[n])]>>
<1>1. Init => L!Init
  <2>1. HashesOf(<<>>) = <<>>
    BY DEF HashesOf
  <2>. QED BY <2>1 DEF Init, L!Init
<1>2. ASSUME ChainInv, [Next]_vars
      PROVE  [L!Next]_lv
  <2>1. CASE UNCHANGED <<decided, chunks>>
    BY <2>1 DEF HashesOf
  <2>2. ASSUME NEW v \in sent, ConsensusDecides(v)
        PROVE  L!Next
    <3>. DEFINE c == HashesOf(decided)
    <3>1. decided \in Seq(sent)
      BY <1>2, ChainTypes DEF ChainInv, Types
    <3>2. decided' = Append(decided, v) /\ UNCHANGED chunks
      BY <2>2 DEF ConsensusDecides, disk
    <3>3. c' = Append(c, HashOf(v))
      <4>1. c' = HashesOf(decided')
        BY DEF HashesOf
      <4>. QED BY <3>1, <3>2, <4>1, HashesAppend
    <3>4. c \in Seq({HashOf(w) : w \in sent})
      BY <3>1, HashesType
    <3>5. Len(c') = Len(c) + 1 /\ c'[Len(c')] = HashOf(v)
      <4>1. HashOf(v) \in {HashOf(w) : w \in sent}
        OBVIOUS
      <4>. HIDE DEF c
      <4>. QED BY <3>3, <3>4, <4>1, AppendType
    <3>6. [n \in Nodes |-> HashesOf(chunks[n])]' = [n \in Nodes |-> HashesOf(chunks[n])]
      BY <3>2 DEF HashesOf
    <3>7. L!Extend
      BY <3>3, <3>5, <3>6 DEF L!Extend
    <3>. QED BY <3>7 DEF L!Next
  <2>3. ASSUME NEW n \in Nodes, NEW v \in proposed[n], Decide(n, v) \/ CrashAfterChunk(n, v)
        PROVE  L!Next
    <3>1. L!Store(n)
      BY <1>2, <2>3, ChunkIsStored, Zenon DEF Decide, CrashAfterChunk, external
    <3>. QED BY <3>1 DEF L!Next
  <2>4. \/ UNCHANGED <<decided, chunks>>
        \/ \E v \in sent : ConsensusDecides(v)
        \/ \E n \in Nodes : \E v \in proposed[n] : Decide(n, v) \/ CrashAfterChunk(n, v)
    BY <1>2, Zenon DEF Next, StartRound, ProposeFresh, ProposeStored, ReceivedProposalPart, SyncValue,
       AddProposedValue, DecideUnknown, Crash, CrashAfterState, vars, disk, external
  <2>. QED BY <2>1, <2>2, <2>3, <2>4
<1>. QED BY <1>1, <1>2, ChainInvInit, ChainInvNext, PTL DEF Spec, ImplementsLedger, L!Spec, L!ledgerVars

===============================================================================
