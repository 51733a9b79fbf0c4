------------------------- MODULE MessageStoreProofs -------------------------
(***************************************************************************)
(* The stores of one user's messages converge: while nothing is pruned,    *)
(* compacted or revoked they hold, for each key, the winner of the messages*)
(* that came, for every set of messages, every limit and every way         *)
(* transactions cut their sequence.                                        *)
(***************************************************************************)
EXTENDS MessageStore, TLAPS

\* Every message that came is stored, or is beaten by a stored one.
Dominated ==
  /\ cur.msgs \subseteq seen
  /\ \A m \in seen \ cur.msgs :
       \E w \in cur.msgs : w.key = m.key /\ Beats(w, m)

\* What the indices and the trie of a store without a compact state hold.
Sound(st) == IndexFinds(st) /\ st.compact = None /\ st.trie = st.msgs

\* No message that came is a compact state.
NoCompact == \A m \in seen : m.kind # "compact"

Calm == Sound(cur) /\ Sound(db) /\ Dominated /\ NoCompact

\* Nothing was lost but to a collision: the stores are sound and hold what
\* dominates.
IInv == TypeOK /\ ("trimmed" \notin past => Calm)

----------------------------------------------------------------------------
\* message_compare orders the messages that can collide strictly and totally.
LEMMA BeatsIsTotal ==
  ASSUME NEW a \in Messages, NEW b \in Messages, a # b, a.key = b.key,
         a.kind # "compact", b.kind # "compact"
  PROVE  Beats(a, b) \/ Beats(b, a)
BY MessagesAssumption DEF Message, Beats, RemoveWins, LaterWins

LEMMA BeatsIsTransitive ==
  ASSUME NEW a \in Messages, NEW b \in Messages, NEW c \in Messages,
         a.key = b.key, b.key = c.key, Beats(a, b), Beats(b, c)
  PROVE  Beats(a, c)
BY MessagesAssumption DEF Message, Beats, RemoveWins, LaterWins

\* The message that beats every other one of a set is the one the three rules
\* of the stores' documentation pick.
LEMMA WinnerBeatsAll ==
  ASSUME NEW k \in Keys, NEW S \in SUBSET Messages, NEW w \in S,
         \A x \in S : x.key = k /\ x.kind # "compact",
         \A x \in S \ {w} : Beats(w, x)
  PROVE  Winner(S, k) = {w}
<1> USE MessagesAssumption
<1>1. CASE k \in CastKeys
  <2>1. w \in RemovesFirst(S)
    BY <1>1 DEF RemovesFirst, RemovesOf, Beats, RemoveWins, Message
  <2>2. \A x \in RemovesFirst(S) : x.kind = w.kind
    BY <1>1, <2>1 DEF RemovesFirst, RemovesOf, Beats, RemoveWins, Message
  <2>3. RemovesFirst(S) \subseteq S
    BY DEF RemovesFirst, RemovesOf
  <2>4. \A x \in RemovesFirst(S) \ {w} :
          w.ts > x.ts \/ (w.ts = x.ts /\ w.hash > x.hash)
    BY <1>1, <2>2, <2>3 DEF Beats, RemoveWins, Message
  <2>5. HighestHash(Latest(RemovesFirst(S))) = {w}
    BY <2>1, <2>3, <2>4 DEF HighestHash, Latest, Message
  <2> QED  BY <1>1, <2>5 DEF Winner
<1>2. CASE k \notin CastKeys
  <2>1. w \in Latest(S) /\ Latest(S) \subseteq S /\ \A x \in Latest(S) : x.ts = w.ts
    BY <1>2 DEF Latest, Beats, LaterWins, Message
  <2>2. \A x \in Latest(S) \ {w} :
          \/ w.kind = "remove" /\ x.kind = "add"
          \/ w.kind = x.kind /\ w.hash > x.hash
    BY <1>2, <2>1 DEF Beats, LaterWins, Message
  <2>3. w \in RemovesFirst(Latest(S)) /\ RemovesFirst(Latest(S)) \subseteq Latest(S)
    BY <2>1, <2>2 DEF RemovesFirst, RemovesOf
  <2>4. \A x \in RemovesFirst(Latest(S)) \ {w} : w.hash > x.hash
    BY <2>1, <2>2, <2>3 DEF RemovesFirst, RemovesOf
  <2>5. HighestHash(RemovesFirst(Latest(S))) = {w}
    BY <2>1, <2>3, <2>4 DEF HighestHash, Message
  <2> QED  BY <1>2, <2>5 DEF Winner
<1> QED  BY <1>1, <1>2

LEMMA WinnerOfNone == \A k \in Keys : Winner({}, k) = {}
BY DEF Winner, HighestHash, Latest, RemovesFirst, RemovesOf

----------------------------------------------------------------------------
\* What the writes of store.rs leave is a store.
LEMMA DeleteManyType ==
  ASSUME NEW st \in Store, NEW D
  PROVE  DeleteMany(st, D) \in Store
BY DEF Store, DeleteMany

LEMMA PutType ==
  ASSUME NEW st \in Store, NEW m \in Messages
  PROVE  /\ PutAdd(st, m) \in Store
         /\ PutRemove(st, m) \in Store
         /\ PutCompact(st, m) \in Store
BY MessagesAssumption DEF Store, PutAdd, PutRemove, PutCompact, Message

LEMMA MergedType ==
  ASSUME NEW st \in Store, NEW base \in Store, NEW m \in Messages
  PROVE  Merged(st, base, m) \in Store
<1>1. m.kind \in {"add", "remove", "compact"}
  BY MessagesAssumption DEF Message
<1>2. MergeAdd(st, m) \in Store /\ MergeRemove(st, m) \in Store
  BY DeleteManyType, PutType DEF MergeAdd, MergeRemove
<1>3. MergeCompact(st, base, m) \in Store
  BY DeleteManyType, PutType DEF MergeCompact
<1> QED  BY <1>1, <1>2, <1>3 DEF Merged

LEMMA TypeStep ==
  ASSUME TypeOK, [Next]_vars
  PROVE  TypeOK'
<1>1. CASE UNCHANGED vars
  BY <1>1 DEF TypeOK, vars
<1>2. ASSUME NEW s \in Signers, RevokeSigner(s) PROVE TypeOK'
  BY <1>2, DeleteManyType DEF TypeOK, RevokeSigner, Happens, Happenings
<1>3. ASSUME NEW l \in Limits, ChangeLimit(l) PROVE TypeOK'
  BY <1>3 DEF TypeOK, ChangeLimit, Happens, Happenings
<1>4. ASSUME NEW m \in Messages, MergeMessage(m) PROVE TypeOK'
  <2>1. cur' \in Store /\ merged' \subseteq Stores
    BY <1>4, MergedType DEF TypeOK, MergeMessage, StoreOf, Stores
  <2>2. past' \subseteq Happenings
    BY <1>4 DEF TypeOK, MergeMessage, Happenings
  <2> QED  BY <1>4, <2>1, <2>2 DEF TypeOK, MergeMessage
<1>5. CASE CommitTransaction
  <2>1. cur' \in Store
    BY <1>5, DeleteManyType DEF TypeOK, CommitTransaction
  <2> QED  BY <1>5, <2>1 DEF TypeOK, CommitTransaction, Happens, Happenings
<1> QED  BY <1>1, <1>2, <1>3, <1>4, <1>5 DEF Next

\* The store, its indices and the transaction keep their types in every step
\* of the merge loop, whatever is merged, compacted, pruned or revoked.
THEOREM TypeCorrect == Spec => []TypeOK
<1>1. Init => TypeOK
  <2>1. EmptyStore \in Store
    BY DEF EmptyStore, Store
  <2> QED  BY <2>1 DEF Init, TypeOK
<1>2. TypeOK /\ [Next]_vars => TypeOK'
  <2> SUFFICES ASSUME TypeOK, [Next]_vars PROVE TypeOK'
    OBVIOUS
  <2> QED  BY TypeStep
<1> QED  BY <1>1, <1>2, PTL DEF Spec

----------------------------------------------------------------------------
\* A key of a sound store has at most one message.
LEMMA OneOfKey ==
  ASSUME NEW st \in Store, Sound(st), NEW a \in st.msgs, NEW b \in st.msgs,
         a.key = b.key
  PROVE  a = b
BY MessagesAssumption DEF Sound, IndexFinds, Store, Message

\* A message put under a key that holds none leaves a sound store.
LEMMA PutIsSound ==
  ASSUME NEW st \in Store, Sound(st), NEW m \in Messages,
         st.adds[m.key] = None, st.removes[m.key] = None
  PROVE  /\ m.kind = "add" => Sound(PutAdd(st, m))
         /\ m.kind = "remove" => Sound(PutRemove(st, m))
<1>1. m \in Message /\ m.key \in Keys /\ m # None
  BY MessagesAssumption DEF Message
<1>2. \A x \in st.msgs : x.key # m.key /\ x.key \in Keys
  BY <1>1, MessagesAssumption DEF Sound, IndexFinds, Store, Message
<1>3. ASSUME m.kind = "add" PROVE Sound(PutAdd(st, m))
  <2> DEFINE r == PutAdd(st, m)
  <2>1. /\ r.msgs = st.msgs \cup {m} /\ r.trie = st.trie \cup {m}
        /\ r.compact = st.compact /\ r.removes = st.removes
        /\ r.adds[m.key] = m
        /\ \A k \in Keys \ {m.key} : r.adds[k] = st.adds[k]
    BY <1>1 DEF PutAdd, Store
  <2> HIDE DEF r
  <2>2. IndexFinds(r)
    BY <1>1, <1>2, <1>3, <2>1 DEF Sound, IndexFinds
  <2>3. Sound(r)
    BY <2>1, <2>2 DEF Sound
  <2> QED  BY <2>3 DEF r
<1>4. ASSUME m.kind = "remove" PROVE Sound(PutRemove(st, m))
  <2> DEFINE r == PutRemove(st, m)
  <2>1. /\ r.msgs = st.msgs \cup {m} /\ r.trie = st.trie \cup {m}
        /\ r.compact = st.compact /\ r.adds = st.adds
        /\ r.removes[m.key] = m
        /\ \A k \in Keys \ {m.key} : r.removes[k] = st.removes[k]
    BY <1>1 DEF PutRemove, Store
  <2> HIDE DEF r
  <2>2. IndexFinds(r)
    BY <1>1, <1>2, <1>4, <2>1 DEF Sound, IndexFinds
  <2>3. Sound(r)
    BY <2>1, <2>2 DEF Sound
  <2> QED  BY <2>3 DEF r
<1> QED  BY <1>3, <1>4

\* A merge that the store takes replaces what is stored under the message's
\* key, keeps the rest, and leaves the indices and the trie matching.
LEMMA MergeReplaces ==
  ASSUME NEW st \in Store, Sound(st), NEW base \in Store,
         \A x \in st.msgs : x.kind # "compact",
         NEW m \in Messages, m.kind # "compact", Accepts(st, m)
  PROVE  /\ Sound(Merged(st, base, m))
         /\ Merged(st, base, m).msgs = {x \in st.msgs : x.key # m.key} \cup {m}
         /\ \A x \in st.msgs : x.key = m.key => Beats(m, x)
<1> DEFINE C == Conflicts(st, m)
           d == DeleteMany(st, C)
           r == Merged(st, base, m)
<1>1. m \in Message /\ m.kind \in {"add", "remove"} /\ m.key \in Keys
  BY MessagesAssumption DEF Message
<1>2. C = {x \in st.msgs : x.key = m.key}
  BY <1>1, MessagesAssumption DEF Conflicts, Indexed, Sound, IndexFinds, Store, Message
<1>3. \A x \in st.msgs : x.key = m.key => x # m /\ Beats(m, x)
  <2>1. \A x \in st.msgs : x.key = m.key => x # m /\ ~Beats(x, m)
    BY <1>1, <1>2 DEF Accepts, Refused, Conflicts
  <2> QED  BY <2>1, BeatsIsTotal DEF Store
<1>4. /\ d.msgs = {x \in st.msgs : x.key # m.key}
      /\ d.trie = d.msgs
      /\ d.compact = None
      /\ d \in Store
  BY <1>2, DeleteManyType DEF DeleteMany, Store, Sound
<1>5. /\ d.adds[m.key] = None /\ d.removes[m.key] = None
      /\ \A k \in Keys \ {m.key} : d.adds[k] = st.adds[k] /\ d.removes[k] = st.removes[k]
  BY <1>1, <1>2, MessagesAssumption DEF DeleteMany, Sound, IndexFinds, Store, Message
<1>6. /\ m.kind = "add" => r = PutAdd(d, m)
      /\ m.kind = "remove" => r = PutRemove(d, m)
  BY DEF Merged, MergeAdd, MergeRemove
<1> HIDE DEF d, C, r
<1>7. Sound(d)
  <2>1. \A x \in st.msgs : x.key \in Keys
    BY MessagesAssumption DEF Store, Message
  <2>2. IndexFinds(d)
    BY <1>4, <1>5, <2>1 DEF Sound, IndexFinds
  <2> QED  BY <1>4, <2>2 DEF Sound
<1>8. Sound(r)
  BY <1>1, <1>4, <1>5, <1>6, <1>7, PutIsSound
<1>9. r.msgs = d.msgs \cup {m}
  BY <1>1, <1>4, <1>6 DEF PutAdd, PutRemove, Store
<1> QED  BY <1>3, <1>4, <1>8, <1>9 DEF r

\* Deleting nothing leaves the store as it is.
LEMMA NothingDeleted ==
  ASSUME NEW st \in Store
  PROVE  DeleteMany(st, {}) = st
BY DEF DeleteMany, Store

LEMMA InvInit == Init => IInv
<1> SUFFICES ASSUME Init PROVE IInv
  OBVIOUS
<1>1. EmptyStore \in Store
  BY DEF EmptyStore, Store
<1>2. TypeOK
  BY <1>1 DEF Init, TypeOK
<1>3. Sound(EmptyStore)
  BY DEF Sound, IndexFinds, EmptyStore
<1>4. Dominated /\ NoCompact
  BY DEF Init, Dominated, NoCompact, EmptyStore
<1> QED  BY <1>2, <1>3, <1>4 DEF Init, IInv, Calm

LEMMA InvStep ==
  ASSUME IInv, [Next]_vars
  PROVE  IInv'
<1>1. TypeOK /\ TypeOK'
  BY TypeStep DEF IInv
<1>2. SUFFICES ASSUME "trimmed" \notin past' PROVE Calm'
  BY <1>1 DEF IInv
<1>3. CASE UNCHANGED vars
  BY <1>2, <1>3 DEF IInv, Calm, Dominated, NoCompact, vars
<1>4. ASSUME NEW s \in Signers, RevokeSigner(s) PROVE Calm'
  BY <1>2, <1>4 DEF RevokeSigner, Happens
<1>5. ASSUME NEW l \in Limits, ChangeLimit(l) PROVE Calm'
  BY <1>2, <1>5 DEF ChangeLimit, Happens, IInv, Calm, Dominated, NoCompact
<1>6. ASSUME NEW m \in Messages, MergeMessage(m) PROVE Calm'
  <2>0. Calm /\ m.kind # "compact"
    BY <1>2, <1>6 DEF MergeMessage, IInv
  <2>1. cur \in Store /\ db \in Store /\ seen \subseteq Messages /\ cur.msgs \subseteq Messages
    BY <1>1 DEF TypeOK, Store
  <2>2. \A x \in seen : x.kind # "compact"
    BY <2>0 DEF Calm, NoCompact
  <2>3. db' = db /\ seen' = seen \cup {m}
    BY <1>6 DEF MergeMessage
  <2>7. NoCompact'
    BY <2>0, <2>2, <2>3 DEF NoCompact
  <2>8. \A x \in cur.msgs : x \in seen /\ x.kind # "compact"
    BY <2>0, <2>2 DEF Calm, Dominated
  <2>4. CASE Accepts(cur, m)
    <3>1. cur' = Merged(cur, db, m)
      BY <1>6, <2>4 DEF MergeMessage
    <3>2. /\ Sound(cur')
          /\ cur'.msgs = {x \in cur.msgs : x.key # m.key} \cup {m}
          /\ \A x \in cur.msgs : x.key = m.key => Beats(m, x)
      BY <2>0, <2>1, <2>8, <2>4, <3>1, MergeReplaces DEF Calm
    <3>3. Dominated'
      <4>1. cur'.msgs \subseteq seen'
        BY <2>0, <2>3, <3>2 DEF Dominated, Calm
      <4>2. ASSUME NEW x \in seen' \ cur'.msgs
            PROVE  \E w \in cur'.msgs : w.key = x.key /\ Beats(w, x)
        <5>1. x \in seen /\ x # m
          BY <2>3, <3>2
        <5>2. CASE x.key # m.key
          BY <2>0, <5>1, <5>2, <3>2 DEF Dominated, Calm
        <5>3. CASE x.key = m.key
          <6>1. Beats(m, x)
            <7>1. CASE x \in cur.msgs
              BY <5>3, <7>1, <3>2
            <7>2. CASE x \notin cur.msgs
              <8>1. PICK w \in cur.msgs : w.key = x.key /\ Beats(w, x)
                BY <2>0, <5>1, <7>2 DEF Dominated, Calm
              <8> QED  BY <8>1, <5>1, <5>3, <3>2, <2>1, BeatsIsTransitive
            <7> QED  BY <7>1, <7>2
          <6> QED  BY <6>1, <5>3, <3>2
        <5> QED  BY <5>2, <5>3
      <4> QED  BY <4>1, <4>2 DEF Dominated
    <3> QED  BY <2>0, <2>3, <2>7, <3>2, <3>3 DEF Calm
  <2>5. CASE ~Accepts(cur, m)
    <3>1. cur' = cur
      BY <1>6, <2>5 DEF MergeMessage
    <3>2. m \notin cur.msgs => \E w \in cur.msgs : w.key = m.key /\ Beats(w, m)
      BY <2>0, <2>5, MessagesAssumption
         DEF Calm, Accepts, CompactRefuses, Refused, Indexed, Sound, IndexFinds, Message
    <3>3. Dominated'
      BY <2>0, <2>3, <3>1, <3>2 DEF Dominated, Calm
    <3> QED  BY <2>0, <2>3, <2>7, <3>1, <3>3 DEF Calm
  <2> QED  BY <2>4, <2>5
<1>7. CASE CommitTransaction
  <2>1. "trimmed" \notin past /\ Pruned = {}
    BY <1>2, <1>7 DEF CommitTransaction, Happens
  <2>2. cur' = cur /\ db' = cur /\ seen' = seen
    BY <1>1, <1>7, <2>1, NothingDeleted DEF CommitTransaction, TypeOK
  <2> QED  BY <2>1, <2>2 DEF IInv, Calm, Dominated, NoCompact
<1> QED  BY <1>3, <1>4, <1>5, <1>6, <1>7 DEF Next

\* The inductive invariant gives what the stores' documentation promises.
LEMMA InvWinners ==
  ASSUME IInv
  PROVE  WinnersStored
<1>1. SUFFICES ASSUME "trimmed" \notin past, NEW k \in Keys
               PROVE  OfKey(cur.msgs, k) = Winner(OfKey(seen, k), k)
  BY DEF WinnersStored
<1>2. cur \in Store /\ seen \subseteq Messages /\ Sound(cur) /\ Dominated /\ NoCompact
  BY <1>1 DEF IInv, TypeOK, Calm
<1>3. CASE OfKey(seen, k) = {}
  BY <1>2, <1>3, WinnerOfNone DEF OfKey, Dominated
<1>4. CASE OfKey(seen, k) # {}
  <2>1. PICK w \in cur.msgs : w.key = k
    BY <1>2, <1>4 DEF OfKey, Dominated
  <2>2. \A x \in cur.msgs : x.key = k => x = w
    BY <1>2, <2>1, OneOfKey
  <2>3. OfKey(cur.msgs, k) = {w}
    BY <2>1, <2>2 DEF OfKey
  <2>4. \A x \in OfKey(seen, k) \ {w} : Beats(w, x)
    BY <1>2, <2>1, <2>2 DEF OfKey, Dominated
  <2>5. w \in OfKey(seen, k) /\ OfKey(seen, k) \in SUBSET Messages
    BY <1>2, <2>1 DEF OfKey, Dominated
  <2>6. \A x \in OfKey(seen, k) : x.key = k /\ x.kind # "compact"
    BY <1>2 DEF OfKey, NoCompact
  <2> QED  BY <2>3, <2>4, <2>5, <2>6, WinnerBeatsAll
<1> QED  BY <1>3, <1>4

\* Whatever messages exist and however they come, the stores hold for each
\* key the winner of those that came, as long as nothing was pruned, compacted
\* or revoked.
THEOREM Converges == Spec => []WinnersStored
BY InvInit, InvStep, InvWinners, PTL DEF Spec

\* The indices and the trie match what is stored, after every transaction of
\* any size, as long as nothing was pruned, compacted or revoked.
THEOREM IndicesMatch == Spec => []("trimmed" \notin past => IndexHolds)
<1>1. IInv => ("trimmed" \notin past => IndexHolds)
  BY DEF IInv, Calm, IndexHolds, Sound
<1> QED  BY <1>1, InvInit, InvStep, PTL DEF Spec

=============================================================================
