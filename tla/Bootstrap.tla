----------------------------- MODULE Bootstrap -----------------------------
(***************************************************************************)
(* The replication bootstrap of a new node (bootstrap/replication): one    *)
(* data shard is copied from a peer's snapshot, page by page, by several   *)
(* tasks that share one in-memory trie and one database.                   *)
(*                                                                         *)
(* The trie of a shard is cut into virtual trie shards (vts).  A task      *)
(* copies one vts: it fetches a page, inserts the page's keys into the     *)
(* shared trie under the trie's mutex, and commits the page, the trie      *)
(* nodes and its progress to the database under the database's mutex.      *)
(* When the write session is full the tasks end, the database is closed    *)
(* and opened again, and the trie is read back from it.                    *)
(*                                                                         *)
(* The number of a vts is the first byte of its keys, two levels of the    *)
(* trie (module Trie): vts with the same first half share a node below the *)
(* root.  The model keeps the root, these shared nodes, the node of each   *)
(* vts and the nodes of the accounts.  root[v] and mid[v] are the items of *)
(* v that the hash in the root, and in the shared node above v, stands     *)
(* for; sub[v] are the items below the node of v itself, and accts[v]      *)
(* those in the nodes of its accounts, which are read by their key.  A     *)
(* page is one item; the pages of an account follow one another.           *)
(***************************************************************************)
EXTENDS Naturals, FiniteSets

CONSTANTS
    Vts,            \* virtual trie shards: 1..n, TRIE_SHARD_SIZE of them
    Nibble,         \* Nibble[v]: the first half of the byte that v is
    Parallel,       \* the values of num_parallel_vts
    Pages,          \* pages of each vts: 1..n
    Account,        \* Account[i]: the account (fid) of page i
    Changed,        \* the <<vts, page>> whose item differs in the second snapshot
    MaxSession,     \* max_messages_in_write_session
    MaxFails        \* bound: crashes, signals and failed requests

ASSUME BootstrapAssumption ==
    /\ IsFiniteSet(Vts) /\ Vts \subseteq Nat
    /\ DOMAIN Nibble = Vts
    /\ Parallel \subseteq Nat \ {0}
    /\ IsFiniteSet(Pages) /\ Pages # {} /\ Pages = 1..Cardinality(Pages)
    /\ Account \in [Pages -> Nat \ {0}]
    /\ \A i, j \in Pages : i < j => Account[i] <= Account[j]
    /\ Changed \subseteq Vts \X Pages
    /\ MaxSession \in Nat /\ MaxFails \in Nat

VARIABLES
    parallel,   \* num_parallel_vts
    snap,       \* the snapshot whose metadata this process fetched
    phase,      \* what the process is doing
    shutdown,   \* the shutdown flag
    stopWork,   \* stop_more_work
    task,       \* the task of each vts
    count,      \* messages_in_batch
    mem,        \* the shared trie: [root, mid, sub]
    db,         \* the snapshot database: [msgs, status, root, mid, sub, accts, want]
    chunk,      \* the snapshot whose shard chunk is in the database, 0: none
    fails       \* failures so far

vars == <<parallel, snap, phase, shutdown, stopWork, task, count, mem, db, chunk, fails>>

Item(s, v, i) == IF s = 2 /\ <<v, i>> \in Changed THEN 100 + i ELSE i
Expected(s) == [v \in Vts |-> {Item(s, v, i) : i \in Pages}]
Nothing == [v \in Vts |-> {}]
LastPage == Cardinality(Pages)

\* The vts under the same shared node, and the items of an account.
Siblings(v) == {w \in Vts : Nibble[w] = Nibble[v]}
OfAccount(items, a) == {x \in items : Account[x % 100] = a}

\* get_or_gen_vts_status of a vts without one: the page to ask for, last_fid
\* (0: none) and whether it is finished.
NewStatus == [v \in Vts |-> [next |-> 1, fid |-> 0, fin |-> FALSE]]

\* A task: where it is, the trie batch it holds, and how it ended.
NoBatch == [new |-> FALSE, root |-> Nothing, mid |-> Nothing, sub |-> {}]
Idle == [pc |-> "idle", batch |-> NoBatch, resp |-> "none"]
Ended(r) == [pc |-> "ended", batch |-> NoBatch, resp |-> r]

EmptyTrie == [root |-> Nothing, mid |-> Nothing, sub |-> Nothing]

\* Bug seed: a session starts from an empty trie.
OpenedEmpty(d) == EmptyTrie

\* MerkleTrie::initialize: the root comes from the database, and below it what
\* a node has a child for (a child that is not stored loads empty).
Opened(d) ==
    LET mid == [v \in Vts |-> IF \A w \in Siblings(v) : d.root[w] = {}
                               THEN {} ELSE d.mid[v]]
    IN [root |-> d.root, mid |-> mid,
        sub |-> [v \in Vts |-> IF mid[v] = {} THEN {} ELSE d.sub[v]]]

\* start_shard_replication_batch up to its loop: vts that are finished have no
\* work.
Session(d) ==
    /\ mem' = Opened(d)
    /\ task' = [v \in Vts |-> IF d.status[v].fin THEN [Idle EXCEPT !.pc = "joined", !.resp = "finished"]
                              ELSE Idle]
    /\ count' = 0
    /\ stopWork' = FALSE

Init ==
    /\ parallel \in Parallel
    /\ snap = 1
    /\ phase = "merge"
    /\ shutdown = FALSE
    /\ stopWork = FALSE
    /\ task = [v \in Vts |-> Idle]
    /\ count = 0
    /\ db = [msgs |-> Nothing, status |-> NewStatus, root |-> Nothing, mid |-> Nothing,
             sub |-> Nothing, accts |-> Nothing, want |-> Nothing]
    /\ mem = EmptyTrie
    /\ chunk = 0
    /\ fails = 0

Running == {v \in Vts : task[v].pc \notin {"idle", "joined"}}

\* Bug seed: one task too many.
SpawnOneMore(v) ==
    /\ phase = "merge"
    /\ ~ stopWork /\ ~ shutdown
    /\ task[v].pc = "idle"
    /\ \A w \in Vts : w < v => task[w].pc # "idle"
    /\ Cardinality(Running) <= parallel
    /\ task' = [task EXCEPT ![v].pc = "fetch"]
    /\ UNCHANGED <<parallel, snap, phase, shutdown, stopWork, count, mem, db, chunk, fails>>

\* The loop spawns tasks in the order of the vts.
Spawn(v) ==
    /\ phase = "merge"
    /\ ~ stopWork /\ ~ shutdown
    /\ task[v].pc = "idle"
    /\ \A w \in Vts : w < v => task[w].pc # "idle"
    /\ Cardinality(Running) < parallel
    /\ task' = [task EXCEPT ![v].pc = "fetch"]
    /\ UNCHANGED <<parallel, snap, phase, shutdown, stopWork, count, mem, db, chunk, fails>>

\* get_shard_transactions: the peer fails every retry, or the signatures of the page
\* do not validate.  A page that comes touches nothing until it is inserted.
FetchFails(v) ==
    /\ phase = "merge"
    /\ fails < MaxFails
    /\ task[v].pc = "fetch"
    /\ task' = [task EXCEPT ![v] = Ended("error")]
    /\ fails' = fails + 1
    /\ UNCHANGED <<parallel, snap, phase, shutdown, stopWork, count, mem, db, chunk>>

ItemOf(v) == Item(snap, v, db.status[v].next)
FidOf(v) == Account[db.status[v].next]

\* check_fid_roots of account a: what the database has under the account's key
\* against the account root that came with the account's last page.
AccountRootMatches(v, a) == OfAccount(db.accts[v], a) = OfAccount(db.want[v], a)

\* last_fid after the page of v, and the account that is complete when it changes.
LastFid(v) == IF FidOf(v) > db.status[v].fid THEN FidOf(v) ELSE db.status[v].fid
FidsToCheck(v) == IF db.status[v].fid \in 1..(FidOf(v) - 1) THEN {db.status[v].fid} ELSE {}

\* A page has come.  commit_to_trie: under the trie's mutex its keys go into the shared
\* trie; the nodes they change (the node of the vts, the one above it and the
\* root) are the task's batch.  Keys that were there already change no node.
\* Then the account before this page's is checked: when its root is not the
\* snapshot's the task fails and the page stays in the shared trie only.
CommitToTrie(v) ==
    LET item == ItemOf(v)
        new == item \notin mem.sub[v]
        sub == mem.sub[v] \cup {item}
        mid == [mem.mid EXCEPT ![v] = sub]
        root == [w \in Vts |-> IF w \in Siblings(v) THEN mid[w] ELSE mem.root[w]]
    IN /\ phase = "merge"
       /\ task[v].pc = "fetch"
       /\ mem' = IF new THEN [root |-> root, mid |-> mid, sub |-> [mem.sub EXCEPT ![v] = sub]]
                 ELSE mem
       /\ task' = [task EXCEPT ![v] =
                     IF \A a \in FidsToCheck(v) : AccountRootMatches(v, a)
                     THEN [@ EXCEPT !.pc = "commit",
                                    !.batch = IF new THEN [new |-> TRUE, root |-> root,
                                                           mid |-> mid, sub |-> sub]
                                              ELSE NoBatch]
                     ELSE Ended("error")]
       /\ UNCHANGED <<parallel, snap, phase, shutdown, stopWork, count, db, chunk, fails>>

\* What the database holds after a task's batch: the root, the shared node above
\* v, the node of v and that of the page's account as they were in the trie when
\* the task had its mutex.
WriteNodes(d, v, t) ==
    IF ~ t.new THEN d
    ELSE [d EXCEPT !.root = t.root,
                   !.mid = [w \in Vts |-> IF w \in Siblings(v) THEN t.mid[w] ELSE @[w]],
                   !.sub[v] = t.sub,
                   !.accts[v] = (@ \ OfAccount(@, FidOf(v))) \cup OfAccount(t.sub, FidOf(v))]

\* The page and its account root in the database.
WritePage(d, v) ==
    [d EXCEPT !.msgs[v] = @ \cup {ItemOf(v)},
              !.want[v] = (@ \ OfAccount(@, FidOf(v)))
                            \cup OfAccount(Expected(snap)[v], FidOf(v))]

\* Bug seed: a full session ends the task before it looks at the page token.
AfterCommitFullFirst(v) ==
    CASE count > MaxSession -> Ended("dbstopped")
      [] count <= MaxSession /\ db.status[v].next = LastPage ->
           [task[v] EXCEPT !.pc = "finish", !.batch = NoBatch]
      [] count <= MaxSession /\ db.status[v].next # LastPage /\ shutdown -> Ended("stopped")
      [] OTHER -> [task[v] EXCEPT !.pc = "fetch", !.batch = NoBatch]

\* The task after its commit.  A task on its last page has one more commit to
\* do; else it looks at the shutdown flag, then at the answer of the commit
\* that compares the count before this page.
AfterCommit(v) ==
    CASE db.status[v].next = LastPage -> [task[v] EXCEPT !.pc = "finish", !.batch = NoBatch]
      [] db.status[v].next # LastPage /\ shutdown -> Ended("stopped")
      [] db.status[v].next # LastPage /\ ~ shutdown /\ count > MaxSession -> Ended("dbstopped")
      [] OTHER -> [task[v] EXCEPT !.pc = "fetch", !.batch = NoBatch]

\* The page token of the response.  The last page has none, and a status
\* without a token asks for the first page.
NextPage(i) == IF i = LastPage THEN 1 ELSE i + 1

\* Bug seed: a task that is asked to stop saves its progress and not the page.
CommitProgressOnly(v) ==
    /\ phase = "merge"
    /\ task[v].pc = "commit"
    /\ db' = IF shutdown THEN [db EXCEPT !.status[v].next = NextPage(@)]
             ELSE [WritePage(WriteNodes(db, v, task[v].batch), v) EXCEPT
                     !.status[v].next = NextPage(@),
                     !.status[v].fid = LastFid(v)]
    /\ count' = count + 1
    /\ task' = [task EXCEPT ![v] = AfterCommit(v)]
    /\ UNCHANGED <<parallel, snap, phase, shutdown, stopWork, mem, chunk, fails>>

\* commit_to_db, under the database's mutex: the messages, the account root, the
\* trie nodes and the progress of the vts in one write.
CommitToDb(v) ==
    /\ phase = "merge"
    /\ task[v].pc = "commit"
    /\ db' = [WritePage(WriteNodes(db, v, task[v].batch), v) EXCEPT
                 !.status[v].next = NextPage(@),
                 !.status[v].fid = LastFid(v)]
    /\ count' = count + 1
    /\ task' = [task EXCEPT ![v] = AfterCommit(v)]
    /\ UNCHANGED <<parallel, snap, phase, shutdown, stopWork, mem, chunk, fails>>

\* The last page is in and its account is checked: the vts is marked finished, in
\* a commit of its own that counts the page again.
Finish(v) ==
    /\ phase = "merge"
    /\ task[v].pc = "finish"
    /\ AccountRootMatches(v, db.status[v].fid)
    /\ db' = [db EXCEPT !.status[v].fin = TRUE]
    /\ count' = count + 1
    /\ task' = [task EXCEPT ![v] = Ended("finished")]
    /\ UNCHANGED <<parallel, snap, phase, shutdown, stopWork, mem, chunk, fails>>

FinishFails(v) ==
    /\ phase = "merge"
    /\ task[v].pc = "finish"
    /\ ~ AccountRootMatches(v, db.status[v].fid)
    /\ task' = [task EXCEPT ![v] = Ended("error")]
    /\ UNCHANGED <<parallel, snap, phase, shutdown, stopWork, count, mem, db, chunk, fails>>

\* join_next.
Join(v) ==
    /\ phase = "merge"
    /\ task[v].pc = "ended"
    /\ task' = [task EXCEPT ![v].pc = "joined"]
    /\ stopWork' = (stopWork \/ task[v].resp \in {"dbstopped", "error"})
    /\ UNCHANGED <<parallel, snap, phase, shutdown, count, mem, db, chunk, fails>>

\* What the process kept in memory is gone.
Forget ==
    /\ task' = [v \in Vts |-> Idle]
    /\ mem' = EmptyTrie
    /\ count' = 0
    /\ stopWork' = FALSE
    /\ shutdown' = FALSE

\* The loop ends: nothing runs, and nothing more is spawned.
SessionOver ==
    /\ phase = "merge"
    /\ Running = {}
    /\ stopWork \/ shutdown \/ \A v \in Vts : task[v].pc = "joined"

Responses == {task[v].resp : v \in Vts}

\* start_shard_replication_batch returns, and start_shard_replication_main
\* looks at the result.
SessionFails ==
    /\ SessionOver
    /\ "error" \in Responses
    /\ phase' = "failed"
    /\ Forget
    /\ UNCHANGED <<parallel, snap, db, chunk, fails>>

SessionFull ==
    /\ SessionOver
    /\ "error" \notin Responses
    /\ "dbstopped" \in Responses
    /\ IF shutdown
       THEN phase' = "failed" /\ Forget
       ELSE phase' = phase /\ shutdown' = shutdown /\ Session(db)
    /\ UNCHANGED <<parallel, snap, db, chunk, fails>>

SessionStopped ==
    /\ SessionOver
    /\ Responses \cap {"error", "dbstopped"} = {}
    /\ Responses # {"finished"}
    /\ phase' = "failed"
    /\ Forget
    /\ UNCHANGED <<parallel, snap, db, chunk, fails>>

\* Bug seed: the root is taken from the trie that was built in memory.
VerifyMemory ==
    /\ SessionOver
    /\ Responses = {"finished"}
    /\ phase' = IF mem.root = Expected(snap) /\ ~ shutdown THEN "verified" ELSE "failed"
    /\ Forget
    /\ UNCHANGED <<parallel, snap, db, chunk, fails>>

\* verify_shard_roots: the root's hash in the database against the snapshot's
\* chunk.  After a signal the answer is ignored and the process ends.
VerifyShardRoots ==
    /\ SessionOver
    /\ Responses = {"finished"}
    /\ phase' = IF db.root = Expected(snap) /\ ~ shutdown THEN "verified" ELSE "failed"
    /\ Forget
    /\ UNCHANGED <<parallel, snap, db, chunk, fails>>

\* write_final_metadata_to_db: the snapshot's shard chunk becomes the chain's
\* last one.
WriteFinalMetadata ==
    /\ phase = "verified"
    /\ phase' = "metadata"
    /\ chunk' = snap
    /\ UNCHANGED <<parallel, snap, shutdown, stopWork, task, count, mem, db, fails>>

\* cleanup_db: the progress of every vts is deleted.
CleanupDb ==
    /\ phase = "metadata"
    /\ phase' = "clean"
    /\ db' = [db EXCEPT !.status = NewStatus]
    /\ UNCHANGED <<parallel, snap, shutdown, stopWork, task, count, mem, chunk, fails>>

\* move_dir_contents: the snapshot directory becomes the node's database.
Promote ==
    /\ phase = "clean"
    /\ phase' = "promoted"
    /\ UNCHANGED <<parallel, snap, shutdown, stopWork, task, count, mem, db, chunk, fails>>

\* ctrl_c: the tasks are asked to stop.
CtrlC ==
    /\ phase = "merge"
    /\ fails < MaxFails
    /\ ~ shutdown
    /\ shutdown' = TRUE
    /\ fails' = fails + 1
    /\ UNCHANGED <<parallel, snap, phase, stopWork, task, count, mem, db, chunk>>

Crash ==
    /\ phase \in {"merge", "verified", "metadata", "clean"}
    /\ fails < MaxFails
    /\ phase' = "failed"
    /\ fails' = fails + 1
    /\ Forget
    /\ UNCHANGED <<parallel, snap, db, chunk>>

\* bootstrap_using_replication is called again on a directory where an earlier
\* call stopped, which is what the saved progress is for and what main does not
\* do.  It takes the peer's newest snapshot, and the progress it finds may be
\* that of the one before.
Resume ==
    /\ phase = "failed"
    /\ phase' = "merge"
    /\ snap' \in (IF Changed = {} THEN {1} ELSE {snap, 2})
    /\ Session(db)
    /\ UNCHANGED <<parallel, shutdown, db, chunk, fails>>

\* main: the database directory holds .snapshot, is_dir_empty is false, and
\* the node starts without the bootstrap.
StartNode ==
    /\ phase = "failed"
    /\ phase' = "node"
    /\ UNCHANGED <<parallel, snap, shutdown, stopWork, task, count, mem, db, chunk, fails>>

\* The process is done: the node starts.
Done ==
    /\ phase \in {"promoted", "node"}
    /\ UNCHANGED vars

\* What the process does by itself.
Step ==
    \/ \E v \in Vts : \/ Spawn(v) \/ CommitToTrie(v) \/ CommitToDb(v)
                      \/ Finish(v) \/ FinishFails(v) \/ Join(v)
    \/ SessionFails \/ SessionFull \/ SessionStopped \/ VerifyShardRoots
    \/ WriteFinalMetadata \/ CleanupDb \/ Promote

Next ==
    \/ Step
    \/ \E v \in Vts : FetchFails(v)
    \/ CtrlC
    \/ Crash
    \/ Resume
    \/ StartNode
    \/ Done

Spec == Init /\ [][Next]_vars

\* Every task and the loop that waits for them go on while the process runs.
\* Nobody is assumed to start it again.
FairSpec == Spec /\ WF_vars(Step)

-----------------------------------------------------------------------------
Statuses == [next : Pages, fid : {0} \cup {Account[i] : i \in Pages}, fin : BOOLEAN]
Views == [Vts -> SUBSET ({Item(s, v, i) : s \in {1, 2}, v \in Vts, i \in Pages})]

(* Types: the tasks, the trie and the database of a bootstrap.             *)
TypeOK ==
    /\ parallel \in Parallel /\ snap \in {1, 2}
    /\ phase \in {"merge", "failed", "verified", "metadata", "clean", "promoted", "node"}
    /\ shutdown \in BOOLEAN /\ stopWork \in BOOLEAN
    /\ \A v \in Vts :
          /\ task[v].pc \in {"idle", "fetch", "commit", "finish", "ended", "joined"}
          /\ task[v].resp \in {"none", "error", "dbstopped", "stopped", "finished"}
          /\ task[v].batch.new => task[v].pc = "commit" /\ ItemOf(v) \in task[v].batch.sub
    /\ {mem.root, mem.mid, mem.sub} \subseteq Views
    /\ {db.msgs, db.root, db.mid, db.sub, db.accts, db.want} \subseteq Views
    /\ db.status \in [Vts -> Statuses]
    /\ chunk \in 0..2
    /\ Cardinality(Running) <= parallel

(* Progress is never ahead of the data: the pages before the one a vts     *)
(* asks for next are in the database, whatever was cut short, unless the   *)
(* peer moved to another snapshot in between (service.rs:977).             *)
ProgressIsDurable ==
    snap = 1 => \A v \in Vts :
        {Item(1, v, i) : i \in 1..(db.status[v].next - 1)} \subseteq db.msgs[v]

(* With one task at a time, a shard whose every vts is finished has the    *)
(* snapshot's trie at every level: crashes, full sessions and resumes lose *)
(* no node (service.rs:1126).                                              *)
SerialVerifies ==
    parallel = 1 /\ snap = 1 /\ (\A v \in Vts : db.status[v].fin) =>
        {db.root, db.mid, db.sub} = {Expected(1)}

(* A database that becomes the node's ends with the shard chunk of the     *)
(* snapshot it was verified against, has the root of that chunk and every  *)
(* message and account of it, however many tasks built it.  Its trie is    *)
(* whole at every level if one task at a time built it.  With more, the    *)
(* root is all verify_shard_roots compares (service.rs:1126): nodes below  *)
(* it that a task wrote late may have lost a page, for good when another   *)
(* commit puts the right hash into the root.  No other message is there if *)
(* one task at a time built it or it was built from one snapshot.          *)
PromotedIsTheSnapshot ==
    phase = "promoted" =>
        /\ chunk = snap
        /\ db.root = Expected(chunk)
        /\ \A v \in Vts : Expected(chunk)[v] \subseteq db.msgs[v] \cap db.accts[v]
        /\ parallel = 1 => {db.mid, db.sub} = {Expected(chunk)}
        /\ parallel = 1 \/ snap = 1 => db.msgs = Expected(chunk)

(* Without a crash, a signal or a failed request a bootstrap comes to an   *)
(* end, whatever the sizes of its sessions: it is promoted, or, with more  *)
(* than one task, its root is found wrong.                                 *)
BootstrapEnds ==
    <>(phase = "promoted" \/ fails > 0 \/ (parallel > 1 /\ phase = "failed"))

(* A shard whose every vts is finished has the snapshot's root: the        *)
(* progress saved with the pages is `a proper "checkpoint" for us to       *)
(* resume' (service.rs:109), for any number of tasks.                      *)
FinishedVerifies ==
    snap = 1 /\ (\A v \in Vts : db.status[v].fin) => db.root = Expected(1)

=============================================================================
