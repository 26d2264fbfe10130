----------------------------- MODULE Writeback -----------------------------
(***************************************************************************)
(* The writeback queue of a mount: the SQLite table of work owed to the    *)
(* server, the callers that add, replace and withdraw rows, and the two    *)
(* kinds of worker that drain it: the processor loop and the concurrent    *)
(* FlushAll calls (IPC "flush", shutdown).  What a transfer answers and    *)
(* whether the file changed meanwhile are nondeterministic here; SyncFile  *)
(* decides both from the contents of a file.                               *)
(***************************************************************************)
EXTENDS Integers, FiniteSets

CONSTANTS
    Inodes,         \* ids of table inodes
    Flushers,       \* concurrent FlushAll callers
    RowIds,         \* bound: queue rows alive at once
    BatchSize,      \* processBatchSize
    MaxRetries,     \* maxRetries
    Debounce,       \* debounceDelay, in clock units
    RetryDelays     \* the delays writebackRetryDelay can return

ASSUME ConstantsAssumption ==
    /\ BatchSize \in Nat \ {0} /\ MaxRetries \in Nat \ {0}
    /\ Debounce \in Nat /\ RetryDelays \subseteq Nat
    /\ IsFiniteSet(RowIds) /\ "loop" \notin Flushers

VARIABLES
    inode,      \* table inodes: sync_status ("absent": no row) and dirty
    queue,      \* table writeback_queue
    worker      \* the processor loop and the FlushAll callers

vars == <<inode, queue, worker>>

Workers == Flushers \cup {"loop"}
Kinds == {"upload", "delete"}    \* mkdir and rename take delete's path
Statuses == {"absent", "synced", "pending", "rejected", "failed", "conflict"}

Inode == [status : Statuses, dirty : BOOLEAN]
NoInode == [status |-> "absent", dirty |-> FALSE]

\* due is enqueued_at relative to the present, no less than -Debounce: what is
\* older than that is claimed like that.
Row == [state : {"pending", "in_progress", "failed"}, id : Inodes,
        action : Kinds, due : Int, attempts : 0 .. MaxRetries]
NoRow == [state |-> "none"]

\* A WritebackEntry: the copy of its row a worker keeps in memory.
Entry == [row : RowIds, id : Inodes, action : Kinds, attempts : 0 .. MaxRetries]
EntryOf(r) == [row |-> r, id |-> queue[r].id, action |-> queue[r].action,
               attempts |-> queue[r].attempts]

\* pc: "idle"; "claim" (FlushAll before DequeueWriteback); "batch" (between two
\* entries); "sending" (inside the transfer of cur); "doomed" (cur has no inode
\* to upload); "settle" (transfer done, row deleted).
Worker == [pc : {"idle", "claim", "batch", "sending", "doomed", "settle"},
           batch : SUBSET Entry, held : SUBSET Entry, cur : SUBSET Entry,
           size : Nat]
Idle == [pc |-> "idle", batch |-> {}, held |-> {}, cur |-> {}, size |-> 0]

Carried(w) == worker[w].batch \cup worker[w].held \cup worker[w].cur
InHand(w) == {e.row : e \in Carried(w)}

-----------------------------------------------------------------------------
(* Statements on the two tables.                                           *)

Live == {r \in RowIds : queue[r].state # "none"}
RowsOf(i) == {r \in Live : queue[r].id = i}
Active(i, a) == \E r \in RowsOf(i) : /\ queue[r].action = a
                                     /\ queue[r].state \in {"pending", "in_progress"}

\* Row ids are AUTOINCREMENT in the source; here one is used again once neither
\* the table nor a worker mentions it.
FreeRows == {r \in RowIds \ Live : \A w \in Workers : r \notin InHand(w)}
NextRow == CHOOSE r \in FreeRows : TRUE

Without(S) == [r \in RowIds |-> IF r \in S THEN NoRow ELSE queue[r]]

\* EnqueueWriteback: the pending row of the same inode and action is replaced.
Superseded(i, a) == {r \in RowsOf(i) : /\ queue[r].action = a
                                       /\ queue[r].state = "pending"}
NewRow(i, a) == [state |-> "pending", id |-> i, action |-> a, due |-> 0,
                 attempts |-> 0]
EnqueueWriteback(i, a, gone) ==
    /\ FreeRows # {}
    /\ queue' = [Without(gone \cup Superseded(i, a)) EXCEPT ![NextRow] = NewRow(i, a)]

\* An UPDATE of a row that is gone changes nothing.
SetInode(i, status, dirty) ==
    inode' = IF inode[i].status = "absent" THEN inode
             ELSE [inode EXCEPT ![i] = [status |-> status, dirty |-> dirty]]
UpsertInode(i, status, dirty) ==
    inode' = [inode EXCEPT ![i] = [status |-> status,
                                   dirty |-> inode[i].dirty \/ dirty]]

-----------------------------------------------------------------------------
(* The callers: the VFS, watcher, downloader, poller, reconciler and IPC   *)
(* verbs.                                                                  *)

\* A new or changed file: the inode is upserted and an upload queued.
QueueUpload(i) ==
    /\ UpsertInode(i, "pending", TRUE)
    /\ EnqueueWriteback(i, "upload", {})
    /\ UNCHANGED worker

\* The same for a file ValidateFile refuses: rows already queued stay.
Reject(i) ==
    /\ UpsertInode(i, "rejected", TRUE)
    /\ UNCHANGED <<queue, worker>>

\* handleRemove: a file the server has is owed a delete, any other is forgotten.
QueueDelete(i) ==
    /\ inode[i].status \in {"synced", "conflict"}
    /\ EnqueueWriteback(i, "delete", {})
    /\ UNCHANGED <<inode, worker>>
Forget(i) ==
    /\ inode[i].status \in {"pending", "rejected", "failed"}
    /\ inode' = [inode EXCEPT ![i] = NoInode]
    /\ queue' = Without(RowsOf(i))
    /\ UNCHANGED worker

\* The poller drops the inode of a path that is gone from the server.  Its guard
\* looks at the inode of the tree's node, which need not be this one (SyncFile).
Prune(i) ==
    /\ inode[i].status # "absent"
    /\ inode' = [inode EXCEPT ![i] = NoInode]
    /\ UNCHANGED <<queue, worker>>

\* A listing (re)builds the inode of a file the server has; and the status alone
\* is set by the poller (conflict), the downloader (synced, failed), a listing
\* and the reconciler (rejected).
Listed(i) ==
    /\ UpsertInode(i, "synced", FALSE)
    /\ UNCHANGED <<queue, worker>>
SetSyncStatus(i) ==
    /\ inode[i].status # "absent"
    /\ \E s \in Statuses \ {"absent", "pending"} : SetInode(i, s, inode[i].dirty)
    /\ UNCHANGED <<queue, worker>>

\* The reconciler: a drifted or failed file is uploaded again, and so is a
\* pending one whose row was lost.
FailedUploads(i) == {r \in RowsOf(i) : /\ queue[r].action = "upload"
                                       /\ queue[r].state = "failed"}
Requeue(i) ==
    /\ inode[i].status \in {"synced", "failed", "pending"}
    /\ ~Active(i, "upload")
    /\ IF inode[i].status = "pending"
       THEN /\ UNCHANGED inode
            /\ EnqueueWriteback(i, "upload", {})
       ELSE /\ UpsertInode(i, "pending", TRUE)
            /\ EnqueueWriteback(i, "upload", FailedUploads(i))
    /\ UNCHANGED worker

\* A remote change met a local one (poller, downloader, reconciler).
MarkConflict(i) ==
    /\ inode[i].status # "absent"
    /\ SetInode(i, "conflict", TRUE)
    /\ UNCHANGED <<queue, worker>>

\* resolveConflict "local"; "remote" and "both" withdraw the inode's rows.
ResolveLocal(i) ==
    /\ inode[i].status = "conflict"
    /\ SetInode(i, "pending", TRUE)
    /\ EnqueueWriteback(i, "upload", RowsOf(i))
    /\ UNCHANGED worker
ResolveRemote(i) ==
    /\ inode[i].status = "conflict"
    /\ SetInode(i, "synced", FALSE)
    /\ queue' = Without(RowsOf(i))
    /\ UNCHANGED worker

\* retryFailed, for one inode with a failure latch.
RetryFailed(i) ==
    /\ inode[i].status \notin {"absent", "conflict", "rejected"}
    /\ IF inode[i].dirty
       THEN /\ SetInode(i, "pending", TRUE)
            /\ EnqueueWriteback(i, "upload", FailedUploads(i))
       ELSE /\ SetInode(i, "synced", FALSE)
            /\ queue' = Without(FailedUploads(i))
    /\ UNCHANGED worker

\* A virtual mount's VFS: a file is created, flushed after a write (its inode
\* may be gone by then) and unlinked; its retryFailed queues nothing.
Create(i) ==
    /\ UpsertInode(i, "pending", TRUE)
    /\ UNCHANGED <<queue, worker>>
Flush(i) ==
    /\ SetInode(i, "pending", TRUE)
    /\ EnqueueWriteback(i, "upload", {})
    /\ UNCHANGED worker
Unlink(i) ==
    /\ inode' = [inode EXCEPT ![i] = NoInode]
    /\ queue' = Without(RowsOf(i))
    /\ UNCHANGED worker
ClearFailed(i) ==
    /\ inode[i].status \notin {"absent", "conflict", "rejected"}
    /\ SetInode(i, "pending", inode[i].dirty)
    /\ queue' = Without(FailedUploads(i))
    /\ UNCHANGED worker

-----------------------------------------------------------------------------
(* The workers.                                                            *)

\* Mutant: the claim does not look at the status.
Claimable_AnyStatus(w) ==
    {r \in Live : /\ queue[r].state # "failed"
                  /\ queue[r].due <= IF w = "loop" THEN -Debounce ELSE 1}

\* The pending rows DequeueWriteback may take: processBatch waits for the
\* debounce, FlushAll takes everything due up to one second ahead.
Claimable(w) ==
    {r \in Live : /\ queue[r].state = "pending"
                  /\ queue[r].due <= IF w = "loop" THEN -Debounce ELSE 1}

\* The oldest BatchSize of them, rows of one second in any order.  The batch is
\* a set: UPDATE ... RETURNING promises no order.
OldestBatch(w, S) ==
    /\ S \subseteq Claimable(w) /\ S # {}
    /\ Cardinality(S) <= BatchSize
    /\ S # Claimable(w) => Cardinality(S) = BatchSize
    /\ \A r \in S, s \in Claimable(w) \ S : queue[r].due <= queue[s].due

\* requeue: every entry of E writes its attempts back to its row, if that exists.
Requeued(E) ==
    [r \in RowIds |-> IF r \in Live /\ \E e \in E : e.row = r
                      THEN [queue[r] EXCEPT !.state = "pending",
                              !.attempts = (CHOOSE e \in E : e.row = r).attempts]
                      ELSE queue[r]]

FlushStart(w) ==
    /\ w \in Flushers /\ worker[w].pc = "idle"
    /\ worker' = [worker EXCEPT ![w].pc = "claim"]
    /\ UNCHANGED <<inode, queue>>

FlushReturn(w) ==
    /\ worker[w].pc = "claim" /\ Claimable(w) = {}
    /\ worker' = [worker EXCEPT ![w].pc = "idle"]
    /\ UNCHANGED <<inode, queue>>

\* Mutant: rows are read without being marked in progress.
DequeueWriteback_NoMark(w) ==
    /\ worker[w].pc = IF w = "loop" THEN "idle" ELSE "claim"
    /\ \E S \in SUBSET Claimable(w) :
         /\ OldestBatch(w, S)
         /\ worker' = [worker EXCEPT ![w] =
                         [Idle EXCEPT !.pc = "batch",
                                      !.batch = {EntryOf(r) : r \in S},
                                      !.size = Cardinality(S)]]
    /\ UNCHANGED <<inode, queue>>

DequeueWriteback(w) ==
    /\ worker[w].pc = IF w = "loop" THEN "idle" ELSE "claim"
    /\ \E S \in SUBSET Claimable(w) :
         /\ OldestBatch(w, S)
         /\ queue' = [r \in RowIds |->
                        IF r \in S THEN [queue[r] EXCEPT !.state = "in_progress"]
                                   ELSE queue[r]]
         /\ worker' = [worker EXCEPT ![w] =
                         [Idle EXCEPT !.pc = "batch",
                                      !.batch = {EntryOf(r) : r \in S},
                                      !.size = Cardinality(S)]]
    /\ UNCHANGED inode

heldByConflict(e) == e.action = "upload" /\ inode[e.id].status = "conflict"

Hold(w) ==
    /\ worker[w].pc = "batch"
    /\ \E e \in worker[w].batch :
         /\ heldByConflict(e)
         /\ worker' = [worker EXCEPT ![w].batch = @ \ {e}, ![w].held = @ \cup {e}]
    /\ UNCHANGED <<inode, queue>>

\* processEntry up to the transfer; an upload needs its inode.
processEntry(w) ==
    /\ worker[w].pc = "batch"
    /\ \E e \in worker[w].batch :
         /\ ~heldByConflict(e)
         /\ worker' = [worker EXCEPT ![w].batch = @ \ {e}, ![w].cur = {e},
                ![w].pc = IF e.action = "upload" /\ inode[e.id].status = "absent"
                          THEN "doomed" ELSE "sending"]
    /\ UNCHANGED <<inode, queue>>

\* processEntry after a success: the row is deleted first, the outcome is
\* recorded once the local file has been looked at again.
Succeed(w) ==
    /\ worker[w].pc = "sending"
    /\ queue' = Without({e.row : e \in worker[w].cur})
    /\ worker' = [worker EXCEPT ![w].pc = "settle"]
    /\ UNCHANGED inode

Done(w) == worker' = [worker EXCEPT ![w].pc = "batch", ![w].cur = {}]

Settle(w) ==
    /\ worker[w].pc = "settle"
    /\ \E e \in worker[w].cur : SetInode(e.id, "synced", FALSE)
    /\ Done(w)
    /\ UNCHANGED queue

\* The file changed under its upload: it is owed another, or a delete.
Resend(w, a) ==
    /\ worker[w].pc = "settle"
    /\ \E e \in worker[w].cur :
         /\ e.action = "upload"
         /\ SetInode(e.id, "pending", TRUE)
         /\ EnqueueWriteback(e.id, a, {})
    /\ Done(w)

\* Mutant: a transient error is always retried.
Defer_Unbounded(w) ==
    /\ worker[w].pc \in {"sending", "doomed"}
    /\ \E e \in worker[w].cur, d \in RetryDelays :
         /\ SetInode(e.id, "pending", inode[e.id].dirty)
         /\ queue' = IF e.row \notin Live THEN queue
                     ELSE [queue EXCEPT ![e.row] =
                             [@ EXCEPT !.state = "pending", !.due = d,
                                       !.attempts = e.attempts + 1]]
    /\ Done(w)

\* processEntry after an error: the row is parked for a retry, or given up on
\* the last attempt or a permanent error (a missing inode is none).
Defer(w) ==
    /\ worker[w].pc \in {"sending", "doomed"}
    /\ \E e \in worker[w].cur, d \in RetryDelays :
         /\ e.attempts + 1 < MaxRetries
         /\ SetInode(e.id, "pending", inode[e.id].dirty)
         /\ queue' = IF e.row \notin Live THEN queue
                     ELSE [queue EXCEPT ![e.row] =
                             [@ EXCEPT !.state = "pending", !.due = d,
                                       !.attempts = e.attempts + 1]]
    /\ Done(w)
GiveUp(w) ==
    /\ worker[w].pc \in {"sending", "doomed"}
    /\ \E e \in worker[w].cur :
         /\ worker[w].pc = "sending" \/ e.attempts + 1 = MaxRetries
         /\ SetInode(e.id, "failed", inode[e.id].dirty)
         /\ queue' = IF e.row \notin Live THEN queue
                     ELSE [queue EXCEPT ![e.row] =
                             [@ EXCEPT !.state = "failed",
                                       !.attempts = e.attempts + 1]]
    /\ Done(w)

\* Mutant: FlushAll goes round for as long as it claims anything.
EndBatch_NoStop(w) ==
    /\ worker[w].pc = "batch" /\ worker[w].batch = {}
    /\ queue' = Requeued(worker[w].held)
    /\ worker' = [worker EXCEPT ![w] = [Idle EXCEPT !.pc = IF w # "loop" THEN "claim" ELSE "idle"]]
    /\ UNCHANGED inode

\* The end of a batch: held rows go back, and FlushAll goes round again unless
\* it held them all.
EndBatch(w) ==
    /\ worker[w].pc = "batch" /\ worker[w].batch = {}
    /\ queue' = Requeued(worker[w].held)
    /\ worker' = [worker EXCEPT ![w] =
         [Idle EXCEPT !.pc =
            IF w # "loop" /\ Cardinality(worker[w].held) # worker[w].size
            THEN "claim" ELSE "idle"]]
    /\ UNCHANGED inode

\* Mutant: a cancelled batch gives back only what it held.
Cancel_Partial(w) ==
    /\ worker[w].pc = "batch" /\ worker[w].batch # {}
    /\ queue' = Requeued(worker[w].held)
    /\ worker' = [worker EXCEPT ![w] = Idle]
    /\ UNCHANGED inode

\* The worker's context ends (flush timeout, Stop) between two entries.
Cancel(w) ==
    /\ worker[w].pc = "batch" /\ worker[w].batch # {}
    /\ queue' = Requeued(worker[w].batch \cup worker[w].held)
    /\ worker' = [worker EXCEPT ![w] = Idle]
    /\ UNCHANGED inode

\* Mutants: claims survive the process; failed rows are requeued with the rest.
Restart_KeepsClaims(gone) ==
    /\ gone \subseteq {i \in Inodes : inode[i].status \in {"failed", "rejected"}}
    /\ queue' = [r \in RowIds |-> IF r \in Live /\ queue[r].state # "failed" THEN queue[r] ELSE NoRow]
    /\ inode' = [i \in Inodes |-> IF i \in gone THEN NoInode ELSE inode[i]]
    /\ worker' = [w \in Workers |-> Idle]
Restart_RevivesFailed(gone) ==
    /\ gone \subseteq {i \in Inodes : inode[i].status \in {"failed", "rejected"}}
    /\ queue' = [r \in RowIds |-> IF r \in Live /\ queue[r].id \notin gone
                                  THEN [queue[r] EXCEPT !.state = "pending"] ELSE NoRow]
    /\ inode' = [i \in Inodes |-> IF i \in gone THEN NoInode ELSE inode[i]]
    /\ worker' = [w \in Workers |-> Idle]

\* The process dies and the mount is opened again: RequeueInProgress, then
\* cleanupStaleEntries, which forgets the failed and rejected inodes whose
\* file is gone.
Restart(gone) ==
    /\ gone \subseteq {i \in Inodes : inode[i].status \in {"failed", "rejected"}}
    /\ queue' = [r \in RowIds |->
                   IF r \in Live
                   THEN IF queue[r].state = "failed" \/ queue[r].id \in gone
                        THEN NoRow ELSE [queue[r] EXCEPT !.state = "pending"]
                   ELSE NoRow]
    /\ inode' = [i \in Inodes |-> IF i \in gone THEN NoInode ELSE inode[i]]
    /\ worker' = [w \in Workers |-> Idle]

Aged(r) == IF r \in Live /\ queue[r].due > -Debounce
           THEN [queue[r] EXCEPT !.due = @ - 1] ELSE queue[r]
Tick ==
    /\ \E r \in Live : queue[r].due > -Debounce
    /\ queue' = [r \in RowIds |-> Aged(r)]
    /\ UNCHANGED <<inode, worker>>

-----------------------------------------------------------------------------
Init ==
    /\ inode = [i \in Inodes |-> NoInode]
    /\ queue = [r \in RowIds |-> NoRow]
    /\ worker = [w \in Workers |-> Idle]

Call(i) ==
    \/ QueueUpload(i) \/ Reject(i) \/ QueueDelete(i) \/ Forget(i) \/ Prune(i)
    \/ Listed(i) \/ SetSyncStatus(i) \/ Requeue(i) \/ MarkConflict(i)
    \/ ResolveLocal(i) \/ ResolveRemote(i) \/ RetryFailed(i)
    \/ Create(i) \/ Flush(i) \/ Unlink(i) \/ ClearFailed(i)

Progress(w) ==
    \/ FlushReturn(w) \/ DequeueWriteback(w) \/ Hold(w) \/ processEntry(w)
    \/ Succeed(w) \/ Settle(w) \/ Defer(w) \/ GiveUp(w) \/ EndBatch(w)

Next ==
    \/ \E i \in Inodes : Call(i)
    \/ \E w \in Workers : \/ FlushStart(w) \/ Progress(w) \/ Cancel(w)
                          \/ \E a \in Kinds : Resend(w, a)
    \/ \E gone \in SUBSET Inodes : Restart(gone)
    \/ Tick

Spec == Init /\ [][Next]_vars

-----------------------------------------------------------------------------
(* Properties.                                                             *)

\* Every variable keeps its type; in particular a row's attempts stay within
\* maxRetries.
TypeOK ==
    /\ inode \in [Inodes -> Inode]
    /\ queue \in [RowIds -> Row \cup {NoRow}]
    /\ worker \in [Workers -> Worker]

\* DequeueWriteback hands a row to one caller: the loop and the FlushAll
\* callers never carry the same row, so no entry is worked on twice at once.
ClaimExclusive ==
    \A v, w \in Workers : v # w => InHand(v) \cap InHand(w) = {}

\* An in-progress row is being carried by a worker.  DequeueWriteback takes
\* pending rows only, so a row left in progress by nobody would be stuck until
\* the mount is opened again.
NoOrphanInProgress ==
    \A r \in Live : queue[r].state = "in_progress" =>
        \E w \in Workers : r \in InHand(w)

\* A worker's copy of a row agrees with the table for as long as the row
\* exists, and the row is in progress: writing the copy back (requeue,
\* DeferWriteback) never revives a settled row or undoes a retry count.
CopiesAgree ==
    \A w \in Workers : \A e \in Carried(w) :
        e.row \in Live => /\ queue[e.row].state = "in_progress"
                          /\ EntryOf(e.row) = e

\* A row waiting for a worker has a retry left, so the attempts of a transfer
\* end after maxRetries.
RetryBudget ==
    \A r \in Live : queue[r].state # "failed" => queue[r].attempts < MaxRetries

\* A failed row is only ever withdrawn: no flush, retry or cancelled batch
\* takes it up again.
FailedIsFinal ==
    [][\A r \in Live : queue[r].state = "failed" =>
            queue'[r].state \in {"failed", "none"}]_vars
=============================================================================
