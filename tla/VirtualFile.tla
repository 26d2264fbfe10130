---------------------------- MODULE VirtualFile ----------------------------
(***************************************************************************)
(* One file of a virtual (FUSE) mount: the VFS node with its write buffer, *)
(* the blob cache and the inode row behind it, the processes that open,    *)
(* write, flush, close and unlink it, the poller, the evictor and the      *)
(* writeback workers (module Writeback).  A content is a number, larger    *)
(* for a later one, and is its own hash.                                   *)
(***************************************************************************)
EXTENDS Writeback, FiniteSetsExt

CONSTANTS
    Procs,          \* processes using the mount
    MaxData         \* bound: contents ever written, here or elsewhere

ASSUME ProcsAssumption == IsFiniteSet(Procs)

Data == 1 .. MaxData
NoEtag == <<0, 0>>
NoCopy == [data |-> 0, etag |-> NoEtag]

VARIABLES
    srv,        \* the server's copy: [data, etag]
    written,    \* how many contents exist
    node,       \* the vfs.Node of the file
    meta,       \* table inodes: cached, content_hash, etag; table sync_failures
    blobs,      \* the blob store: hash -> content, 0: no such blob
    proc,       \* per process: its handle, or the call it is in
    unl,        \* the Unlink under way
    ev,         \* the eviction under way
    poll,       \* the listing a poll cycle holds
    ul,         \* per worker: the upload it is in
    receipt,    \* per row: the content the server took under the row's key
    had,        \* history: the contents the server took
    keep,       \* history: the last content written to the file, 0 once unlinked
    owed        \* history: the last content a Flush started with

fvars == <<inode, queue, worker, srv, written, node, meta, blobs, proc, unl, ev,
           poll, ul, receipt, had, keep, owed>>
wbVars == <<queue, worker, ul, receipt>>

\* here: attached to the tree and found by NodeByID.
NoNode == [id |-> 0, here |-> FALSE, opens |-> 0, cached |-> FALSE, hash |-> 0,
           data |-> 0, dirty |-> FALSE, status |-> "synced", etag |-> NoEtag,
           loading |-> FALSE]
NoMeta == [cached |-> FALSE, hash |-> 0, etag |-> NoEtag, latch |-> FALSE]
\* alias: buf is the node's own buffer, not a copy.
NoProc == [pc |-> "none", buf |-> 0, alias |-> FALSE, hash |-> 0, old |-> 0,
           then |-> "none"]
NoUnl == [pc |-> "idle", id |-> 0, hash |-> 0]
NoEv == [pc |-> "idle", id |-> 0, hash |-> 0]
NoPoll == [pc |-> "idle", data |-> 0, etag |-> NoEtag]
NoUl == [data |-> 0, etag |-> NoEtag, node |-> 0, wrote |-> FALSE,
         alias |-> FALSE, answered |-> FALSE, clean |-> FALSE]

-----------------------------------------------------------------------------
(* The records.                                                            *)

Present == {i \in Inodes : inode[i].status # "absent"}
Mentioned == {node.id, unl.id, ev.id} \cup {queue[r].id : r \in Live}
             \cup UNION {{e.id : e \in Carried(w)} : w \in Workers}
FreshIds == Inodes \ (Present \cup Mentioned)
PathIds == IF Present = {} /\ FreshIds # {} THEN {CHOOSE i \in FreshIds : TRUE}
           ELSE Present
NewEtag(d) ==
    LET used == {srv.etag, node.etag, poll.etag} \cup {meta[i].etag : i \in Inodes}
                \cup {ul[w].etag : w \in Workers}
    IN <<d, Min({n \in 1 .. 8 : <<d, n>> \notin used})>>

NodeByID(i) == node.here /\ node.id = i
SetMeta(i, m) == meta' = IF i \in Present THEN [meta EXCEPT ![i] = m] ELSE meta
Invalidated(m) == [m EXCEPT !.cached = FALSE, !.hash = 0]
ReleaseBlob(h) == blobs' = [d \in Data |-> IF d = h THEN 0 ELSE blobs[d]]
FreshReceipts ==
    receipt' = [r \in RowIds |-> IF queue'[r] # queue[r] THEN 0 ELSE receipt[r]]

\* What a Read gives; 0 is an error.
Read == IF node.dirty /\ node.data # 0 THEN node.data
        ELSE IF node.cached /\ node.hash # 0 THEN blobs[node.hash] ELSE 0

\* Bound: the path gets a new node once nothing is under way on the old one.
Unheld == /\ ~node.here /\ node.opens = 0 /\ unl.pc = "idle" /\ ev.pc = "idle"
          /\ \A p \in Procs : proc[p].pc = "none"
          /\ \A w \in Workers : ul[w] = NoUl

-----------------------------------------------------------------------------
(* Open and its download.                                                  *)

openKeeps == <<wbVars, srv, written, unl, ev, poll, had, keep, owed>>

Open(p) ==
    /\ proc[p].pc = "none" /\ node.here
    /\ node' = [node EXCEPT !.opens = @ + 1,
                            !.loading = @ \/ ~(node.cached \/ node.dirty)]
    /\ proc' = [proc EXCEPT ![p].pc = IF node.cached \/ node.dirty THEN "open"
                                      ELSE IF node.loading THEN "waiting" ELSE "loading"]
    /\ UNCHANGED <<inode, meta, blobs, openKeeps>>

\* Mutant: the waiters are only woken by a success.
finishDownload_NoClose(p, ok) ==
    proc' = [q \in Procs |-> IF q = p THEN [NoProc EXCEPT !.pc = IF ok THEN "open" ELSE "none"]
                             ELSE IF ok /\ proc[q].pc = "waiting" THEN [proc[q] EXCEPT !.pc = "woken"]
                             ELSE proc[q]]

\* close(DownloadCh) wakes every process that waits for this download.
finishDownload(p, ok) ==
    proc' = [q \in Procs |-> IF q = p THEN [NoProc EXCEPT !.pc = IF ok THEN "open" ELSE "none"]
                             ELSE IF proc[q].pc = "waiting" THEN [proc[q] EXCEPT !.pc = "woken"]
                             ELSE proc[q]]

\* downloadAndCache: the content is the server's of that moment.
fetch(p) ==
    /\ proc[p].pc = "loading" /\ srv.data # 0 /\ ~meta[node.id].latch
    /\ proc' = [proc EXCEPT ![p].pc = "fetched", ![p].buf = srv.data]
    /\ UNCHANGED <<inode, meta, blobs, node, openKeeps>>

\* Put, MarkCached and settleDownloadFailure(nil).
downloadAndCache(p) ==
    LET d == proc[p].buf
    IN /\ proc[p].pc = "fetched"
       /\ blobs' = [blobs EXCEPT ![d] = IF @ = 0 THEN d ELSE @]
       /\ node' = [node EXCEPT !.cached = TRUE, !.hash = d, !.loading = FALSE]
       /\ SetMeta(node.id, [meta[node.id] EXCEPT !.cached = TRUE, !.hash = d, !.latch = FALSE])
       /\ SetInode(node.id, "synced", inode[node.id].dirty)
       /\ finishDownload(p, TRUE)
       /\ UNCHANGED openKeeps

\* The barrier holds after a permanent failure, or the download fails: for the
\* moment, or for good (recorded on the inode).
downloadFails(p) ==
    /\ proc[p].pc = "loading"
    /\ node' = [node EXCEPT !.loading = FALSE, !.opens = @ - 1]
    /\ finishDownload(p, FALSE)
    /\ \/ UNCHANGED <<inode, meta>>
       \/ /\ ~meta[node.id].latch
          /\ SetInode(node.id, "failed", inode[node.id].dirty)
          /\ SetMeta(node.id, [meta[node.id] EXCEPT !.latch = TRUE])
    /\ UNCHANGED <<blobs, openKeeps>>

\* Mutants: a waiter drops its count whatever the download did; it leaves its
\* count behind when the download failed.
wake_KeepsCount(p) ==
    /\ proc[p].pc = "woken"
    /\ proc' = [proc EXCEPT ![p].pc = IF node.cached THEN "open" ELSE "none"]
    /\ UNCHANGED <<node, inode, meta, blobs, openKeeps>>

wake(p) ==
    /\ proc[p].pc = "woken"
    /\ proc' = [proc EXCEPT ![p].pc = IF node.cached THEN "open" ELSE "none"]
    /\ node' = IF node.cached THEN node ELSE [node EXCEPT !.opens = @ - 1]
    /\ UNCHANGED <<inode, meta, blobs, openKeeps>>
-----------------------------------------------------------------------------
(* Write, Truncate, Flush and Release.                                     *)

writeKeeps == <<inode, queue, worker, receipt, srv, meta, blobs, unl, ev, poll, had>>

\* A write replaces the buffer or, within its length, changes it in place under
\* a Flush or an upload that is reading it without the lock: the Flush sees the
\* new bytes from then on, the upload may.
edit(d) ==
    /\ written < MaxData /\ written' = written + 1
    /\ node.data = 0 /\ node.cached /\ node.hash # 0 => blobs[node.hash] # 0
    /\ node' = [node EXCEPT !.data = d, !.dirty = TRUE, !.status = "pending"]
    /\ keep' = IF node.here THEN d ELSE keep
    /\ \E inPlace, seen \in BOOLEAN :
         /\ inPlace => node.data # 0
         /\ seen => inPlace
         /\ proc' = [q \in Procs |-> IF ~proc[q].alias THEN proc[q]
                                     ELSE IF inPlace THEN [proc[q] EXCEPT !.buf = d]
                                     ELSE [proc[q] EXCEPT !.alias = FALSE]]
         /\ ul' = [w \in Workers |->
                     IF ul[w].node = 0 \/ ul[w].node # node.id THEN ul[w]
                     ELSE [ul[w] EXCEPT !.wrote = TRUE,
                             !.data = IF seen /\ ul[w].alias /\ ~ul[w].answered THEN d ELSE @,
                             !.alias = @ /\ inPlace]]

Write(p) ==
    /\ proc[p].pc = "open"
    /\ edit(written + 1)
    /\ UNCHANGED <<owed, writeKeeps>>

\* Setattr needs no handle; Create of a file that exists is this, then Open.
Truncate ==
    /\ node.here
    /\ edit(written + 1)
    /\ UNCHANGED <<owed, writeKeeps>>

\* A new node and inode; the handle is opened at once.
CreateFile(p) ==
    /\ proc[p].pc = "none" /\ Unheld
    /\ written < MaxData /\ written' = written + 1 /\ keep' = written + 1
    /\ \E i \in PathIds :
         /\ Create(i)
         /\ node' = [NoNode EXCEPT !.id = i, !.here = TRUE, !.opens = 1, !.dirty = TRUE,
                                   !.data = written + 1, !.status = "pending"]
         /\ meta' = [meta EXCEPT ![i] = NoMeta]
    /\ proc' = [proc EXCEPT ![p].pc = "open"]
    /\ UNCHANGED <<ul, receipt, srv, blobs, unl, ev, poll, had, owed>>

flushKeeps == <<srv, written, unl, ev, poll, had, keep>>

\* Flush up to the unlock: the buffer is taken, not copied.
startFlush(p, then) ==
    /\ proc' = [proc EXCEPT ![p] = [NoProc EXCEPT !.pc = "hash", !.buf = node.data,
                                                  !.alias = TRUE, !.then = then]]
    /\ owed' = IF node.here THEN node.data ELSE owed

FlushHandle(p) ==
    /\ proc[p].pc = "open" /\ node.dirty /\ node.data # 0
    /\ startFlush(p, "open")
    /\ UNCHANGED <<inode, wbVars, node, meta, blobs, flushKeeps>>

Release(p) ==
    /\ proc[p].pc = "open"
    /\ node' = [node EXCEPT !.opens = @ - 1]
    /\ IF node.opens = 1 /\ node.dirty /\ node.data # 0
       THEN startFlush(p, "none")
       ELSE proc' = [proc EXCEPT ![p] = NoProc] /\ UNCHANGED owed
    /\ UNCHANGED <<inode, wbVars, meta, blobs, flushKeeps>>

\* Store.Put: the hash first, then the sealing; a blob that exists is kept.
hashBlob(p) ==
    /\ proc[p].pc = "hash"
    /\ proc' = [proc EXCEPT ![p].pc = "seal", ![p].hash = proc[p].buf]
    /\ UNCHANGED <<inode, wbVars, node, meta, blobs, owed, flushKeeps>>
putSealed(p) ==
    /\ proc[p].pc = "seal"
    /\ blobs' = [blobs EXCEPT ![proc[p].hash] = IF @ = 0 THEN proc[p].buf ELSE @]
    /\ proc' = [proc EXCEPT ![p].pc = "commit", ![p].alias = FALSE, ![p].buf = 0]
    /\ UNCHANGED <<inode, wbVars, node, meta, owed, flushKeeps>>

\* The node gets the hash; then MarkCached, MarkDirty, ReleaseBlob of the
\* superseded hash and EnqueueWriteback.
commitFlush(p) ==
    /\ proc[p].pc = "commit"
    /\ node' = [node EXCEPT !.hash = proc[p].hash, !.cached = TRUE]
    /\ proc' = [proc EXCEPT ![p].pc = "record", ![p].old = node.hash]
    /\ UNCHANGED <<inode, wbVars, meta, blobs, owed, flushKeeps>>

\* Mutant: an inode that is dirty already is taken to be queued already.
recordFlush_DirtyIsQueued(p) ==
    /\ proc[p].pc = "record"
    /\ IF inode[node.id].dirty THEN UNCHANGED <<inode, queue, worker>> ELSE Flush(node.id)
    /\ FreshReceipts
    /\ SetMeta(node.id, [meta[node.id] EXCEPT !.cached = TRUE, !.hash = proc[p].hash])
    /\ IF proc[p].old # proc[p].hash THEN ReleaseBlob(proc[p].old) ELSE UNCHANGED blobs
    /\ proc' = [proc EXCEPT ![p] = [NoProc EXCEPT !.pc = proc[p].then]]
    /\ UNCHANGED <<node, ul, owed, flushKeeps>>

recordFlush(p) ==
    /\ proc[p].pc = "record"
    /\ Flush(node.id)
    /\ FreshReceipts
    /\ SetMeta(node.id, [meta[node.id] EXCEPT !.cached = TRUE, !.hash = proc[p].hash])
    /\ IF proc[p].old # proc[p].hash THEN ReleaseBlob(proc[p].old) ELSE UNCHANGED blobs
    /\ proc' = [proc EXCEPT ![p] = [NoProc EXCEPT !.pc = proc[p].then]]
    /\ UNCHANGED <<node, ul, owed, flushKeeps>>

-----------------------------------------------------------------------------
(* Unlink, the evictor, the poller and the retry verb.                     *)

unlinkKeeps == <<worker, ul, written, ev, poll, proc, had>>

\* A file the server has is removed there first; the answer may be lost.
unlinkRemote ==
    /\ unl.pc = "idle" /\ node.here
    /\ srv' = IF node.status \in {"synced", "conflict"} THEN NoCopy ELSE srv
    /\ unl' = [pc |-> IF node.status \in {"synced", "conflict"} THEN "sent" ELSE "local",
               id |-> node.id, hash |-> node.hash]
    /\ UNCHANGED <<inode, queue, receipt, node, meta, blobs, keep, owed, unlinkKeeps>>
unlinkFails ==
    /\ unl.pc = "sent"
    /\ unl' = NoUnl
    /\ UNCHANGED <<inode, queue, receipt, srv, node, meta, blobs, keep, owed, unlinkKeeps>>
unlinkLocal ==
    /\ unl.pc \in {"sent", "local"}
    /\ Unlink(unl.id) /\ FreshReceipts
    /\ node' = [node EXCEPT !.here = FALSE]
    /\ ReleaseBlob(unl.hash)
    /\ meta' = [meta EXCEPT ![unl.id] = NoMeta]
    /\ unl' = NoUnl /\ keep' = 0 /\ owed' = 0
    /\ UNCHANGED <<srv, unlinkKeeps>>

evictKeeps == <<inode, wbVars, srv, written, proc, unl, poll, had, keep, owed>>

\* LRUEvictionCandidates and evictInUse; ReleaseBlob and InvalidateCache;
\* evictClear.
evict ==
    \/ /\ ev.pc = "idle"
       /\ \E i \in Present :
            /\ meta[i].cached /\ ~inode[i].dirty
            /\ ~(NodeByID(i) /\ (node.opens > 0 \/ node.dirty))
            /\ ev' = [pc |-> "release", id |-> i, hash |-> meta[i].hash]
       /\ UNCHANGED <<node, meta, blobs, evictKeeps>>
    \/ /\ ev.pc = "release"
       /\ ReleaseBlob(ev.hash)
       /\ SetMeta(ev.id, Invalidated(meta[ev.id]))
       /\ ev' = [ev EXCEPT !.pc = "clear"]
       /\ UNCHANGED <<node, evictKeeps>>
    \/ /\ ev.pc = "clear"
       /\ node' = IF NodeByID(ev.id) THEN [node EXCEPT !.cached = FALSE, !.hash = 0] ELSE node
       /\ ev' = NoEv
       /\ UNCHANGED <<meta, blobs, evictKeeps>>

pollKeeps == <<wbVars, srv, written, proc, unl, ev, had>>

pollList ==
    /\ poll.pc = "idle"
    /\ poll' = [pc |-> "listed", data |-> srv.data, etag |-> srv.etag]
    /\ UNCHANGED <<inode, node, meta, blobs, keep, owed, pollKeeps>>

locallyDirty == node.dirty \/ (node.id \in Present /\ inode[node.id].dirty)

\* The listing has the file: an edited one is in conflict with a changed remote,
\* a clean one is dropped from the cache.
pollExisting ==
    /\ poll.data # 0 /\ node.here
    /\ IF node.etag # poll.etag /\ locallyDirty
       THEN /\ IF node.status = "conflict" THEN UNCHANGED inode
               ELSE SetInode(node.id, "conflict", inode[node.id].dirty)
            /\ node' = [node EXCEPT !.status = "conflict"]
            /\ UNCHANGED <<meta, blobs>>
       ELSE /\ IF node.etag # poll.etag
               THEN /\ node' = [node EXCEPT !.etag = poll.etag, !.cached = FALSE, !.hash = 0]
                    /\ SetMeta(node.id, [NoMeta EXCEPT !.etag = poll.etag])
                    /\ ReleaseBlob(node.hash)
               ELSE /\ SetMeta(node.id, [meta[node.id] EXCEPT !.etag = poll.etag])
                    /\ UNCHANGED <<node, blobs>>
            /\ UNCHANGED inode
    /\ UNCHANGED <<keep, owed>>

pollNew ==
    /\ poll.data # 0 /\ Unheld
    /\ \E i \in PathIds :
         /\ UpsertInode(i, "synced", FALSE)
         /\ meta' = [meta EXCEPT ![i] = [NoMeta EXCEPT !.etag = poll.etag]]
         /\ node' = [NoNode EXCEPT !.id = i, !.here = TRUE, !.etag = poll.etag]
    /\ UNCHANGED <<blobs, keep, owed>>

\* The listing does not have it: pruned unless edited.
pollGone ==
    /\ poll.data = 0
    /\ IF ~node.here \/ locallyDirty
       THEN UNCHANGED <<inode, node, meta, blobs, keep, owed>>
       ELSE /\ node' = [node EXCEPT !.here = FALSE]
            /\ inode' = [i \in Inodes |-> NoInode] /\ meta' = [i \in Inodes |-> NoMeta]
            /\ ReleaseBlob(node.hash)
            /\ UNCHANGED <<keep, owed>>

pollApply ==
    /\ poll.pc = "listed" /\ poll' = NoPoll
    /\ pollExisting \/ pollNew \/ pollGone
    /\ UNCHANGED pollKeeps

\* Mutant: the failed rows are made pending in place.
retryFailed_InPlace ==
    /\ \E i \in Present :
         /\ inode[i].status = "failed"
         /\ SetInode(i, "pending", inode[i].dirty)
         /\ queue' = [r \in RowIds |-> IF r \in FailedUploads(i)
                                       THEN [queue[r] EXCEPT !.state = "pending"] ELSE queue[r]]
         /\ meta' = [meta EXCEPT ![i].latch = FALSE]
         /\ node' = IF NodeByID(i) THEN [node EXCEPT !.status = "pending"] ELSE node
    /\ FreshReceipts
    /\ UNCHANGED <<worker, ul, srv, written, blobs, proc, unl, ev, poll, had, keep, owed>>

\* retryFailed of a virtual mount: the failure is forgotten, nothing is queued.
\* A failed row stands for the record of its failure in sync_failures.
retryFailed ==
    /\ \E i \in Present :
         /\ inode[i].status = "failed" \/ meta[i].latch \/ FailedUploads(i) # {}
         /\ ClearFailed(i)
         /\ meta' = [meta EXCEPT ![i].latch = FALSE]
         /\ node' = IF NodeByID(i) THEN [node EXCEPT !.status = "pending"] ELSE node
    /\ FreshReceipts
    /\ UNCHANGED <<ul, srv, written, blobs, proc, unl, ev, poll, had, keep, owed>>

-----------------------------------------------------------------------------
(* The writeback workers.                                                  *)

workerKeeps == <<written, blobs, proc, unl, ev, poll, keep, owed>>

\* processUpload: the write buffer, else the node's blob, else the inode's.
Content(i) ==
    IF NodeByID(i) /\ node.data # 0 THEN node.data
    ELSE LET h == IF NodeByID(i) /\ node.cached /\ node.hash # 0 THEN node.hash ELSE meta[i].hash
         IN IF h = 0 THEN 0 ELSE blobs[h]

\* preNode and preGen are taken before the content: ul.wrote is "WriteGen has
\* moved on".
startEntry(w) ==
    /\ processEntry(w)
    /\ \E e \in worker'[w].cur :
         ul' = [ul EXCEPT ![w] = [NoUl EXCEPT
                  !.data = Content(e.id),
                  !.alias = NodeByID(e.id) /\ node.data # 0,
                  !.node = IF NodeByID(e.id) THEN e.id ELSE 0]]
    /\ UNCHANGED <<srv, had, receipt, meta, node, workerKeeps>>

Answer(w) ==
    /\ worker[w].pc = "sending" /\ ~ul[w].answered /\ ul[w].data # 0
    /\ \E e \in worker[w].cur :
         IF receipt[e.row] = ul[w].data
         THEN /\ ul' = [ul EXCEPT ![w].answered = TRUE]
              /\ UNCHANGED <<srv, had, receipt>>
         ELSE /\ srv' = [data |-> ul[w].data, etag |-> NewEtag(ul[w].data)]
              /\ had' = had \cup {ul[w].data}
              /\ ul' = [ul EXCEPT ![w].answered = TRUE, ![w].etag = srv'.etag]
              /\ receipt' = [receipt EXCEPT ![e.row] = ul[w].data]
    /\ UNCHANGED <<vars, meta, node, workerKeeps>>

recordUploaded(w) ==
    /\ ul[w].answered
    /\ Succeed(w)
    /\ \E e \in worker[w].cur : SetMeta(e.id, [meta[e.id] EXCEPT !.etag = ul[w].etag])
    /\ FreshReceipts
    /\ UNCHANGED <<srv, had, ul, node, workerKeeps>>

\* Mutant: the write generation is not compared.
settleNode_NoGen(w) ==
    /\ worker[w].pc = "settle" /\ ~ul[w].clean /\ ul[w].node # 0
    /\ node' = [node EXCEPT !.etag = ul[w].etag, !.dirty = FALSE, !.status = "synced", !.data = 0]
    /\ ul' = [ul EXCEPT ![w].clean = TRUE]
    /\ UNCHANGED <<vars, srv, had, receipt, meta, workerKeeps>>

\* preNode under its lock: clean, unless it was written to since.
settleNode(w) ==
    /\ worker[w].pc = "settle" /\ ~ul[w].clean /\ ul[w].node # 0 /\ ~ul[w].wrote
    /\ node' = [node EXCEPT !.etag = ul[w].etag, !.dirty = FALSE, !.status = "synced",
                            !.data = 0]
    /\ ul' = [ul EXCEPT ![w].clean = TRUE]
    /\ UNCHANGED <<vars, srv, had, receipt, meta, workerKeeps>>

\* MarkSynced; or, after a write, MarkDirty and another upload.
settleRow(w) ==
    /\ worker[w].pc = "settle"
    /\ \E e \in worker[w].cur :
         \/ /\ ul[w].clean \/ ul[w].node = 0
            /\ Settle(w)
            /\ SetMeta(e.id, [meta[e.id] EXCEPT !.etag = ul[w].etag])
            /\ UNCHANGED <<node, receipt>>
         \/ /\ ~ul[w].clean /\ ul[w].node # 0 /\ ul[w].wrote
            /\ Resend(w, "upload") /\ FreshReceipts
            /\ node' = [node EXCEPT !.etag = ul[w].etag, !.dirty = TRUE, !.status = "pending"]
            /\ UNCHANGED meta
    /\ ul' = [ul EXCEPT ![w] = NoUl]
    /\ UNCHANGED <<srv, had, workerKeeps>>

transferError(w) ==
    /\ \/ Defer(w) /\ UNCHANGED node
       \/ /\ GiveUp(w)
          /\ node' = IF \E e \in worker[w].cur : NodeByID(e.id)
                     THEN [node EXCEPT !.status = "failed"] ELSE node
    /\ ul' = [ul EXCEPT ![w] = NoUl]
    /\ UNCHANGED <<srv, had, receipt, meta, workerKeeps>>

batchStep(w) ==
    /\ \/ FlushReturn(w) \/ DequeueWriteback(w) \/ Hold(w) \/ EndBatch(w)
    /\ UNCHANGED <<srv, had, ul, receipt, meta, node, workerKeeps>>

noContent(w) == worker[w].pc = "doomed" \/ (worker[w].pc = "sending" /\ ul[w].data = 0)

Writes(w) == startEntry(w) \/ Answer(w) \/ recordUploaded(w) \/ settleNode(w) \/ settleRow(w)
             \/ batchStep(w) \/ (noContent(w) /\ transferError(w))

\* Another device writes or deletes the file.
RemoteChange ==
    /\ \/ /\ written < MaxData /\ written' = written + 1
          /\ srv' = [data |-> written + 1, etag |-> NewEtag(written + 1)]
       \/ /\ srv.data # 0 /\ srv' = NoCopy
          /\ UNCHANGED written
    /\ UNCHANGED <<vars, node, meta, blobs, proc, unl, ev, poll, ul, receipt, had, keep, owed>>

-----------------------------------------------------------------------------
\* An empty cache (a virtual mount starts with none) over a listed directory.
VInit ==
    /\ Init
    /\ \E theirs \in {0, 1} :
         /\ written = theirs
         /\ srv = IF theirs = 1 THEN [data |-> 1, etag |-> <<1, 1>>] ELSE NoCopy
    /\ node = NoNode /\ meta = [i \in Inodes |-> NoMeta]
    /\ blobs = [d \in Data |-> 0]
    /\ proc = [p \in Procs |-> NoProc]
    /\ unl = NoUnl /\ ev = NoEv /\ poll = NoPoll
    /\ ul = [w \in Workers |-> NoUl] /\ receipt = [r \in RowIds |-> 0]
    /\ had = {} /\ keep = 0 /\ owed = 0

\* What a process asks for, and what its call then does.
Opens(p) == Open(p) \/ CreateFile(p)
Asks(p) == Write(p) \/ Release(p)
Runs(p) == fetch(p) \/ downloadAndCache(p) \/ wake(p) \/ hashBlob(p) \/ putSealed(p)
           \/ commitFlush(p) \/ recordFlush(p)
           \/ (downloadFails(p) /\ (srv.data = 0 \/ meta[node.id].latch))
Unlinks == unlinkRemote \/ unlinkLocal
Poller == pollList \/ pollApply
Fault == unlinkFails \/ (\E p \in Procs : downloadFails(p)) \/ \E w \in Workers : transferError(w)

VNext ==
    \/ \E p \in Procs : Opens(p) \/ Asks(p) \/ FlushHandle(p) \/ Runs(p)
    \/ Truncate \/ Unlinks \/ evict \/ Poller \/ retryFailed \/ RemoteChange \/ Fault
    \/ \E w \in Workers : Writes(w)

VSpec == VInit /\ [][VNext]_fvars

-----------------------------------------------------------------------------
(* Properties.                                                             *)

\* OpenCount is the number of handles and of opens under way, through every
\* failed and shared download: one too few and Release skips the last flush or
\* the evictor takes a file in use, one too many and neither ever happens.
Holds(p) == \/ proc[p].pc \in {"loading", "fetched", "waiting", "woken", "open"}
            \/ proc[p].then = "open"
OpenCountExact == node.opens = Cardinality({p \in Procs : Holds(p)})

\* The last content written stays in the write buffer until the server has
\* taken it, whatever flushes, uploads, evictions, polls and failures happen in
\* between; only an Unlink gives it up.
LastWriteKept == keep # 0 => keep \in had \/ (node.here /\ node.data = keep)

\* A Read gives the last content written or a newer one, never an older one,
\* also once an upload has dropped the write buffer.
ReadsLastWrite == node.here => Read = 0 \/ Read >= keep

\* Every step of the file is a step of the queue.
VQueueRefined == Spec
=============================================================================
