------------------------------ MODULE SyncFile ------------------------------
(***************************************************************************)
(* One file of a sync mount: its copy on disk, the server's copy, the      *)
(* records about it (inode row, VFS node, blob store), and the five loops  *)
(* that move it: watcher, writeback (module Writeback), poller, downloader *)
(* and reconciler.  A content is a number, 0 for none; an etag is the      *)
(* content with a number that tells the uploads of one content apart.      *)
(***************************************************************************)
EXTENDS Writeback, Sequences

CONSTANTS
    MaxData         \* bound: contents ever written, here or elsewhere

ASSUME FilesAssumption ==
    /\ IsFiniteSet(Inodes) /\ 0 \notin Inodes /\ IsFiniteSet(Flushers)
    /\ MaxData \in Nat /\ MaxData > 1

Data == 1 .. MaxData
\* One more than the places that can mention an etag: there is always a new one.
Versions == 1 .. 5 + 2 * Cardinality(Inodes) + Cardinality(Workers)
Etags == Data \X Versions
NoEtag == <<0, 0>>
NoCopy == [data |-> 0, etag |-> NoEtag]

VARIABLES
    local,      \* the file on disk
    undo,       \* the content the user deleted last
    srv,        \* the server's copy: [data, etag]
    written,    \* how many contents exist
    meta,       \* table inodes: content_hash, baseline, etag, local_remote_etag;
                \* latch: a permanent download failure in table sync_failures
    stale,      \* the contents whose blob was sealed with an earlier mount's key
    node,       \* the VFS node of the file; id = 0: none attached
    loaded,     \* the root directory has been listed
    watch,      \* the watcher: events, the debounce timer, suppression
    dl,         \* the transfer of the downloader
    poll,       \* the listing a poll cycle holds
    ul,         \* per worker: the content read, the etag answered, preNode
    receipt,    \* per row: the content the server took under the row's key
    boot,       \* "list", "walk", "scan": InitialSync; "run"
    had,        \* history: the contents the server took (its version history)
    keep,       \* history: the user's last edit, until they delete or discard it
    trash       \* .pigcloud/trash, and the "(conflict ...)" copies

svars == <<inode, queue, worker, local, undo, srv, written, meta, stale, node,
           loaded, watch, dl, poll, ul, receipt, boot, had, keep, trash>>
wbVars == <<queue, worker, ul, receipt>>

NoMeta == [hash |-> 0, base |-> 0, cur |-> FALSE, etag |-> NoEtag, ver |-> NoEtag,
           latch |-> FALSE]
NoNode == [id |-> 0, cached |-> FALSE, dirty |-> FALSE, etag |-> NoEtag, conf |-> FALSE]
NoDl == [pc |-> "idle", id |-> 0, etag |-> NoEtag, data |-> 0, touched |-> FALSE]
NoPoll == [pc |-> "idle", data |-> 0, etag |-> NoEtag]
NoUl == [data |-> 0, etag |-> NoEtag, node |-> 0, answered |-> FALSE]
NoWatch == [events |-> <<>>, timer |-> FALSE, suppress |-> FALSE]

-----------------------------------------------------------------------------
(* The records.                                                            *)

\* remote_path is UNIQUE; ids are AUTOINCREMENT, here used again once nothing
\* mentions them.
Present == {i \in Inodes : inode[i].status # "absent"}
Mentioned == {node.id, dl.id} \cup {queue[r].id : r \in Live}
             \cup UNION {{e.id : e \in Carried(w)} : w \in Workers}
FreshIds == Inodes \ (Present \cup Mentioned)
PathIds_NoUnique == IF FreshIds # {} THEN {CHOOSE i \in FreshIds : TRUE}   \* mutant
                    ELSE Present
PathIds == IF Present = {} /\ FreshIds # {} THEN {CHOOSE i \in FreshIds : TRUE}
           ELSE Present

NewEtag(d) ==
    LET used == {srv.etag, node.etag, dl.etag, poll.etag}
                \cup {meta[i].etag : i \in Inodes} \cup {meta[i].ver : i \in Inodes}
                \cup {ul[w].etag : w \in Workers}
    IN <<d, CHOOSE n \in Versions : <<d, n>> \notin used>>

inodeDirty(i) == i \in Present /\ inode[i].dirty
localBaseline(i) == IF i \in Present THEN meta[i].base ELSE 0

\* Writes to the content columns of a row that exists.
SetMeta(i, m) == meta' = IF i \in Present THEN [meta EXCEPT ![i] = m] ELSE meta
Invalidated(m) == [m EXCEPT !.hash = 0, !.cur = FALSE]
Unlatched(m) == [m EXCEPT !.latch = FALSE]
Forgotten(m) == [m EXCEPT !.base = 0, !.cur = FALSE, !.ver = NoEtag]  \* SetLocalContent("")
LocalContent(m, d, e) == [m EXCEPT !.base = d, !.cur = TRUE, !.ver = e]

\* The blob of content_hash is in the store.  Put keeps a file that is already
\* there, even one it cannot read; ReleaseBlob drops it with the reference.
Released(h) == stale' = stale \ {h}

\* The user's or the mount's write to the file is seen by a running download.
Touch == dl' = [dl EXCEPT !.touched = dl.pc # "idle"]
Notify(e) == watch' = IF boot = "run"
                      THEN [watch EXCEPT !.events = Append(@, e)] ELSE watch

-----------------------------------------------------------------------------
(* The user, and another device.                                           *)

UserWrite ==
    /\ written < MaxData /\ written' = written + 1
    /\ local' = written + 1 /\ keep' = written + 1 /\ undo' = 0
    /\ Touch /\ Notify("write")
    /\ UNCHANGED <<inode, wbVars, srv, had, meta, stale, node, loaded, poll, boot, trash>>

UserDelete ==
    /\ local # 0
    /\ local' = 0 /\ undo' = local /\ keep' = 0
    /\ Touch /\ Notify("remove")
    /\ UNCHANGED <<inode, wbVars, srv, had, written, meta, stale, node, loaded, poll, boot, trash>>

\* The deleted file is put back as it was.
UserRestore ==
    /\ local = 0 /\ undo # 0
    /\ local' = undo /\ undo' = 0
    /\ Touch /\ Notify("write")
    /\ UNCHANGED <<inode, wbVars, srv, had, written, meta, stale, node, loaded, poll, boot, keep, trash>>

RemoteEdit ==
    /\ written < MaxData /\ written' = written + 1
    /\ srv' = [data |-> written + 1, etag |-> NewEtag(written + 1)]
    /\ UNCHANGED <<vars, local, undo, meta, stale, node, loaded, watch, dl, poll,
                   ul, receipt, boot, had, keep, trash>>

RemoteDelete ==
    /\ srv.data # 0
    /\ srv' = NoCopy
    /\ UNCHANGED <<vars, local, undo, written, meta, stale, node, loaded, watch, dl, poll,
                   ul, receipt, boot, had, keep, trash>>

-----------------------------------------------------------------------------
(* The watcher.                                                            *)

\* A new row has a new idempotency key: no receipt yet; nor is one needed for a
\* row that is done.
FreshReceipts ==
    receipt' = [r \in RowIds |-> IF queue'[r] # queue[r] THEN 0 ELSE receipt[r]]
Enqueue(i, a, gone) == EnqueueWriteback(i, a, gone) /\ FreshReceipts

watcherKeeps == <<local, undo, srv, had, written, node, loaded, dl, poll, boot, keep, trash>>

\* handleCreate, handleWrite: the file is looked at again after the debounce.
handleWrite ==
    /\ watch' = [watch EXCEPT !.events = Tail(@),
                              !.timer = @ \/ (~watch.suppress /\ local # 0)]
    /\ UNCHANGED <<inode, wbVars, meta, stale>>

handleRemove ==
    /\ watch' = [watch EXCEPT !.events = Tail(@)]
    /\ IF watch.suppress \/ Present = {} THEN UNCHANGED <<inode, wbVars, meta>>
       ELSE \E i \in Present :
              IF inode[i].status \in {"synced", "conflict"}
              THEN /\ Enqueue(i, "delete", {})
                   /\ UNCHANGED <<inode, worker, ul, meta>>
              ELSE /\ queue' = Without(RowsOf(i))
                   /\ inode' = [inode EXCEPT ![i] = NoInode]
                   /\ meta' = [meta EXCEPT ![i] = NoMeta]
                   /\ UNCHANGED <<worker, ul, receipt>>
    /\ UNCHANGED stale

handleEvent ==
    /\ boot = "run" /\ watch.events # <<>>
    /\ IF Head(watch.events) = "write" THEN handleWrite ELSE handleRemove
    /\ UNCHANGED watcherKeeps

syncFile ==
    /\ boot = "run" /\ watch.timer
    /\ watch' = [watch EXCEPT !.timer = FALSE]
    /\ \/ /\ local = 0
          /\ UNCHANGED <<inode, wbVars, meta, stale>>
       \/ /\ local # 0
          /\ \E i \in PathIds :
               IF i \in Present /\ meta[i].hash = local /\ inode[i].status = "synced"
               THEN UNCHANGED <<inode, wbVars, meta, stale>>
               ELSE /\ UpsertInode(i, "pending", TRUE)
                    /\ meta' = [meta EXCEPT ![i].hash = local]
                    /\ IF meta[i].hash = local THEN UNCHANGED stale
                       ELSE Released(meta[i].hash)
                    /\ Enqueue(i, "upload", {})
                    /\ UNCHANGED <<worker, ul>>
    /\ UNCHANGED watcherKeeps

\* The suppression of events on a path ends three seconds after the mount's own
\* write to it; the events of that write are suppressed.
SuppressEnd ==
    /\ watch.suppress /\ dl.pc = "idle"
    /\ watch' = [watch EXCEPT !.suppress = FALSE]
    /\ UNCHANGED <<inode, wbVars, meta, stale, watcherKeeps>>

-----------------------------------------------------------------------------
(* Writeback: what its workers send, and what the server answers.          *)

workerKeeps == <<local, undo, written, stale, loaded, watch, dl, poll, boot, keep, trash>>

\* processUpload: the blob the inode names, else the live file.
Content(i) == IF meta[i].hash \in Data \ stale THEN meta[i].hash ELSE local

startEntry(w) ==
    /\ processEntry(w)
    /\ \E e \in worker'[w].cur :
         ul' = [ul EXCEPT ![w] =
                  [NoUl EXCEPT !.data = IF e.action = "upload" THEN Content(e.id) ELSE 0,
                               !.node = IF node.id = e.id THEN e.id ELSE 0]]
    /\ UNCHANGED <<srv, had, receipt, meta, node, workerKeeps>>

\* The request reaches the server.  An upload under a key and content it has a
\* receipt for changes nothing, and its answer names no version.
Answer(w) ==
    /\ worker[w].pc = "sending" /\ ~ul[w].answered
    /\ \E e \in worker[w].cur :
         IF e.action = "delete"
         THEN /\ srv' = NoCopy
              /\ ul' = [ul EXCEPT ![w].answered = TRUE]
              /\ UNCHANGED <<receipt, had>>
         ELSE /\ ul[w].data # 0
              /\ IF receipt[e.row] = ul[w].data
                 THEN /\ ul' = [ul EXCEPT ![w].answered = TRUE]
                      /\ UNCHANGED <<srv, had, receipt>>
                 ELSE /\ srv' = [data |-> ul[w].data, etag |-> NewEtag(ul[w].data)]
                      /\ had' = had \cup {ul[w].data}
                      /\ ul' = [ul EXCEPT ![w].answered = TRUE, ![w].etag = srv'.etag]
                      /\ receipt' = [receipt EXCEPT ![e.row] = ul[w].data]
    /\ UNCHANGED <<vars, meta, node, workerKeeps>>

\* DeleteWriteback and, for an upload, recordUploaded.
recordUploaded(w) ==
    /\ ul[w].answered
    /\ Succeed(w)
    /\ \E e \in worker[w].cur :
         IF e.action = "upload"
         THEN SetMeta(e.id, LocalContent([meta[e.id] EXCEPT !.etag = ul[w].etag],
                                         ul[w].data, ul[w].etag))
         ELSE UNCHANGED meta
    /\ FreshReceipts
    /\ UNCHANGED <<srv, had, ul, node, workerKeeps>>

\* What happens to preNode once its upload is done.
NodeAfter(w, dirty) ==
    node' = IF ul[w].node # 0 /\ node.id = ul[w].node
            THEN [node EXCEPT !.etag = ul[w].etag, !.dirty = dirty, !.conf = FALSE]
            ELSE node

settleUpload(w) ==
    /\ worker[w].pc = "settle"
    /\ \E e \in worker[w].cur :
         /\ e.action = "upload"
         /\ \/ /\ local = ul[w].data
               /\ Settle(w) /\ NodeAfter(w, FALSE)
               /\ SetMeta(e.id, [meta[e.id] EXCEPT !.etag = ul[w].etag])
               /\ UNCHANGED receipt
            \/ /\ local # ul[w].data
               /\ Resend(w, IF local = 0 THEN "delete" ELSE "upload")
               /\ FreshReceipts
               /\ NodeAfter(w, TRUE)
               /\ UNCHANGED meta
    /\ ul' = [ul EXCEPT ![w] = NoUl]
    /\ UNCHANGED <<srv, had, workerKeeps>>

settleDelete(w) ==
    /\ \E e \in worker[w].cur : /\ e.action = "delete"
                                /\ SetMeta(e.id, [meta[e.id] EXCEPT !.etag = NoEtag])
    /\ Settle(w)
    /\ ul' = [ul EXCEPT ![w] = NoUl]
    /\ UNCHANGED <<srv, had, receipt, node, workerKeeps>>

\* An error, or an answer that was lost on the way back.
transferError(w) ==
    /\ \/ Defer(w) /\ UNCHANGED node
       \/ /\ GiveUp(w)
          /\ node' = IF \E e \in worker[w].cur : node.id = e.id
                     THEN [node EXCEPT !.conf = FALSE] ELSE node
    /\ ul' = [ul EXCEPT ![w] = NoUl]
    /\ UNCHANGED <<srv, had, receipt, meta, workerKeeps>>

\* Claiming, holding and the end of a batch.
batchStep(w) ==
    /\ w = "loop" => boot = "run"
    /\ \/ FlushReturn(w) \/ DequeueWriteback(w) \/ Hold(w) \/ EndBatch(w)
    /\ UNCHANGED <<srv, had, ul, receipt, meta, node, workerKeeps>>
startFlush(w) ==
    /\ FlushStart(w)
    /\ UNCHANGED <<srv, had, ul, receipt, meta, node, workerKeeps>>

\* There is no inode, or neither blob nor file, to upload.
noContent(w) ==
    \/ worker[w].pc = "doomed"
    \/ /\ worker[w].pc = "sending" /\ ul[w].data = 0
       /\ \E e \in worker[w].cur : e.action = "upload"

Writes(w) == startEntry(w) \/ Answer(w) \/ recordUploaded(w) \/ settleUpload(w)
             \/ settleDelete(w) \/ batchStep(w) \/ (noContent(w) /\ transferError(w))

-----------------------------------------------------------------------------
(* The poller.                                                             *)

pollerKeeps == <<undo, srv, had, written, loaded, ul, receipt, worker, queue, boot>>

\* A poll cycle starts with the listing; only a directory listed before is.
pollList ==
    /\ boot = "run" /\ poll.pc = "idle" /\ loaded
    /\ poll' = [pc |-> "listed", data |-> srv.data, etag |-> srv.etag]
    /\ UNCHANGED <<inode, local, meta, stale, node, watch, dl, keep, trash, pollerKeeps>>

\* RemoveLocal: the file is moved to the trash.
RemoveLocal ==
    IF local = 0 THEN UNCHANGED <<local, trash, watch, dl>>
    ELSE /\ local' = 0 /\ trash' = trash \cup {local} /\ Touch
         /\ watch' = [watch EXCEPT !.suppress = TRUE]

\* Mutant: a changed etag does not invalidate the cached content.
pollExisting_KeepsCached ==
    /\ poll.data # 0 /\ node.id # 0
    /\ node' = [node EXCEPT !.etag = poll.etag]
    /\ SetMeta(node.id, [meta[node.id] EXCEPT !.etag = poll.etag])
    /\ UNCHANGED <<inode, local, trash, watch, dl>>

\* The listing has the file and the tree has its node.
pollExisting ==
    LET dirty == node.dirty \/ inodeDirty(node.id)
        changed == node.etag # poll.etag
    IN /\ poll.data # 0 /\ node.id # 0
       /\ IF dirty /\ changed
          THEN /\ node' = [node EXCEPT !.conf = TRUE]
               /\ IF node.conf THEN UNCHANGED inode
                  ELSE SetInode(node.id, "conflict", inode[node.id].dirty)
               /\ UNCHANGED meta
          ELSE /\ node' = [node EXCEPT !.etag = poll.etag, !.cached = @ /\ ~changed]
               /\ SetMeta(node.id, [(IF changed THEN Unlatched(Invalidated(meta[node.id]))
                                                ELSE meta[node.id]) EXCEPT !.etag = poll.etag])
               /\ UNCHANGED inode
       /\ UNCHANGED <<local, trash, watch, dl>>

\* The listing has a file the tree does not know.
pollNew ==
    /\ poll.data # 0 /\ node.id = 0
    /\ \E i \in PathIds :
         /\ UpsertInode(i, "synced", FALSE)
         /\ meta' = [meta EXCEPT ![i].hash = 0, ![i].etag = poll.etag]
         /\ node' = [NoNode EXCEPT !.id = i, !.etag = poll.etag]
    /\ UNCHANGED <<local, trash, watch, dl>>

\* The tree has a file the listing does not: pruned unless edited.
pollGone ==
    /\ poll.data = 0
    /\ IF node.id = 0 \/ node.dirty \/ inodeDirty(node.id)
       THEN UNCHANGED <<inode, meta, node, local, trash, watch, dl>>
       ELSE /\ node' = NoNode
            /\ RemoveLocal
            /\ inode' = [i \in Inodes |-> NoInode]
            /\ meta' = [i \in Inodes |-> NoMeta]

pollApply ==
    /\ boot = "run" /\ poll.pc = "listed"
    /\ poll' = NoPoll
    /\ pollExisting \/ pollNew \/ pollGone
    /\ UNCHANGED <<stale, keep, pollerKeeps>>

-----------------------------------------------------------------------------
(* The downloader.                                                         *)

dlKeeps == <<undo, srv, had, written, loaded, ul, worker, poll, keep, trash>>

\* MarkLocalConflict on the inode, and the node with it.
markLocalConflict(i) ==
    /\ SetInode(i, "conflict", TRUE)
    /\ SetMeta(i, Unlatched(meta[i]))
    /\ node' = IF node.id = i THEN [node EXCEPT !.dirty = TRUE, !.cached = FALSE, !.conf = TRUE]
               ELSE node

localCopyMatches(i) ==
    /\ i \in Present /\ meta[i].cur /\ node.etag # NoEtag
    /\ meta[i].ver = node.etag /\ local = meta[i].base

\* enqueueLocalUpload: by path, so an inode that is gone is made again.
enqueueLocalUpload ==
    \E i \in PathIds :
        /\ UpsertInode(i, "pending", TRUE)
        /\ meta' = [meta EXCEPT ![i] = Forgotten([@ EXCEPT !.hash = 0])]
        /\ node' = [node EXCEPT !.id = i, !.dirty = TRUE, !.cached = FALSE]
        /\ Enqueue(i, "upload", {})

\* protectLocalCollision, when it keeps the local file.
protectLocalCollision ==
    /\ local # localBaseline(node.id) \/ localBaseline(node.id) = 0
    /\ IF /\ localBaseline(node.id) # 0
          /\ node.etag # NoEtag /\ meta[node.id].ver = node.etag
       THEN enqueueLocalUpload
       ELSE markLocalConflict(node.id) /\ UNCHANGED <<queue, receipt>>
    /\ UNCHANGED dl

dispatchDownload ==
    /\ dl' = [NoDl EXCEPT !.pc = "start", !.id = node.id, !.etag = node.etag]
    /\ UNCHANGED <<inode, meta, node, queue, receipt>>

\* What a walk does with a node whose content is not at hand; due is false
\* after a permanent download failure.
fetchNode(due) ==
    \/ local = 0 /\ due /\ dispatchDownload
    \/ /\ local # 0 /\ localCopyMatches(node.id)
       /\ node' = [node EXCEPT !.cached = TRUE]
       /\ SetInode(node.id, "synced", inode[node.id].dirty)
       /\ SetMeta(node.id, Unlatched(meta[node.id]))
       /\ UNCHANGED <<queue, receipt, dl>>
    \/ local # 0 /\ ~localCopyMatches(node.id) /\ protectLocalCollision
    \/ /\ local # 0 /\ ~localCopyMatches(node.id)
       /\ local = localBaseline(node.id) /\ due
       /\ dispatchDownload

walkForDownloads ==
    /\ boot = "run" /\ loaded /\ dl.pc = "idle"
    /\ node.id # 0 /\ ~node.cached /\ ~node.dirty /\ ~inodeDirty(node.id)
    /\ fetchNode(~meta[node.id].latch)
    /\ UNCHANGED <<local, stale, watch, boot, dlKeeps>>

\* downloadFile once it has one of the slots: nothing local may be replaced that
\* is not the baseline.  A node that was detached keeps its etag.
downloadFile ==
    /\ dl.pc = "start"
    /\ IF inodeDirty(dl.id) \/ (local # 0 /\ local # localBaseline(dl.id))
       THEN dl' = NoDl /\ markLocalConflict(dl.id)
       ELSE /\ dl' = [dl EXCEPT !.pc = "fetch", !.touched = FALSE,
                               !.etag = IF node.id = dl.id THEN node.etag ELSE @]
            /\ UNCHANGED <<inode, meta, node>>
    /\ UNCHANGED <<queue, receipt, local, stale, watch, boot, dlKeeps>>

\* The content fetched is the server's of that moment, whatever the etag was.
fetch ==
    /\ dl.pc = "fetch" /\ srv.data # 0
    /\ dl' = [dl EXCEPT !.pc = "fetched", !.data = srv.data]
    /\ watch' = [watch EXCEPT !.suppress = TRUE]
    /\ UNCHANGED <<inode, queue, receipt, local, meta, stale, node, boot, dlKeeps>>

\* recordDownloadFailure: a permanent failure shows in the status.
fetchError ==
    /\ dl.pc = "fetch"
    /\ dl' = NoDl
    /\ \/ UNCHANGED <<inode, meta>>
       \/ /\ SetInode(dl.id, "failed", inode[dl.id].dirty)
          /\ SetMeta(dl.id, [meta[dl.id] EXCEPT !.latch = TRUE])
    /\ UNCHANGED <<queue, receipt, local, stale, node, watch, boot, dlKeeps>>

\* Mutant: the local file is not looked at again before the rename.
validateDownloadPublication_RemoteOnly ==
    /\ dl.pc = "fetched"
    /\ dl' = IF node.id = dl.id /\ node.etag # dl.etag THEN NoDl ELSE [dl EXCEPT !.pc = "rename"]
    /\ UNCHANGED <<inode, meta, node, queue, receipt, local, stale, watch, boot, dlKeeps>>

validateDownloadPublication ==
    /\ dl.pc = "fetched"
    /\ IF node.id = dl.id /\ node.etag # dl.etag
       THEN dl' = NoDl /\ UNCHANGED <<inode, meta, node>>
       ELSE IF dl.touched \/ inodeDirty(dl.id)
       THEN dl' = NoDl /\ markLocalConflict(dl.id)
       ELSE dl' = [dl EXCEPT !.pc = "rename"] /\ UNCHANGED <<inode, meta, node>>
    /\ UNCHANGED <<queue, receipt, local, stale, watch, boot, dlKeeps>>

\* The rename over the file, a moment after the check.
publish ==
    /\ dl.pc = "rename"
    /\ local' = dl.data
    /\ dl' = [dl EXCEPT !.pc = "commit"]
    /\ UNCHANGED <<inode, queue, receipt, meta, stale, node, watch, boot, dlKeeps>>

\* Mutant: the content is labelled with the version the tree has by now.
commitDownload_LatestEtag ==
    LET etag == IF node.id = dl.id THEN node.etag ELSE dl.etag
        m == LocalContent([meta[dl.id] EXCEPT !.hash = 0, !.latch = FALSE], dl.data, etag)
    IN /\ dl.pc = "commit"
       /\ dl' = NoDl
       /\ node' = IF node.id = dl.id THEN [node EXCEPT !.cached = TRUE] ELSE node
       /\ SetMeta(dl.id, m)
       /\ SetInode(dl.id, "synced", inode[dl.id].dirty)
       /\ Released(meta[dl.id].hash)
       /\ UNCHANGED <<queue, receipt, local, watch, boot, dlKeeps>>

commitDownload ==
    LET changed == node.id = dl.id /\ node.etag # dl.etag
        m == LocalContent([meta[dl.id] EXCEPT !.hash = 0, !.latch = FALSE], dl.data, dl.etag)
    IN /\ dl.pc = "commit"
       /\ dl' = NoDl
       /\ node' = IF node.id = dl.id THEN [node EXCEPT !.cached = ~changed] ELSE node
       /\ SetMeta(dl.id, IF changed THEN Invalidated(m) ELSE m)
       /\ SetInode(dl.id, "synced", inode[dl.id].dirty)
       /\ Released(meta[dl.id].hash)
       /\ UNCHANGED <<queue, receipt, local, watch, boot, dlKeeps>>

-----------------------------------------------------------------------------
(* The reconciler: healEntry for the file on disk.                         *)

healKeeps == <<local, undo, srv, had, written, node, loaded, watch, dl, poll, ul, worker, boot, keep, trash>>

queueNewFile(i) ==
    /\ UpsertInode(i, "pending", TRUE)
    /\ Enqueue(i, "upload", {})
    /\ UNCHANGED <<meta, stale>>

requeueUpload(i) ==
    /\ ~Active(i, "upload")
    /\ UpsertInode(i, "pending", TRUE)
    /\ Enqueue(i, "upload", FailedUploads(i))
    /\ meta' = [meta EXCEPT ![i] = Forgotten([@ EXCEPT !.hash = 0])]
    /\ Released(meta[i].hash)

\* Mutant: a drifted file is only ever a conflict when it has no baseline.
healSynced_NoDrift(i) ==
    /\ inode[i].status = "synced" /\ meta[i].base = 0
    /\ SetInode(i, "conflict", TRUE)
    /\ UNCHANGED <<queue, receipt, meta, stale>>

\* A synced file that differs from its baseline: the remote version decides.
healSynced(i) ==
    /\ inode[i].status = "synced"
    /\ \/ /\ \/ meta[i].base = 0
             \/ local # meta[i].base /\ ~(meta[i].cur /\ meta[i].etag # NoEtag
                                          /\ meta[i].ver = meta[i].etag)
          /\ SetInode(i, "conflict", TRUE)
          /\ UNCHANGED <<queue, receipt, meta, stale>>
       \/ /\ meta[i].base # 0 /\ local # meta[i].base
          /\ meta[i].cur /\ meta[i].etag # NoEtag /\ meta[i].ver = meta[i].etag
          /\ requeueUpload(i)

healEntry ==
    /\ boot = "run" /\ local # 0
    /\ \/ /\ Present = {} /\ \E i \in PathIds : queueNewFile(i)
       \/ \E i \in Present :
            \/ healSynced(i)
            \* What kind of upload failure it was is not kept: any may be retried.
            \/ /\ inode[i].status = "failed" /\ ~(meta[i].latch /\ ~inode[i].dirty)
               /\ requeueUpload(i)
            \/ /\ inode[i].status = "pending" /\ ~Active(i, "upload")
               /\ Enqueue(i, "upload", {})
               /\ UNCHANGED <<inode, meta, stale>>
    /\ UNCHANGED healKeeps

-----------------------------------------------------------------------------
(* Conflicts are settled by the user.                                      *)

resolveKeeps == <<undo, srv, had, written, loaded, poll, ul, worker, boot>>

resolveLocal ==
    /\ \E i \in Present :
         /\ inode[i].status = "conflict"
         /\ SetInode(i, "pending", TRUE)
         /\ Enqueue(i, "upload", RowsOf(i))
         /\ node' = IF node.id = i THEN [node EXCEPT !.conf = FALSE, !.dirty = TRUE]
                    ELSE node
    /\ UNCHANGED <<local, meta, stale, watch, dl, keep, trash, resolveKeeps>>

\* "remote" discards the local file, "both" puts it aside under another name.
resolveRemote(both) ==
    /\ \E i \in Present :
         /\ inode[i].status = "conflict"
         /\ both => local # 0
         /\ SetInode(i, "synced", FALSE)
         /\ queue' = Without(RowsOf(i))
         /\ meta' = [meta EXCEPT ![i] = Invalidated([@ EXCEPT !.etag = NoEtag])]
         /\ Released(meta[i].hash)
         /\ node' = IF node.id = i THEN [node EXCEPT !.conf = FALSE, !.dirty = FALSE,
                                                     !.cached = FALSE]
                    ELSE node
    /\ local' = 0 /\ Touch
    /\ watch' = [watch EXCEPT !.suppress = TRUE]
    /\ trash' = IF both THEN trash \cup {local} ELSE trash
    /\ keep' = IF both THEN keep ELSE 0
    /\ UNCHANGED <<receipt, resolveKeeps>>

-----------------------------------------------------------------------------
(* The mount is opened: the tables as they are, everything else anew, and  *)
(* InitialSync before the loops start.                                     *)

restart ==
    /\ LET gone == {i \in Present : inode[i].status \in {"failed", "rejected"} /\ local = 0}
       IN /\ Restart(gone)
          /\ meta' = [i \in Inodes |-> IF i \in gone THEN NoMeta ELSE meta[i]]
    /\ boot' = "list" /\ loaded' = FALSE
    /\ node' = NoNode /\ dl' = NoDl /\ poll' = NoPoll /\ watch' = NoWatch
    /\ ul' = [w \in Workers |-> NoUl]
    /\ stale' = {meta[i].hash : i \in Present} \ {0}     \* GCOrphans
    /\ UNCHANGED <<local, undo, srv, had, written, receipt, keep, trash>>

bootKeeps == <<local, undo, srv, had, written, stale, watch, poll, ul, worker, keep, trash>>

\* Mutant: the listing rebuilds the row, pending-edit flag included.
populateRemoteTree_ClearsDirty ==
    /\ boot = "list" /\ boot' = "walk" /\ loaded' = TRUE
    /\ \/ srv.data = 0 /\ UNCHANGED <<inode, meta, node>>
       \/ /\ srv.data # 0
          /\ \E i \in PathIds :
               /\ inode' = [inode EXCEPT ![i] = [status |-> "synced", dirty |-> FALSE]]
               /\ meta' = [meta EXCEPT ![i].hash = 0, ![i].etag = srv.etag]
               /\ node' = [NoNode EXCEPT !.id = i, !.etag = srv.etag]
    /\ UNCHANGED <<queue, receipt, dl, bootKeeps>>

\* populateRemoteTree; a failure ends InitialSync and the loops start anyway.
populateRemoteTree ==
    /\ boot = "list" /\ boot' = "walk" /\ loaded' = TRUE
    /\ \/ srv.data = 0 /\ UNCHANGED <<inode, meta, node>>
       \/ /\ srv.data # 0
          /\ \E i \in PathIds :
               LET dirty == inodeDirty(i)
                   conf == dirty /\ (\/ inode[i].status = "conflict"
                                     \/ meta[i].etag # srv.etag)
                   etag == IF dirty THEN meta[i].etag ELSE srv.etag
               IN /\ UpsertInode(i, CASE conf -> "conflict"
                                      [] dirty /\ ~conf -> inode[i].status
                                      [] OTHER -> "synced", dirty)
                  /\ meta' = [meta EXCEPT ![i].hash = 0, ![i].etag = etag]
                  /\ node' = [NoNode EXCEPT !.id = i, !.etag = etag,
                                            !.dirty = dirty, !.conf = conf]
    /\ UNCHANGED <<queue, receipt, dl, bootKeeps>>
populateFails ==
    /\ boot = "list" /\ boot' = "run"
    /\ UNCHANGED <<inode, queue, receipt, meta, node, loaded, dl, bootKeeps>>

walkAndSync ==
    /\ boot = "walk" /\ boot' = "scan"
    /\ \/ /\ node.id = 0
          /\ UNCHANGED <<inode, queue, receipt, meta, node, dl>>
       \/ /\ node.id # 0 /\ local # 0 /\ inodeDirty(node.id)
          /\ IF localBaseline(node.id) = 0 THEN markLocalConflict(node.id)
             ELSE UNCHANGED <<inode, meta, node>>
          /\ UNCHANGED <<queue, receipt, dl>>
       \/ /\ node.id # 0 /\ ~(local # 0 /\ inodeDirty(node.id))
          /\ fetchNode(TRUE)
    /\ UNCHANGED <<loaded, bootKeeps>>

scanLocalNewFiles ==
    /\ boot = "scan" /\ dl.pc = "idle" /\ boot' = "run"
    /\ IF local # 0 /\ Present = {}
       THEN \E i \in PathIds : queueNewFile(i)
       ELSE UNCHANGED <<inode, queue, receipt, meta>>
    /\ UNCHANGED <<node, loaded, dl, bootKeeps>>

-----------------------------------------------------------------------------
\* The mount is opened for the first time, on a folder and a server that may
\* each have the file already.
SInit ==
    /\ Init
    /\ \E mine, theirs \in BOOLEAN :
         /\ local = (IF mine THEN 1 ELSE 0) /\ keep = local
         /\ written = local + (IF theirs THEN 1 ELSE 0)
         /\ srv = IF theirs THEN [data |-> written, etag |-> <<written, 1>>] ELSE NoCopy
    /\ undo = 0 /\ trash = {} /\ had = {}
    /\ meta = [i \in Inodes |-> NoMeta]
    /\ stale = {}
    /\ node = NoNode /\ loaded = FALSE /\ watch = NoWatch
    /\ dl = NoDl /\ poll = NoPoll
    /\ ul = [w \in Workers |-> NoUl]
    /\ receipt = [r \in RowIds |-> 0]
    /\ boot = "list"

User == UserWrite \/ UserDelete \/ UserRestore
Elsewhere == RemoteEdit \/ RemoteDelete
Resolve == resolveLocal \/ \E both \in BOOLEAN : resolveRemote(both)
Fault == fetchError \/ populateFails \/ restart \/ \E w \in Workers : transferError(w)

Watcher == handleEvent \/ syncFile \/ SuppressEnd
Poller == pollList \/ pollApply
Downloader == walkForDownloads \/ downloadFile \/ fetch \/ (srv.data = 0 /\ fetchError)
              \/ validateDownloadPublication \/ publish \/ commitDownload
InitialSync == populateRemoteTree \/ walkAndSync \/ scanLocalNewFiles

SNext ==
    \/ User \/ Elsewhere \/ Resolve \/ Fault
    \/ Watcher \/ Poller \/ Downloader \/ healEntry \/ InitialSync
    \/ \E w \in Workers : Writes(w) \/ startFlush(w)

SSpec == SInit /\ [][SNext]_svars

-----------------------------------------------------------------------------
(* Properties.                                                             *)

\* Every variable keeps its type, and a path has one inode.
STypeOK ==
    /\ TypeOK
    /\ Cardinality(Present) <= 1
    /\ {local, undo, srv.data, keep, dl.data, poll.data} \subseteq 0 .. MaxData
    /\ \A i \in Inodes : meta[i].base \in 0 .. MaxData /\ meta[i].etag \in Etags \cup {NoEtag}
    /\ node.id \in Inodes \cup {0}
    /\ dl.pc \in {"idle", "start", "fetch", "fetched", "rename", "commit"}
    /\ boot \in {"list", "walk", "scan", "run"}

\* The user's last edit is never lost: it stays on disk, or in the trash, until
\* the server has taken it, whatever uploads, downloads, prunes, failures and
\* restarts do in between.
KeepSafe == keep # 0 => keep \in {local} \cup trash \cup had

\* local_remote_etag names the version whose content the baseline is: if the
\* server still has that version, localCopyMatches may skip the download and
\* the reconciler may upload over it.
VersionBinding ==
    \A i \in Present : meta[i].cur /\ meta[i].ver # NoEtag /\ meta[i].ver = srv.etag
                         => meta[i].base = srv.data

\* A poll that finds the file gone from the server drops no inode with an edit
\* recorded in it.
PruneSparesEdits ==
    [][pollApply => \A i \in Present : inode'[i].status = "absent" => ~inode[i].dirty]_svars

\* Every step of the file is a step of the queue.
QueueRefined == Spec
=============================================================================
