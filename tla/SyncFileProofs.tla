--------------------------- MODULE SyncFileProofs ---------------------------
(***************************************************************************)
(* What a file of a sync mount keeps for any number of inodes, rows,        *)
(* flushers, retries and contents: its steps are steps of the queue, the    *)
(* version recorded with a baseline is that content's own, and an edit of   *)
(* the user's stays until the server has it.                                *)
(***************************************************************************)
EXTENDS SyncFileSteps

-----------------------------------------------------------------------------
(* Steps that move contents.                                               *)

\* The same conditions, for a step that may move contents.
LEMMA KeepingFrom ==
    ASSUME Keeping, FileShape, \A d \in Known : Safe(d) => Safe(d)', Safe(0)',
           KeepSafe', (undo # 0 => keep = 0)', Safe(srv.data)',
           \A i \in Inodes : SameContent(meta[i], meta'[i]) \/ Safe(meta[i].base)',
           \A r \in RowIds : receipt'[r] \in {0, receipt[r]} \/ Safe(receipt[r])',
           \A w \in Workers : ul'[w] = ul[w] \/ ~ul'[w].answered \/ Safe(ul[w].data)',
           dl'.pc \in Arrived => \/ dl.pc \in Arrived /\ dl'.data = dl.data
                                 \/ Safe(dl.data)',
           ((dl.pc \in {"fetch", "fetched"} /\ ~dl.touched) \/ dl.pc = "rename" => Safe(local))'
    PROVE  Keeping'
<1>1. /\ \A i \in Inodes : meta[i].base \in Known
      /\ \A w \in Workers : ul[w].data \in Known
      /\ \A r \in RowIds : receipt[r] \in Known
      /\ dl.data \in Known
  BY DEF FileShape, MetaShape, MetaType, UlShape, UlType, DlShape, DlType
<1>2. (\A i \in Inodes : Safe(meta[i].base))'
  <2> SUFFICES ASSUME NEW i \in Inodes PROVE Safe(meta[i].base)' BY Zenon
  <2>1. Safe(meta[i].base) BY Zenon DEF Keeping
  <2>2. CASE meta'[i].base = meta[i].base
    <3>1. Safe(meta[i].base) => Safe(meta[i].base)' BY Zenon, <1>1, <2>2 DEF Safe
    <3> QED BY Zenon, <2>1, <3>1
  <2>3. CASE meta'[i].base = 0 BY Zenon, <2>3 DEF Safe
  <2> QED BY Zenon, <2>2, <2>3 DEF SameContent
<1>3. (\A r \in RowIds : Safe(receipt[r]))'
  <2> SUFFICES ASSUME NEW r \in RowIds PROVE Safe(receipt[r])' BY Zenon
  <2>1. Safe(receipt[r]) BY Zenon DEF Keeping
  <2>2. CASE receipt'[r] = receipt[r] BY Zenon, <1>1, <2>1, <2>2 DEF Safe
  <2>3. CASE receipt'[r] = 0 BY Zenon, <2>3 DEF Safe
  <2> QED BY Zenon, <2>2, <2>3
<1>4. (\A w \in Workers : ul[w].answered => Safe(ul[w].data))'
  <2> SUFFICES ASSUME NEW w \in Workers, ul'[w].answered PROVE Safe(ul[w].data)' BY Zenon
  <2>1. CASE ul'[w] = ul[w]
    <3>1. Safe(ul[w].data) BY Zenon, <2>1 DEF Keeping
    <3> QED BY Zenon, <1>1, <2>1, <3>1 DEF Safe
  <2> QED BY Zenon, <2>1
<1>5. (dl.pc \in Arrived => Safe(dl.data))'
  <2>1. CASE dl.pc \in Arrived /\ dl'.data = dl.data BY Zenon, <1>1, <2>1 DEF Keeping, Safe
  <2> QED BY Zenon, <2>1 DEF Arrived
<1> QED BY Zenon, <1>2, <1>3, <1>4, <1>5 DEF Keeping

LEMMA VersioningFrom ==
    ASSUME Versioning,
           \A i \in Inodes : \/ SameContent(meta[i], meta'[i]) /\ (srv' = srv \/ meta[i].ver # srv'.etag)
                             \/ Binds(meta[i].ver, meta[i].base)',
           \A w \in Workers : \/ ul'[w] = ul[w] /\ (srv' = srv \/ ul[w].etag # srv'.etag)
                              \/ Binds(ul[w].etag, ul[w].data)',
           dl'.pc \in Arrived => \/ /\ dl.pc \in Arrived /\ dl'.etag = dl.etag /\ dl'.data = dl.data
                                    /\ srv' = srv \/ dl.etag # srv'.etag
                                 \/ Binds(dl.etag, dl.data)'
    PROVE  Versioning'
<1>1. \A i \in Inodes : Binds(meta[i].ver, meta[i].base)'
  BY Zenon DEF Versioning, SameContent, Binds
<1>2. \A w \in Workers : Binds(ul[w].etag, ul[w].data)'
  BY Zenon DEF Versioning, Binds
<1>3. (dl.pc \in Arrived => Binds(dl.etag, dl.data))'
  BY Zenon DEF Versioning, Binds, Arrived
<1> QED BY Zenon, <1>1, <1>2, <1>3 DEF Versioning

\* One more content: what is known stays known, and the types grow.
LEMMA Grow ==
    ASSUME CopyShape, written < MaxData, written' = written + 1
    PROVE  /\ Known \subseteq Known' /\ written + 1 \in Known' /\ written + 1 \notin Known
           /\ written + 1 \in Data /\ written' \in 0 .. MaxData
           /\ MetaType \subseteq MetaType' /\ NodeType' = NodeType
           /\ DlType \subseteq DlType' /\ PollType \subseteq PollType' /\ UlType \subseteq UlType'
<1>1. /\ Known \subseteq Known' /\ written + 1 \in Known' /\ written + 1 \notin Known
      /\ written + 1 \in Data /\ written' \in 0 .. MaxData
  BY FilesAssumption DEF CopyShape, Known, Data
<1>2. MetaType \subseteq MetaType' BY <1>1 DEF MetaType
<1>3. DlType \subseteq DlType' BY <1>1 DEF DlType
<1>4. PollType \subseteq PollType' BY <1>1 DEF PollType
<1>5. UlType \subseteq UlType' BY <1>1 DEF UlType
<1>6. NodeType' = NodeType BY Zenon DEF NodeType
<1> QED BY Zenon, <1>1, <1>2, <1>3, <1>4, <1>5, <1>6

LEMMA TouchFacts ==
    ASSUME DlShape, Touch, DlType \subseteq DlType'
    PROVE  /\ DlShape' /\ dl'.pc = dl.pc /\ dl'.etag = dl.etag /\ dl'.data = dl.data
           /\ dl'.touched = (dl.pc # "idle")
<1> DEFINE b == dl.pc # "idle"
           n == [dl EXCEPT !.touched = b]
<1>0. b \in BOOLEAN OBVIOUS
<1>2. dl' = n BY Zenon DEF Touch
<1> HIDE DEF b
<1>1. n \in DlType /\ n.pc = dl.pc /\ n.id = dl.id /\ n.etag = dl.etag /\ n.data = dl.data
      /\ n.touched = b
  BY <1>0 DEF DlShape, DlType
<1> HIDE DEF n
<1> QED BY Zenon, <1>1, <1>2 DEF DlShape, b

LEMMA SameTypes ==
    ASSUME UNCHANGED written
    PROVE  /\ Known' = Known /\ MetaType' = MetaType /\ NodeType' = NodeType /\ DlType' = DlType
           /\ PollType' = PollType /\ UlType' = UlType
BY Zenon DEF Known, MetaType, NodeType, DlType, PollType, UlType

\* A step of the user's, and of another device's.
LEMMA UserInv ==
    ASSUME SInv, User
    PROVE  SInv' /\ (Keeping /\ (dl.pc = "rename" => ~UserWrite) => Keeping')
<1>0. CopyShape /\ MetaShape /\ NodeShape /\ DlShape /\ UlShape /\ OnePath /\ Versioning
  BY Zenon DEF SInv, FileShape
<1>1. Touch /\ UNCHANGED <<inode, ul, receipt, srv, had, meta, node, poll, boot, trash>>
  BY Zenon DEF User, UserWrite, UserDelete, UserRestore, wbVars
<1>2. /\ Known \subseteq Known' /\ MetaType \subseteq MetaType' /\ NodeType' = NodeType
      /\ DlType \subseteq DlType' /\ PollType \subseteq PollType' /\ UlType \subseteq UlType'
  <2>1. CASE UserWrite BY Zenon, <1>0, <2>1, Grow DEF UserWrite
  <2>2. CASE UserDelete \/ UserRestore BY Zenon, <2>2, SameTypes DEF UserDelete, UserRestore
  <2> QED BY Zenon, <2>1, <2>2 DEF User
<1>3. srv \in [data : Known', etag : Versioned]
  <2>1. srv \in [data : Known, etag : Versioned] BY Zenon, <1>0 DEF CopyShape
  <2> HIDE DEF Known, Versioned
  <2> QED BY <1>2, <2>1
<1>4. CopyShape'
  <2>0. 0 \in Known BY Zenon, <1>0, KnownFacts
  <2>1. CASE UserWrite
    <3>1. written' \in 0 .. MaxData /\ written + 1 \in Known' /\ 0 \in Known'
      BY Zenon, <1>0, <1>2, <2>0, <2>1, Grow DEF UserWrite
    <3> QED BY Zenon, <1>1, <1>3, <2>1, <3>1 DEF UserWrite, CopyShape
  <2>2. CASE UserDelete BY Zenon, <1>0, <1>1, <1>2, <1>3, <2>0, <2>2 DEF UserDelete, CopyShape
  <2>3. CASE UserRestore BY Zenon, <1>0, <1>1, <1>2, <1>3, <2>0, <2>3 DEF UserRestore, CopyShape
  <2> QED BY Zenon, <2>1, <2>2, <2>3 DEF User
<1>5. MetaShape' BY Zenon, <1>0, <1>1, <1>2 DEF MetaShape
<1>6. NodeShape' BY Zenon, <1>0, <1>1, <1>2 DEF NodeShape
<1>7. /\ DlShape' /\ dl'.pc = dl.pc /\ dl'.etag = dl.etag /\ dl'.data = dl.data
      /\ dl'.touched = (dl.pc # "idle")
  BY Zenon, <1>0, <1>1, <1>2, TouchFacts
<1>8. UlShape' BY Zenon, <1>0, <1>1, <1>2 DEF UlShape
<1>9. OnePath' BY Zenon, <1>0, <1>1, PathSame
<1>10. \A i \in Inodes : SameContent(meta[i], meta'[i]) BY Zenon, <1>1 DEF SameContent
<1>11. Versioning' BY Zenon, <1>0, <1>1, <1>7, <1>10, VersioningFrom
<1>12. SInv' BY Zenon, <1>4, <1>5, <1>6, <1>7, <1>8, <1>9, <1>11 DEF SInv, FileShape
<1>13. ASSUME Keeping, dl.pc = "rename" => ~UserWrite PROVE Keeping'
  <2>1. CASE UserWrite
    <3>1. \A d \in Known : Safe(d)'
      <4>1. keep' = written + 1 /\ written + 1 \notin Known BY Zenon, <1>0, <2>1, Grow DEF UserWrite
      <4> QED BY Zenon, <4>1 DEF Safe
    <3>2. 0 \in Known /\ srv.data \in Known BY <1>0, KnownFacts DEF CopyShape
    <3>3. KeepSafe' /\ (undo # 0 => keep = 0)' BY Zenon, <2>1 DEF UserWrite, KeepSafe
    <3>4. Safe(srv.data)'
      <4>1. srv' = srv BY Zenon, <1>1
      <4> QED BY Zenon, <3>1, <3>2, <4>1 DEF Safe
    <3>5. ((dl.pc \in {"fetch", "fetched"} /\ ~dl.touched) \/ dl.pc = "rename" => Safe(local))'
      BY Zenon, <1>7, <1>13, <2>1
    <3>6. FileShape BY Zenon DEF SInv
    <3>7. Safe(0)' BY Zenon, <3>1, <3>2 DEF Safe
    <3> QED BY Zenon, <1>1, <1>7, <1>10, <1>13, <3>1, <3>3, <3>4, <3>5, <3>6, <3>7, KeepingFrom
  <2>2. CASE UserDelete \/ UserRestore
    <3>1. keep' = 0 BY Zenon, <1>13, <2>2 DEF UserDelete, UserRestore, Keeping
    <3> QED BY Zenon, <3>1 DEF Keeping, KeepSafe, Safe
  <2> QED BY Zenon, <2>1, <2>2 DEF User
<1> QED BY Zenon, <1>12, <1>13

LEMMA ElsewhereInv ==
    ASSUME SInv, Elsewhere
    PROVE  SInv' /\ (Keeping => Keeping')
<1>0. CopyShape /\ MetaShape /\ NodeShape /\ DlShape /\ UlShape /\ OnePath /\ Versioning /\ FileShape
  BY Zenon DEF SInv, FileShape
<1>1. UNCHANGED <<inode, ul, receipt, local, undo, had, meta, node, poll, boot, trash, dl, keep>>
  BY Zenon DEF Elsewhere, RemoteEdit, RemoteDelete, vars
<1>2. /\ Known \subseteq Known' /\ MetaType \subseteq MetaType' /\ NodeType' = NodeType
      /\ DlType \subseteq DlType' /\ PollType \subseteq PollType' /\ UlType \subseteq UlType'
      /\ written' \in 0 .. MaxData
  <2>1. CASE RemoteEdit BY Zenon, <1>0, <2>1, Grow DEF RemoteEdit
  <2>2. CASE RemoteDelete BY Zenon, <1>0, <2>2, SameTypes DEF RemoteDelete, CopyShape
  <2> QED BY Zenon, <2>1, <2>2 DEF Elsewhere
<1>3. /\ srv' \in [data : Known', etag : Versioned]
      /\ \A i \in Inodes : srv'.etag # meta[i].ver \/ srv'.etag = NoEtag
      /\ \A w \in Workers : srv'.etag # ul[w].etag \/ srv'.etag = NoEtag
      /\ srv'.etag # dl.etag \/ srv'.etag = NoEtag
      /\ srv'.data \notin Known \/ srv'.data = 0
  <2>1. CASE RemoteEdit
    <3>1. /\ written + 1 \in Data /\ written + 1 \in Known' /\ written + 1 \notin Known
      BY Zenon, <1>0, <2>1, Grow DEF RemoteEdit
    <3>2. /\ NewEtag(written + 1) \in Etags /\ NewEtag(written + 1) \notin {srv.etag, dl.etag}
          /\ \A i \in Inodes : NewEtag(written + 1) # meta[i].ver
          /\ \A w \in Workers : NewEtag(written + 1) # ul[w].etag
      BY Zenon, <1>0, <3>1, NewEtagFresh
    <3>3. srv' = [data |-> written + 1, etag |-> NewEtag(written + 1)] BY Zenon, <2>1 DEF RemoteEdit
    <3>4. NewEtag(written + 1) \in Versioned BY Zenon, <3>2 DEF Versioned
    <3> QED BY Zenon, <3>1, <3>2, <3>3, <3>4
  <2>2. CASE RemoteDelete
    <3>1. srv' = NoCopy BY Zenon, <2>2 DEF RemoteDelete
    <3>2. 0 \in Known' /\ NoEtag \in Versioned BY Zenon, <1>0, <1>2, KnownFacts DEF Versioned
    <3>3. NoCopy.data = 0 /\ NoCopy.etag = NoEtag /\ NoCopy \in [data : Known', etag : Versioned]
      BY <3>2 DEF NoCopy
    <3> QED BY Zenon, <3>1, <3>3
  <2> QED BY Zenon, <2>1, <2>2 DEF Elsewhere
<1>4. CopyShape' BY Zenon, <1>0, <1>1, <1>2, <1>3 DEF CopyShape
<1>5. MetaShape' BY Zenon, <1>0, <1>1, <1>2 DEF MetaShape
<1>6. NodeShape' BY Zenon, <1>0, <1>1, <1>2 DEF NodeShape
<1>7. DlShape' BY Zenon, <1>0, <1>1, <1>2 DEF DlShape
<1>8. UlShape' BY Zenon, <1>0, <1>1, <1>2 DEF UlShape
<1>9. OnePath' BY Zenon, <1>0, <1>1, PathSame
<1>10. \A i \in Inodes : SameContent(meta[i], meta'[i]) BY Zenon, <1>1 DEF SameContent
<1>11. Versioning' BY Zenon, <1>1, <1>3 DEF Versioning, Binds
<1>12. SInv' BY Zenon, <1>4, <1>5, <1>6, <1>7, <1>8, <1>9, <1>11 DEF SInv, FileShape
<1>13. ASSUME Keeping PROVE Keeping'
  <2>1. \A d : Safe(d) => Safe(d)' BY Zenon, <1>1 DEF Safe
  <2>2. Safe(0)' BY Zenon DEF Safe
  <2>3. Safe(srv.data)' BY Zenon, <1>0, <1>1, <1>3 DEF Safe, CopyShape
  <2>4. KeepSafe' /\ (undo # 0 => keep = 0)' BY Zenon, <1>1, <1>13 DEF KeepSafe, Keeping
  <2>5. ((dl.pc \in {"fetch", "fetched"} /\ ~dl.touched) \/ dl.pc = "rename" => Safe(local))'
    BY Zenon, <1>1, <1>13 DEF Keeping, Safe
  <2> QED BY Zenon, <1>0, <1>1, <1>10, <1>13, <2>1, <2>2, <2>3, <2>4, <2>5, KeepingFrom
<1> QED BY Zenon, <1>12, <1>13

\* A delete carries no content.
Sends == \A w \in Workers : \A e \in worker[w].cur : e.action = "delete" => ul[w].data = 0

LEMMA SendsNext ==
    ASSUME TypeOK, FileShape, Sends, [SNext]_svars
    PROVE  Sends'
<1>0. /\ ul \in [Workers -> UlType] /\ \A w \in Workers : ul[w].data = ul[w].data
  BY Zenon DEF FileShape, UlShape
<1>1. CASE UNCHANGED <<worker, ul>> BY Zenon, <1>1 DEF Sends
<1>2. CASE restart
  <2>1. worker' = [w \in Workers |-> Idle] BY Zenon, <1>2 DEF restart, Restart
  <2>2. Idle.cur = {} BY DEF Idle
  <2> QED BY Zenon, <2>1, <2>2 DEF Sends
<1>3. ASSUME NEW w \in Workers, Writes(w) \/ startFlush(w) \/ transferError(w) PROVE Sends'
  <2>0. worker[w] \in Worker /\ worker \in [Workers -> Worker] BY Zenon DEF TypeOK
  <2>1. CASE startEntry(w)
    <3>1. PICK e \in worker'[w].cur :
            ul' = [ul EXCEPT ![w] =
                    [NoUl EXCEPT !.data = IF e.action = "upload" THEN Content(e.id) ELSE 0,
                                 !.node = IF node.id = e.id THEN e.id ELSE 0]]
      BY Zenon, <2>1 DEF startEntry
    <3>2. PICK f \in worker[w].batch :
            worker' = [worker EXCEPT ![w].batch = @ \ {f}, ![w].cur = {f},
                         ![w].pc = IF f.action = "upload" /\ inode[f.id].status = "absent"
                                   THEN "doomed" ELSE "sending"]
      BY Zenon, <2>1 DEF startEntry, processEntry
    <3>3. worker'[w].cur = {f} BY <2>0, <3>2 DEF Worker
    <3>4. \A v \in Workers \ {w} : worker'[v] = worker[v] /\ ul'[v] = ul[v]
      BY Zenon, <1>0, <2>0, <3>1, <3>2
    <3> DEFINE d == IF e.action = "upload" THEN Content(e.id) ELSE 0
               n == IF node.id = e.id THEN e.id ELSE 0
               u == [NoUl EXCEPT !.data = d, !.node = n]
    <3>5. ul'[w] = u BY Zenon, <1>0, <3>1
    <3>6. e.action = "delete" => d = 0 OBVIOUS
    <3> HIDE DEF d, n
    <3>7. u.data = d BY DEF NoUl
    <3> QED BY Zenon, <3>3, <3>4, <3>5, <3>6, <3>7 DEF Sends
  <2>2. CASE Answer(w)
    <3>1. worker' = worker BY Zenon, <2>2 DEF Answer, vars
    <3>2. \A v \in Workers : ul'[v].data = ul[v].data
      <4>1. \A v \in Workers : ul[v] \in UlType BY Zenon, <1>0
      <4>2. \A e : [ul[w] EXCEPT !.answered = TRUE].data = ul[w].data
                   /\ [ul[w] EXCEPT !.answered = TRUE, !.etag = e].data = ul[w].data
        BY <4>1 DEF UlType
      <4>3. \/ ul' = [ul EXCEPT ![w] = [ul[w] EXCEPT !.answered = TRUE]]
            \/ ul' = [ul EXCEPT ![w] = [ul[w] EXCEPT !.answered = TRUE, !.etag = srv'.etag]]
        BY Zenon, <2>2 DEF Answer
      <4> QED BY ZenonT(30), <1>0, <4>2, <4>3
    <3> QED BY Zenon, <3>1, <3>2 DEF Sends
  <2>3. CASE recordUploaded(w) \/ startFlush(w) \/ batchStep(w)
    <3>1. ul' = ul BY Zenon, <2>3 DEF recordUploaded, startFlush, batchStep
    <3>2. \A v \in Workers : worker'[v].cur \in {{}, worker[v].cur}
      <4>1. CASE Succeed(w) BY <2>0, <4>1 DEF Succeed, Worker
      <4>2. CASE FlushStart(w) \/ FlushReturn(w) BY <2>0, <4>2 DEF FlushStart, FlushReturn, Worker
      <4>3. CASE DequeueWriteback(w)
        <5>1. PICK S : worker' = [worker EXCEPT ![w] =
                         [Idle EXCEPT !.pc = "batch", !.batch = {EntryOf(r) : r \in S},
                                      !.size = Cardinality(S)]]
          BY Zenon, <4>3 DEF DequeueWriteback
        <5>2. \A p, b, s : [Idle EXCEPT !.pc = p, !.batch = b, !.size = s].cur = {} BY DEF Idle
        <5> QED BY Zenon, <2>0, <5>1, <5>2
      <4>4. CASE Hold(w) BY <2>0, <4>4 DEF Hold, Worker
      <4>5. CASE EndBatch(w)
        <5>1. \A p : [Idle EXCEPT !.pc = p].cur = {} BY DEF Idle
        <5> QED BY Zenon, <2>0, <4>5, <5>1 DEF EndBatch
      <4> QED BY Zenon, <2>3, <4>1, <4>2, <4>3, <4>4, <4>5 DEF recordUploaded, startFlush, batchStep
    <3> QED BY Zenon, <3>1, <3>2 DEF Sends
  <2>4. CASE settleUpload(w) \/ settleDelete(w) \/ transferError(w)
    <3>1. ul' = [ul EXCEPT ![w] = NoUl] /\ Done(w)
      BY Zenon, <2>4 DEF settleUpload, settleDelete, transferError, Settle, Resend, Defer, GiveUp
    <3>2. NoUl.data = 0 BY DEF NoUl
    <3>3. \A v \in Workers \ {w} : worker'[v] = worker[v] BY Zenon, <2>0, <3>1 DEF Done
    <3> QED BY Zenon, <1>0, <3>1, <3>2, <3>3 DEF Sends
  <2> QED BY Zenon, <1>3, <2>1, <2>2, <2>3, <2>4 DEF Writes
<1>4. CASE User \/ Elsewhere \/ Resolve \/ fetchError \/ populateFails
  <2>1. UNCHANGED <<worker, ul>>
    BY Zenon, <1>4 DEF User, UserWrite, UserDelete, UserRestore, Elsewhere, RemoteEdit, RemoteDelete,
          Resolve, resolveLocal, resolveRemote, resolveKeeps, fetchError, dlKeeps, populateFails,
          bootKeeps, wbVars, vars
  <2> QED BY Zenon, <1>1, <2>1
<1>5. CASE Watcher
  <2>1. UNCHANGED <<worker, ul>>
    BY Zenon, <1>5 DEF Watcher, handleEvent, handleWrite, handleRemove, syncFile, SuppressEnd, wbVars
  <2> QED BY Zenon, <1>1, <2>1
<1>6. CASE Poller \/ Downloader \/ healEntry \/ InitialSync
  <2>1. UNCHANGED <<worker, ul>>
    BY Zenon, <1>6 DEF Poller, pollList, pollApply, pollerKeeps, Downloader, walkForDownloads,
          downloadFile, fetch, fetchError, validateDownloadPublication, publish, commitDownload, dlKeeps,
          healEntry, healKeeps, InitialSync, populateRemoteTree, walkAndSync, scanLocalNewFiles, bootKeeps
  <2> QED BY Zenon, <1>1, <2>1
<1>7. CASE UNCHANGED svars BY Zenon, <1>1, <1>7 DEF svars
<1> QED BY Zenon, <1>2, <1>3, <1>4, <1>5, <1>6, <1>7 DEF SNext, Fault

\* An upload once it is answered.
LEMMA Answered ==
    ASSUME NEW u \in UlType
    PROVE  /\ [u EXCEPT !.answered = TRUE] \in UlType
           /\ [u EXCEPT !.answered = TRUE].data = u.data /\ [u EXCEPT !.answered = TRUE].etag = u.etag
           /\ \A t \in Versioned : /\ [u EXCEPT !.answered = TRUE, !.etag = t] \in UlType
                                   /\ [u EXCEPT !.answered = TRUE, !.etag = t].data = u.data
                                   /\ [u EXCEPT !.answered = TRUE, !.etag = t].etag = t
<1>1. [u EXCEPT !.answered = TRUE] \in UlType
  <2>1. \A b \in BOOLEAN : [u EXCEPT !.answered = b] \in UlType BY DEF UlType
  <2> QED BY Zenon, <2>1
<1>2. [u EXCEPT !.answered = TRUE].data = u.data /\ [u EXCEPT !.answered = TRUE].etag = u.etag BY DEF UlType
<1>3. \A t \in Versioned : [u EXCEPT !.answered = TRUE, !.etag = t] \in UlType
  <2>1. \A v \in UlType, t \in Versioned : [v EXCEPT !.etag = t] \in UlType BY DEF UlType
  <2>2. \A t : [u EXCEPT !.answered = TRUE, !.etag = t] = [[u EXCEPT !.answered = TRUE] EXCEPT !.etag = t]
    BY DEF UlType
  <2> QED BY Zenon, <1>1, <2>1, <2>2
<1>4. \A t \in Versioned : /\ [u EXCEPT !.answered = TRUE, !.etag = t].data = u.data
                           /\ [u EXCEPT !.answered = TRUE, !.etag = t].etag = t
  BY DEF UlType
<1> QED BY Zenon, <1>1, <1>2, <1>3, <1>4

\* The request reaches the server.
LEMMA AnswerInv ==
    ASSUME SInv, TypeOK, Sends, NEW w \in Workers, Answer(w)
    PROVE  SInv' /\ (Keeping => Keeping')
<1>0. CopyShape /\ MetaShape /\ NodeShape /\ DlShape /\ UlShape /\ OnePath /\ Versioning /\ FileShape
  BY Zenon DEF SInv, FileShape
<1>1. /\ UNCHANGED <<inode, local, undo, written, meta, node, poll, boot, trash, dl, keep>>
  BY Zenon DEF Answer, workerKeeps, vars
<1>2. ul \in [Workers -> UlType] /\ ul[w] \in UlType /\ ul[w].data \in Known
  BY <1>0 DEF UlShape, UlType
<1>3. /\ MetaShape' /\ NodeShape' /\ DlShape' /\ OnePath'
  BY Zenon, <1>0, <1>1, MetaSame, NodeSame, DlSame, PathSame
<1>4. \A i \in Inodes : SameContent(meta[i], meta'[i]) BY Zenon, <1>1 DEF SameContent
<1> DEFINE a == [ul[w] EXCEPT !.answered = TRUE]
<1>5. a \in UlType /\ a.data = ul[w].data /\ a.etag = ul[w].etag BY Zenon, <1>2, Answered
<1>6. ASSUME Keeping
      PROVE  /\ KeepSafe /\ (undo # 0 => keep = 0) /\ \A r \in RowIds : Safe(receipt[r])
             /\ ((dl.pc \in {"fetch", "fetched"} /\ ~dl.touched) \/ dl.pc = "rename" => Safe(local))
  BY Zenon, <1>6 DEF Keeping
<1>7. PICK e \in worker[w].cur :
         IF e.action = "delete"
         THEN srv' = NoCopy /\ ul' = [ul EXCEPT ![w] = a] /\ UNCHANGED <<receipt, had>>
         ELSE /\ ul[w].data # 0
              /\ IF receipt[e.row] = ul[w].data
                 THEN ul' = [ul EXCEPT ![w] = a] /\ UNCHANGED <<srv, had, receipt>>
                 ELSE /\ srv' = [data |-> ul[w].data, etag |-> NewEtag(ul[w].data)]
                      /\ had' = had \cup {ul[w].data}
                      /\ ul' = [ul EXCEPT ![w] = [ul[w] EXCEPT !.answered = TRUE, !.etag = srv'.etag]]
                      /\ receipt' = [receipt EXCEPT ![e.row] = ul[w].data]
  BY Zenon DEF Answer
<1>8. e.row \in RowIds /\ e.id \in Inodes
  <2>1. e \in Entry BY Zenon, CarriedType DEF Carried
  <2> QED BY <2>1 DEF Entry
<1>9. Safe(0)' BY Zenon DEF Safe
<1>10. ASSUME Keeping, had \subseteq had', Safe(srv.data)',
              \A r \in RowIds : receipt'[r] \in {0, receipt[r]} \/ Safe(receipt[r])',
              \A v \in Workers : ul'[v] = ul[v] \/ ~ul'[v].answered \/ Safe(ul[v].data)'
       PROVE  Keeping'
  <2>1. \A d : Safe(d) => Safe(d)' BY Zenon, <1>1, <1>10 DEF Safe
  <2>2. KeepSafe' /\ (undo # 0 => keep = 0)' BY Zenon, <1>1, <1>6, <1>10 DEF KeepSafe
  <2>3. ((dl.pc \in {"fetch", "fetched"} /\ ~dl.touched) \/ dl.pc = "rename" => Safe(local))'
    BY Zenon, <1>1, <1>6, <1>10, <2>1 DEF Safe
  <2> QED BY Zenon, <1>0, <1>1, <1>4, <1>9, <1>10, <2>1, <2>2, <2>3, KeepingFrom
<1>11. CASE e.action = "delete"
  <2>1. srv' = NoCopy /\ ul' = [ul EXCEPT ![w] = a] /\ UNCHANGED <<receipt, had>> BY Zenon, <1>7, <1>11
  <2>2. 0 \in Known /\ NoEtag \in Versioned BY Zenon, <1>0, KnownFacts DEF Versioned
  <2>3. NoCopy.data = 0 /\ NoCopy.etag = NoEtag /\ NoCopy \in [data : Known, etag : Versioned]
    BY <2>2 DEF NoCopy
  <2>4. CopyShape' BY Zenon, <1>0, <1>1, <2>1, <2>3 DEF CopyShape, Known
  <2>5. UlShape' BY Zenon, <1>0, <1>1, <1>5, <2>1 DEF UlShape, UlType, Known
  <2>6. Versioning' BY Zenon, <2>1, <2>3 DEF Versioning, Binds
  <2>7. ul[w].data = 0 BY Zenon, <1>11 DEF Sends
  <2>8. Keeping => Keeping'
    <3>1. Safe(srv.data)' BY Zenon, <1>9, <2>1, <2>3 DEF Safe
    <3>2. \A v \in Workers : ul'[v] = ul[v] \/ Safe(ul[v].data)'
      BY Zenon, <1>2, <1>5, <1>9, <2>1, <2>7 DEF Safe
    <3> QED BY Zenon, <1>10, <2>1, <3>1, <3>2
  <2> QED BY Zenon, <1>3, <2>4, <2>5, <2>6, <2>8 DEF SInv, FileShape
<1>12. CASE e.action # "delete" /\ receipt[e.row] = ul[w].data
  <2>1. ul' = [ul EXCEPT ![w] = a] /\ UNCHANGED <<srv, had, receipt>> BY Zenon, <1>7, <1>12
  <2>2. CopyShape' BY Zenon, <1>0, <1>1, <2>1 DEF CopyShape, Known
  <2>3. UlShape' BY Zenon, <1>0, <1>1, <1>5, <2>1 DEF UlShape, UlType, Known
  <2>4. Versioning'
    <3>1. \A v \in Workers : ul'[v] = ul[v] \/ Binds(ul[v].etag, ul[v].data)'
      BY Zenon, <1>0, <1>2, <1>5, <2>1 DEF Versioning, Binds
    <3> QED BY Zenon, <1>0, <1>1, <1>4, <2>1, <3>1, VersioningFrom
  <2>5. ASSUME Keeping PROVE Keeping'
    <3>1. Safe(ul[w].data) /\ Safe(srv.data) BY Zenon, <1>6, <1>8, <1>12, <2>5 DEF Keeping
    <3>2. Safe(srv.data)' BY Zenon, <1>1, <2>1, <3>1 DEF Safe
    <3>3. \A v \in Workers : ul'[v] = ul[v] \/ Safe(ul[v].data)'
      BY Zenon, <1>1, <1>2, <1>5, <2>1, <3>1 DEF Safe
    <3> QED BY Zenon, <1>10, <2>1, <2>5, <3>2, <3>3
  <2> QED BY Zenon, <1>3, <2>2, <2>3, <2>4, <2>5 DEF SInv, FileShape
<1>13. CASE e.action # "delete" /\ receipt[e.row] # ul[w].data
  <2> DEFINE d == ul[w].data
             t == NewEtag(d)
             c == [data |-> d, etag |-> t]
             b == [ul[w] EXCEPT !.answered = TRUE, !.etag = t]
  <2>1. d \in Data
    <3>1. d # 0 BY Zenon, <1>7, <1>13
    <3> QED BY <1>0, <1>2, <3>1, FilesAssumption DEF Known, Data, CopyShape
  <2>2. /\ t \in Etags /\ t \notin {srv.etag, dl.etag} /\ \A i \in Inodes : t # meta[i].ver
        /\ \A v \in Workers : t # ul[v].etag
    BY Zenon, <1>0, <2>1, NewEtagFresh
  <2>3. t \in Versioned /\ d \in Known BY Zenon, <1>2, <2>2 DEF Versioned
  <2>4. /\ srv' = c /\ had' = had \cup {d} /\ receipt' = [receipt EXCEPT ![e.row] = d]
        /\ ul' = [ul EXCEPT ![w] = [ul[w] EXCEPT !.answered = TRUE, !.etag = srv'.etag]]
    BY Zenon, <1>7, <1>13
  <2> HIDE DEF d, t
  <2>5. c.data = d /\ c.etag = t /\ c \in [data : Known, etag : Versioned] BY <2>3
  <2>6. ul' = [ul EXCEPT ![w] = b] BY Zenon, <2>4, <2>5
  <2>7. b \in UlType /\ b.data = d /\ b.etag = t BY Zenon, <1>2, <2>3, Answered DEF d
  <2> HIDE DEF c, b
  <2>8. CopyShape' BY Zenon, <1>0, <1>1, <2>4, <2>5 DEF CopyShape, Known
  <2>9. UlShape' BY Zenon, <1>0, <1>1, <2>3, <2>4, <2>6, <2>7 DEF UlShape, UlType, Known
  <2>10. \A v \in Workers : ul'[v] = IF v = w THEN b ELSE ul[v] BY Zenon, <1>2, <2>6
  <2>11. Versioning'
    <3>1. \A v \in Workers : \/ ul'[v] = ul[v] /\ ul[v].etag # srv'.etag
                             \/ Binds(ul[v].etag, ul[v].data)'
      BY Zenon, <2>2, <2>4, <2>5, <2>7, <2>10 DEF Binds
    <3>2. /\ \A i \in Inodes : meta[i].ver # srv'.etag
          /\ dl.etag # srv'.etag
      BY Zenon, <2>2, <2>4, <2>5
    <3> QED BY Zenon, <1>0, <1>1, <1>4, <3>1, <3>2, VersioningFrom
  <2>12. ASSUME Keeping PROVE Keeping'
    <3>1. Safe(srv.data)' BY Zenon, <2>4, <2>5 DEF Safe
    <3>2. \A v \in Workers : ul'[v] = ul[v] \/ Safe(ul[v].data)'
      <4>1. d \in had' /\ ul'[w].data = d BY Zenon, <2>4, <2>7, <2>10
      <4>2. Safe(ul[w].data)' BY Zenon, <4>1 DEF Safe
      <4> QED BY Zenon, <2>10, <4>2
    <3>3. \A r \in RowIds : receipt'[r] = receipt[r] \/ receipt'[r] = d BY Zenon, <1>0, <2>4 DEF UlShape
    <3>4. \A r \in RowIds : receipt'[r] \in {0, receipt[r]} \/ Safe(receipt[r])'
      <4>1. d \in had' BY Zenon, <2>4
      <4>2. \A r \in RowIds : receipt'[r] = d => Safe(receipt[r])' BY Zenon, <4>1 DEF Safe
      <4> QED BY Zenon, <3>3, <4>2
    <3>5. had \subseteq had' BY Zenon, <2>4
    <3> QED BY Zenon, <1>10, <2>12, <3>1, <3>2, <3>4, <3>5
  <2> QED BY Zenon, <1>3, <2>8, <2>9, <2>11, <2>12 DEF SInv, FileShape
<1> QED BY Zenon, <1>11, <1>12, <1>13

\* A row that is given a baseline: it is a copy of the version it names, and safe.
LEMMA BaselineRow ==
    ASSUME CopyShape, MetaShape, Versioning, UNCHANGED <<written, srv, keep, had>>,
           NEW i \in Inodes, NEW m \in MetaType, SetMeta(i, m), Binds(m.ver, m.base)
    PROVE  /\ MetaShape'
           /\ \A j \in Inodes : SameContent(meta[j], meta'[j]) \/ Binds(meta[j].ver, meta[j].base)'
           /\ Safe(m.base) => \A j \in Inodes : SameContent(meta[j], meta'[j]) \/ Safe(meta[j].base)'
<1>1. meta \in [Inodes -> MetaType] /\ meta' \in [Inodes -> MetaType] BY Zenon DEF MetaShape, SetMeta
<1>2. MetaShape' BY Zenon, <1>1, SameTypes DEF MetaShape
<1>3. \A j \in Inodes : meta'[j] = meta[j] \/ meta'[j] = m BY Zenon, <1>1 DEF SetMeta
<1>4. \A j \in Inodes : meta'[j] = meta[j] => SameContent(meta[j], meta'[j]) BY Zenon DEF SameContent
<1>5. \A j \in Inodes : meta'[j] = m => Binds(meta[j].ver, meta[j].base)' BY Zenon DEF Binds
<1>6. Safe(m.base) => \A j \in Inodes : meta'[j] = m => Safe(meta[j].base)' BY Zenon DEF Safe
<1> QED BY Zenon, <1>2, <1>3, <1>4, <1>5, <1>6

LEMMA RecordInv ==
    ASSUME SInv, TypeOK, NEW w \in Workers, recordUploaded(w)
    PROVE  SInv' /\ (Keeping => Keeping')
<1>0. CopyShape /\ MetaShape /\ NodeShape /\ DlShape /\ UlShape /\ OnePath /\ Versioning /\ FileShape
  BY Zenon DEF SInv, FileShape
<1>1. /\ UNCHANGED <<inode, srv, had, ul, local, undo, written, node, poll, boot, trash, dl, keep>>
      /\ FreshReceipts
  BY Zenon DEF recordUploaded, workerKeeps, Succeed
<1>2. CopyShape' /\ NodeShape' /\ DlShape' /\ OnePath' /\ UlShape' /\ ReceiptKept
  <2>1. FileKept BY Zenon, <1>1 DEF FileKept
  <2> QED BY Zenon, <1>0, <1>1, <2>1, CopySame, NodeSame, DlSame, PathSame, FreshReceiptsKept
<1>3. /\ MetaShape'
      /\ \A j \in Inodes : SameContent(meta[j], meta'[j]) \/ Binds(meta[j].ver, meta[j].base)'
      /\ Keeping => \A j \in Inodes : SameContent(meta[j], meta'[j]) \/ Safe(meta[j].base)'
  <2>1. CASE UNCHANGED meta BY Zenon, <1>0, <1>1, <2>1, MetaSame DEF MetaKept
  <2>2. ASSUME NEW e \in worker[w].cur,
               SetMeta(e.id, LocalContent([meta[e.id] EXCEPT !.etag = ul[w].etag], ul[w].data, ul[w].etag))
        PROVE  /\ MetaShape'
               /\ \A j \in Inodes : SameContent(meta[j], meta'[j]) \/ Binds(meta[j].ver, meta[j].base)'
               /\ Keeping => \A j \in Inodes : SameContent(meta[j], meta'[j]) \/ Safe(meta[j].base)'
    <3> DEFINE m == LocalContent([meta[e.id] EXCEPT !.etag = ul[w].etag], ul[w].data, ul[w].etag)
    <3>1. e.id \in Inodes BY Zenon, CurFacts
    <3>2. ul[w].etag \in Versioned /\ ul[w].data \in Known /\ meta[e.id] \in MetaType
      BY <1>0, <3>1 DEF UlShape, UlType, MetaShape
    <3>6. [meta[e.id] EXCEPT !.etag = ul[w].etag] \in MetaType BY Zenon, <1>0, <3>2, MetaEdits
    <3>3. m \in MetaType /\ m.base = ul[w].data /\ m.ver = ul[w].etag BY ZenonT(30), <1>0, <3>2, <3>6, MetaEdits
    <3>4. Binds(m.ver, m.base) BY Zenon, <1>0, <3>3 DEF Versioning, Binds
    <3>5. Keeping => Safe(m.base) BY Zenon, <3>3 DEF recordUploaded, Keeping
    <3> QED BY Zenon, <1>0, <1>1, <2>2, <3>1, <3>3, <3>4, <3>5, BaselineRow
  <2> QED BY Zenon, <2>1, <2>2 DEF recordUploaded
<1>4. Versioning' BY Zenon, <1>0, <1>1, <1>3, VersioningFrom
<1>5. ASSUME Keeping PROVE Keeping'
  <2>1. \A d : Safe(d) => Safe(d)' BY Zenon, <1>1 DEF Safe
  <2>2. Safe(0)' BY Zenon DEF Safe
  <2>3. KeepSafe' /\ (undo # 0 => keep = 0)' /\ Safe(srv.data)' BY Zenon, <1>1, <1>5 DEF KeepSafe, Keeping, Safe
  <2>4. ((dl.pc \in {"fetch", "fetched"} /\ ~dl.touched) \/ dl.pc = "rename" => Safe(local))'
    BY Zenon, <1>1, <1>5 DEF Keeping, Safe
  <2> QED BY Zenon, <1>0, <1>1, <1>2, <1>3, <1>5, <2>1, <2>2, <2>3, <2>4, KeepingFrom DEF ReceiptKept
<1> QED BY Zenon, <1>2, <1>3, <1>4, <1>5 DEF SInv, FileShape

\* The file is put into the trash or given up: by a prune, and by the user's choice of
\* the remote side in a conflict.
LEMMA TrashInv ==
    ASSUME SInv, Touch, local' = 0, UNCHANGED <<undo, srv, had, written, ul, receipt, boot>>,
           keep' = 0 \/ (keep' = keep /\ trash' = trash \cup {local}),
           MetaShape' /\ MetaKept, node' \in NodeType, poll' \in PollType, OnePath'
    PROVE  SInv' /\ (Keeping => Keeping')
<1>0. CopyShape /\ MetaShape /\ NodeShape /\ DlShape /\ UlShape /\ OnePath /\ Versioning /\ FileShape
  BY Zenon DEF SInv, FileShape
<1>1. CopyShape' BY Zenon, <1>0, KnownFacts, SameTypes DEF CopyShape
<1>2. NodeShape' BY Zenon, <1>0, SameTypes DEF NodeShape
<1>3. /\ DlShape' /\ dl'.pc = dl.pc /\ dl'.etag = dl.etag /\ dl'.data = dl.data
  BY Zenon, <1>0, TouchFacts, SameTypes
<1>4. UlShape' BY Zenon, <1>0, SameTypes DEF UlShape
<1>5. Versioning' BY Zenon, <1>0, <1>3, VersioningFrom DEF MetaKept
<1>6. ASSUME Keeping PROVE Keeping'
  <2>1. Safe(0)' /\ Safe(local)' BY Zenon DEF Safe
  <2>2. CASE keep' = 0 BY Zenon, <2>2 DEF Keeping, KeepSafe, Safe
  <2>3. CASE keep' = keep /\ trash' = trash \cup {local}
    <3>1. \A d : Safe(d) => Safe(d)' BY Zenon, <2>3 DEF Safe
    <3>2. KeepSafe' /\ (undo # 0 => keep = 0)' /\ Safe(srv.data)'
      BY Zenon, <1>6, <2>3 DEF KeepSafe, Keeping, Safe
    <3> QED BY Zenon, <1>0, <1>3, <1>6, <2>1, <3>1, <3>2, KeepingFrom DEF MetaKept
  <2> QED BY Zenon, <2>2, <2>3
<1> QED BY Zenon, <1>1, <1>2, <1>3, <1>4, <1>5, <1>6 DEF SInv, FileShape

LEMMA PruneInv ==
    ASSUME SInv, TypeOK, pollApply, pollGone
    PROVE  SInv' /\ (Keeping => Keeping')
<1>0. CopyShape /\ MetaShape /\ NodeShape /\ DlShape /\ UlShape /\ OnePath /\ Versioning /\ FileShape
  BY Zenon DEF SInv, FileShape
<1>1. UNCHANGED <<undo, srv, had, written, ul, receipt, boot, keep>> /\ poll' = NoPoll
  BY Zenon DEF pollApply, pollerKeeps
<1>2. poll' \in PollType BY Zenon, <1>0, <1>1, EmptyRecords
<1>3. MetaShape' /\ MetaKept /\ node' \in NodeType /\ OnePath'
  <2>1. CASE UNCHANGED <<inode, meta, node>> BY Zenon, <1>0, <1>1, <2>1, MetaSame, PathSame DEF NodeShape
  <2>2. CASE /\ node' = NoNode /\ inode' = [i \in Inodes |-> NoInode]
             /\ meta' = [i \in Inodes |-> NoMeta]
    <3>1. NoMeta \in MetaType /\ NoNode \in NodeType /\ \A m : SameContent(m, NoMeta)
      BY Zenon, <1>0, EmptyRecords
    <3>2. MetaShape' /\ MetaKept BY Zenon, <1>1, <2>2, <3>1, SameTypes DEF MetaShape, MetaKept
    <3>3. NoInode.status = "absent" BY DEF NoInode
    <3>4. OnePath' BY Zenon, <2>2, <3>3 DEF OnePath, Present
    <3> QED BY Zenon, <2>2, <3>1, <3>2, <3>4
  <2> QED BY Zenon, <2>1, <2>2 DEF pollGone
<1>4. CASE local' = 0 /\ trash' = trash \cup {local} /\ Touch BY Zenon, <1>1, <1>2, <1>3, <1>4, TrashInv
<1>5. CASE UNCHANGED <<local, trash, dl>>
  <2>1. FileKept BY Zenon, <1>1, <1>5 DEF FileKept
  <2>2. DlShape' /\ DlKept /\ UlShape' /\ UlKept /\ ReceiptKept BY Zenon, <1>0, <1>1, <1>5, DlSame, UlSame
  <2>3. NodeShape' BY Zenon, <1>0, <1>1, <1>2, <1>3, SameTypes DEF NodeShape
  <2>4. CalmStep BY Zenon, <1>0, <1>3, <2>1, <2>2, <2>3, CalmParts
  <2> QED BY Zenon, <1>0, <2>4, CalmInv, CalmKeeping
<1> QED BY Zenon, <1>4, <1>5 DEF pollGone, RemoveLocal

LEMMA ResolveRemoteInv ==
    ASSUME SInv, TypeOK, NEW both \in BOOLEAN, resolveRemote(both)
    PROVE  SInv' /\ (Keeping => Keeping')
<1>0. CopyShape /\ MetaShape /\ NodeShape /\ OnePath /\ FileShape BY Zenon DEF SInv, FileShape
<1>1. /\ UNCHANGED <<undo, srv, had, written, ul, receipt, boot, poll>> /\ local' = 0 /\ Touch
      /\ keep' = 0 \/ (keep' = keep /\ trash' = trash \cup {local})
  BY Zenon DEF resolveRemote, resolveKeeps
<1>2. PICK i \in Present :
        /\ SetInode(i, "synced", FALSE)
        /\ meta' = [meta EXCEPT ![i] = Invalidated([@ EXCEPT !.etag = NoEtag])]
        /\ node' = IF node.id = i THEN [node EXCEPT !.conf = FALSE, !.dirty = FALSE, !.cached = FALSE]
                   ELSE node
  BY Zenon DEF resolveRemote
<1>3. i \in Inodes BY Zenon DEF Present
<1>4. OnePath' BY Zenon, <1>0, <1>2, <1>3, SetInodePath
<1>5. MetaShape' /\ MetaKept
  <2> DEFINE m == Invalidated([meta[i] EXCEPT !.etag = NoEtag])
  <2>1. meta[i] \in MetaType /\ NoEtag \in Versioned BY Zenon, <1>0, <1>3 DEF MetaShape, Versioned
  <2>2. [meta[i] EXCEPT !.etag = NoEtag] \in MetaType /\ SameContent(meta[i], [meta[i] EXCEPT !.etag = NoEtag])
    BY Zenon, <1>0, <2>1, MetaEdits
  <2>3. m \in MetaType /\ SameContent(meta[i], m) BY Zenon, <1>0, <2>2, MetaEdits, Trans
  <2>4. meta' = [meta EXCEPT ![i] = m] BY Zenon, <1>2
  <2> QED BY Zenon, <1>0, <1>1, <2>3, <2>4, MetaAt
<1>6. node' \in NodeType BY Zenon, <1>0, <1>2, NodeEdits DEF NodeShape
<1>7. poll' \in PollType BY Zenon, <1>0, <1>1 DEF NodeShape
<1> QED BY Zenon, <1>1, <1>4, <1>5, <1>6, <1>7, TrashInv

\* A baseline, and the columns of a download.
LEMMA BaselineEdit ==
    ASSUME CopyShape, NEW m \in MetaType, NEW d \in Known, NEW e \in Versioned
    PROVE  /\ LocalContent(m, d, e) \in MetaType
           /\ LocalContent(m, d, e).base = d /\ LocalContent(m, d, e).ver = e
<1>1. \A f \in Known, g \in Versioned :
         /\ LocalContent(m, f, g) \in MetaType
         /\ LocalContent(m, f, g).base = f /\ LocalContent(m, f, g).ver = g
  BY Zenon, MetaEdits
<1> QED BY Zenon, <1>1

LEMMA DlEdits ==
    ASSUME NEW v \in DlType
    PROVE  /\ \A p \in {"fetch", "fetched", "rename", "commit"} :
                 /\ [v EXCEPT !.pc = p] \in DlType /\ [v EXCEPT !.pc = p].pc = p
                 /\ [v EXCEPT !.pc = p].id = v.id /\ [v EXCEPT !.pc = p].data = v.data
                 /\ [v EXCEPT !.pc = p].etag = v.etag /\ [v EXCEPT !.pc = p].touched = v.touched
           /\ \A e \in Versioned : /\ [v EXCEPT !.etag = e] \in DlType
                                   /\ [v EXCEPT !.etag = e].pc = v.pc /\ [v EXCEPT !.etag = e].id = v.id
           /\ \A d \in Known : /\ [v EXCEPT !.data = d] \in DlType
                               /\ [v EXCEPT !.data = d].pc = v.pc /\ [v EXCEPT !.data = d].id = v.id
                               /\ [v EXCEPT !.data = d].data = d
                               /\ [v EXCEPT !.data = d].touched = v.touched
           /\ \A b \in BOOLEAN : /\ [v EXCEPT !.touched = b] \in DlType
                                 /\ [v EXCEPT !.touched = b].pc = v.pc /\ [v EXCEPT !.touched = b].id = v.id
<1>1. \A p \in {"fetch", "fetched", "rename", "commit"} :
         /\ [v EXCEPT !.pc = p] \in DlType /\ [v EXCEPT !.pc = p].pc = p
         /\ [v EXCEPT !.pc = p].id = v.id /\ [v EXCEPT !.pc = p].data = v.data
         /\ [v EXCEPT !.pc = p].etag = v.etag
  BY DEF DlType
<1>2. \A p \in {"fetch", "fetched", "rename", "commit"} : [v EXCEPT !.pc = p].touched = v.touched
  BY DEF DlType
<1>3. \A e \in Versioned : /\ [v EXCEPT !.etag = e] \in DlType
                           /\ [v EXCEPT !.etag = e].pc = v.pc /\ [v EXCEPT !.etag = e].id = v.id
  BY DEF DlType
<1>4. \A d \in Known : /\ [v EXCEPT !.data = d] \in DlType
                       /\ [v EXCEPT !.data = d].pc = v.pc /\ [v EXCEPT !.data = d].id = v.id
                       /\ [v EXCEPT !.data = d].data = d
  BY DEF DlType
<1>5. \A d \in Known : [v EXCEPT !.data = d].touched = v.touched BY DEF DlType
<1>6. \A b \in BOOLEAN : /\ [v EXCEPT !.touched = b] \in DlType
                         /\ [v EXCEPT !.touched = b].pc = v.pc /\ [v EXCEPT !.touched = b].id = v.id
  BY DEF DlType
<1> QED BY Zenon, <1>1, <1>2, <1>3, <1>4, <1>5, <1>6

\* The downloader's own steps, from its first look at the file to the rename over it.
LEMMA DownloadInv ==
    ASSUME SInv, downloadFile \/ fetch \/ validateDownloadPublication \/ publish, dl' # NoDl
    PROVE  SInv' /\ (Keeping => Keeping')
<1>0. CopyShape /\ MetaShape /\ NodeShape /\ DlShape /\ UlShape /\ OnePath /\ Versioning /\ FileShape
  BY Zenon DEF SInv, FileShape
<1>1. /\ UNCHANGED <<inode, meta, node, receipt, boot, undo, srv, had, written, ul, poll, keep, trash>>
      /\ publish \/ UNCHANGED local
  BY Zenon DEF downloadFile, fetch, validateDownloadPublication, publish, dlKeeps
<1>2. dl.id \in Inodes /\ dl.data \in Known /\ srv.data \in Known /\ dl.etag \in Versioned /\ node.etag \in Versioned
  <2>1. dl.id \in Inodes
    BY Zenon, <1>0 DEF downloadFile, fetch, validateDownloadPublication, publish, DlShape
  <2> QED BY <1>0, <2>1 DEF DlShape, DlType, CopyShape, NodeShape, NodeType
<1>3. MetaShape' /\ NodeShape' /\ UlShape' /\ OnePath'
  BY Zenon, <1>0, <1>1, MetaSame, NodeSame, UlSame, PathSame
<1>4. CopyShape' BY Zenon, <1>0, <1>1, <1>2, SameTypes DEF CopyShape, publish
<1>5. \A i \in Inodes : SameContent(meta[i], meta'[i]) BY Zenon, <1>1 DEF SameContent
<1>6. ASSUME dl' \in DlType, dl'.id = dl.id,
             dl'.pc \in Arrived => \/ dl.pc \in Arrived /\ dl'.etag = dl.etag /\ dl'.data = dl.data
                                   \/ Binds(dl.etag, dl.data)'
      PROVE  SInv'
  <2>1. DlShape' BY Zenon, <1>1, <1>2, <1>6, SameTypes DEF DlShape
  <2>2. Versioning' BY Zenon, <1>0, <1>1, <1>5, <1>6, VersioningFrom
  <2> QED BY Zenon, <1>3, <1>4, <2>1, <2>2 DEF SInv, FileShape
<1>7. \A d : Safe(d) => Safe(d)' BY Zenon, <1>1 DEF Safe
<1>8. ASSUME Keeping, KeepSafe',
             dl'.pc \in Arrived => \/ dl.pc \in Arrived /\ dl'.data = dl.data
                                   \/ Safe(dl.data)',
             ((dl.pc \in {"fetch", "fetched"} /\ ~dl.touched) \/ dl.pc = "rename" => Safe(local))'
      PROVE  Keeping'
  <2>1. Safe(0)' BY Zenon DEF Safe
  <2>2. (undo # 0 => keep = 0)' /\ Safe(srv.data)' BY Zenon, <1>1, <1>8 DEF Keeping, Safe
  <2> QED BY Zenon, <1>0, <1>1, <1>5, <1>7, <1>8, <2>1, <2>2, KeepingFrom
<1>9. ASSUME Keeping, UNCHANGED local PROVE KeepSafe' BY Zenon, <1>1, <1>9 DEF KeepSafe, Keeping
<1>10. CASE downloadFile
  <2>1. /\ local = 0 \/ local = localBaseline(dl.id)
        /\ dl' = [dl EXCEPT !.pc = "fetch", !.touched = FALSE,
                            !.etag = IF node.id = dl.id THEN node.etag ELSE @]
    BY Zenon, <1>10 DEF downloadFile
  <2> DEFINE e == IF node.id = dl.id THEN node.etag ELSE dl.etag
  <2>2. e \in Versioned /\ dl' = [dl EXCEPT !.pc = "fetch", !.touched = FALSE, !.etag = e]
    BY Zenon, <1>2, <2>1
  <2> HIDE DEF e
  <2>3. dl' \in DlType /\ dl'.pc = "fetch" /\ dl'.id = dl.id
    <3> DEFINE n == [dl EXCEPT !.pc = "fetch"]
               k == [n EXCEPT !.touched = FALSE]
    <3>1. dl' = [k EXCEPT !.etag = e] BY Zenon, <2>2
    <3>2. n \in DlType /\ n.pc = "fetch" /\ n.id = dl.id BY Zenon, <1>0, DlEdits DEF DlShape
    <3> HIDE DEF n
    <3>3. k \in DlType /\ k.pc = "fetch" /\ k.id = dl.id BY Zenon, <3>2, DlEdits
    <3> HIDE DEF k
    <3>4. [k EXCEPT !.etag = e] \in DlType /\ [k EXCEPT !.etag = e].pc = k.pc /\ [k EXCEPT !.etag = e].id = k.id
      <4>1. e \in Versioned BY Zenon, <2>2
      <4> QED BY Zenon, <3>3, <4>1, DlEdits
    <3> QED BY Zenon, <3>1, <3>3, <3>4
  <2>4. dl'.pc \notin Arrived BY Zenon, <2>3 DEF Arrived
  <2>5. SInv' BY Zenon, <1>6, <2>3, <2>4
  <2>6. ASSUME Keeping PROVE Keeping'
    <3>1. Safe(local) BY Zenon, <1>2, <2>1, <2>6 DEF localBaseline, Keeping, Safe
    <3>2. UNCHANGED local BY Zenon, <1>10 DEF downloadFile
    <3>3. Safe(local)' BY Zenon, <1>1, <3>1, <3>2 DEF Safe
    <3> QED BY Zenon, <1>8, <1>9, <2>4, <2>6, <3>2, <3>3
  <2> QED BY Zenon, <2>5, <2>6
<1>11. CASE fetch
  <2>1. dl.pc = "fetch" /\ dl' = [dl EXCEPT !.pc = "fetched", !.data = srv.data] /\ UNCHANGED local
    BY Zenon, <1>11 DEF fetch
  <2>2. /\ dl' \in DlType /\ dl'.pc = "fetched" /\ dl'.id = dl.id /\ dl'.data = srv.data
        /\ dl'.touched = dl.touched
    <3> DEFINE n == [dl EXCEPT !.pc = "fetched"]
    <3>1. dl' = [n EXCEPT !.data = srv.data] BY Zenon, <2>1
    <3>2. n \in DlType /\ n.pc = "fetched" /\ n.id = dl.id /\ n.touched = dl.touched
      BY Zenon, <1>0, DlEdits DEF DlShape
    <3> HIDE DEF n
    <3> QED BY ZenonT(30), <1>2, <3>1, <3>2, DlEdits
  <2>3. Binds(dl.etag, dl.data)' BY Zenon, <1>1, <2>2 DEF Binds
  <2>4. SInv' BY Zenon, <1>6, <2>2, <2>3
  <2>5. ASSUME Keeping PROVE Keeping'
    <3>1. Safe(dl.data)' BY Zenon, <1>1, <2>2, <2>5 DEF Keeping, Safe
    <3>2. ~dl.touched => Safe(local) BY Zenon, <2>1, <2>5 DEF Keeping
    <3>3. ((dl.pc \in {"fetch", "fetched"} /\ ~dl.touched) \/ dl.pc = "rename" => Safe(local))'
      BY Zenon, <1>1, <2>1, <2>2, <3>2 DEF Safe
    <3> QED BY Zenon, <1>8, <1>9, <2>1, <2>5, <3>1, <3>3
  <2> QED BY Zenon, <2>4, <2>5
<1>12. CASE validateDownloadPublication
  <2>1. dl.pc = "fetched" /\ ~dl.touched /\ dl' = [dl EXCEPT !.pc = "rename"] /\ UNCHANGED local
    BY Zenon, <1>12 DEF validateDownloadPublication
  <2>2. dl' \in DlType /\ dl'.pc = "rename" /\ dl'.id = dl.id /\ dl'.data = dl.data /\ dl'.etag = dl.etag
    BY Zenon, <1>0, <2>1, DlEdits DEF DlShape
  <2>3. dl.pc \in Arrived BY Zenon, <2>1 DEF Arrived
  <2>4. SInv' BY Zenon, <1>6, <2>2, <2>3
  <2>5. ASSUME Keeping PROVE Keeping'
    <3>1. Safe(local) BY Zenon, <2>1, <2>5 DEF Keeping
    <3>2. Safe(local)' BY Zenon, <1>1, <2>1, <3>1 DEF Safe
    <3> QED BY Zenon, <1>8, <1>9, <2>1, <2>2, <2>3, <2>5, <3>2
  <2> QED BY Zenon, <2>4, <2>5
<1>13. CASE publish
  <2>1. dl.pc = "rename" /\ dl' = [dl EXCEPT !.pc = "commit"] /\ local' = dl.data BY Zenon, <1>13 DEF publish
  <2>2. dl' \in DlType /\ dl'.pc = "commit" /\ dl'.id = dl.id /\ dl'.data = dl.data /\ dl'.etag = dl.etag
    BY Zenon, <1>0, <2>1, DlEdits DEF DlShape
  <2>3. dl.pc \in Arrived BY Zenon, <2>1 DEF Arrived
  <2>4. SInv' BY Zenon, <1>6, <2>2, <2>3
  <2>5. ASSUME Keeping PROVE Keeping'
    <3>1. Safe(local) /\ KeepSafe BY Zenon, <2>1, <2>5 DEF Keeping
    <3>2. KeepSafe' BY Zenon, <1>1, <3>1 DEF KeepSafe, Safe
    <3>3. ~((dl.pc \in {"fetch", "fetched"} /\ ~dl.touched) \/ dl.pc = "rename")' BY Zenon, <2>2
    <3> QED BY Zenon, <1>8, <2>2, <2>3, <2>5, <3>2, <3>3
  <2> QED BY Zenon, <2>4, <2>5
<1> QED BY Zenon, <1>10, <1>11, <1>12, <1>13

LEMMA CommitInv ==
    ASSUME SInv, TypeOK, commitDownload
    PROVE  SInv' /\ (Keeping => Keeping')
<1>0. CopyShape /\ MetaShape /\ NodeShape /\ DlShape /\ UlShape /\ OnePath /\ Versioning /\ FileShape
  BY Zenon DEF SInv, FileShape
<1>1. /\ UNCHANGED <<receipt, local, boot, undo, srv, had, written, ul, poll, keep, trash>>
      /\ dl.pc = "commit" /\ dl' = NoDl /\ SetInode(dl.id, "synced", inode[dl.id].dirty)
  BY Zenon DEF commitDownload, dlKeeps
<1>2. dl.id \in Inodes BY Zenon, <1>0, <1>1 DEF DlShape
<1>3. dl.data \in Known /\ dl.etag \in Versioned BY <1>0 DEF DlShape, DlType
<1>4. CopyShape' BY Zenon, <1>0, <1>1, SameTypes DEF CopyShape
<1>5. UlShape' BY Zenon, <1>0, <1>1, UlSame
<1>6. OnePath' BY Zenon, <1>0, <1>1, <1>2, SetInodePath
<1>7. NoDl \in DlType /\ NoDl.pc = "idle"
  <2>1. NoDl.pc = "idle" BY DEF NoDl
  <2> QED BY Zenon, <1>0, <2>1, EmptyRecords
<1>8. DlShape' BY Zenon, <1>1, <1>7, SameTypes DEF DlShape
<1>9. NodeShape'
  <2> DEFINE b == ~(node.id = dl.id /\ node.etag # dl.etag)
  <2>1. b \in BOOLEAN OBVIOUS
  <2>2. node' = IF node.id = dl.id THEN [node EXCEPT !.cached = b] ELSE node BY Zenon DEF commitDownload
  <2> HIDE DEF b
  <2>3. node' \in NodeType BY Zenon, <1>0, <2>1, <2>2, NodeEdits DEF NodeShape
  <2> QED BY Zenon, <1>0, <1>1, <2>3, SameTypes DEF NodeShape
<1> DEFINE p == [meta[dl.id] EXCEPT !.hash = 0, !.latch = FALSE]
           m == LocalContent(p, dl.data, dl.etag)
<1>10. p \in MetaType
  <2>1. meta[dl.id] \in MetaType /\ 0 \in Known BY Zenon, <1>0, <1>2, KnownFacts DEF MetaShape
  <2>2. \A q \in MetaType : \A b \in BOOLEAN : [q EXCEPT !.latch = b] \in MetaType BY DEF MetaType
  <2>3. [meta[dl.id] EXCEPT !.hash = 0] \in MetaType BY Zenon, <1>0, <2>1, MetaEdits
  <2>4. p = [[meta[dl.id] EXCEPT !.hash = 0] EXCEPT !.latch = FALSE] BY Zenon
  <2> QED BY Zenon, <2>2, <2>3, <2>4
<1>11. PICK r \in {m, Invalidated(m)} : SetMeta(dl.id, r) BY Zenon DEF commitDownload
<1>12. m \in MetaType /\ m.base = dl.data /\ m.ver = dl.etag
  <2>1. dl.data \in Known /\ dl.etag \in Versioned BY Zenon, <1>3
  <2> HIDE DEF p
  <2>2. CopyShape BY Zenon, <1>0
  <2> QED BY SMTT(30), <1>10, <2>1, <2>2, BaselineEdit
<1>13. Invalidated(m) \in MetaType /\ Invalidated(m).base = m.base /\ Invalidated(m).ver = m.ver
  <2> HIDE DEF m
  <2>1. Invalidated(m) \in MetaType BY Zenon, <1>0, <1>12, MetaEdits
  <2>2. Invalidated(m).base = m.base /\ Invalidated(m).ver = m.ver BY <1>12 DEF MetaType, Invalidated
  <2> QED BY Zenon, <2>1, <2>2
<1> HIDE DEF m, p
<1>14. r \in MetaType /\ r.base = dl.data /\ r.ver = dl.etag BY Zenon, <1>11, <1>12, <1>13
<1>15. dl.pc \in Arrived BY Zenon, <1>1 DEF Arrived
<1>16. Binds(r.ver, r.base) BY Zenon, <1>0, <1>14, <1>15 DEF Versioning, Binds
<1>17. Keeping => Safe(r.base) BY Zenon, <1>14, <1>15 DEF Keeping
<1>18. /\ MetaShape'
       /\ \A j \in Inodes : SameContent(meta[j], meta'[j]) \/ Binds(meta[j].ver, meta[j].base)'
       /\ Keeping => \A j \in Inodes : SameContent(meta[j], meta'[j]) \/ Safe(meta[j].base)'
  BY Zenon, <1>0, <1>1, <1>2, <1>11, <1>14, <1>16, <1>17, BaselineRow
<1>19. dl'.pc \notin Arrived /\ dl'.pc \notin {"fetch", "fetched", "rename"} BY Zenon, <1>1, <1>7 DEF Arrived
<1>20. Versioning' BY Zenon, <1>0, <1>1, <1>18, <1>19, VersioningFrom
<1>21. ASSUME Keeping PROVE Keeping'
  <2>1. \A d : Safe(d) => Safe(d)' BY Zenon, <1>1 DEF Safe
  <2>2. Safe(0)' BY Zenon DEF Safe
  <2>3. KeepSafe' /\ (undo # 0 => keep = 0)' /\ Safe(srv.data)' BY Zenon, <1>1, <1>21 DEF KeepSafe, Keeping, Safe
  <2>4. ((dl.pc \in {"fetch", "fetched"} /\ ~dl.touched) \/ dl.pc = "rename" => Safe(local))' BY Zenon, <1>19
  <2> QED BY Zenon, <1>0, <1>1, <1>18, <1>19, <1>21, <2>1, <2>2, <2>3, <2>4, KeepingFrom
<1> QED BY Zenon, <1>4, <1>5, <1>6, <1>8, <1>9, <1>18, <1>20, <1>21 DEF SInv, FileShape

-----------------------------------------------------------------------------
(* The invariant.                                                          *)

LEMMA SInitInv ==
    ASSUME SInit
    PROVE  SInv /\ IInv /\ Sends /\ Keeping
<1>1. IInv BY Zenon, InitInv DEF SInit
<1>2. PICK mine \in BOOLEAN, theirs \in BOOLEAN :
        /\ local = (IF mine THEN 1 ELSE 0) /\ keep = local
        /\ written = local + (IF theirs THEN 1 ELSE 0)
        /\ srv = IF theirs THEN [data |-> written, etag |-> <<written, 1>>] ELSE NoCopy
  BY Zenon DEF SInit
<1>3. 1 \in Versions BY WorkersFinite, FilesAssumption, FS_CardinalityType DEF Versions
<1>4. /\ local \in {0, 1} /\ keep = local /\ written \in {local, local + 1}
      /\ srv.data = 0 \/ (srv.data = written /\ written = local + 1)
      /\ srv \in [data : Known, etag : Versioned]
  <2>1. CASE theirs
    <3>1. local \in {0, 1} /\ keep = local /\ written = local + 1 BY <1>2, <2>1
    <3>2. srv = [data |-> written, etag |-> <<written, 1>>] BY Zenon, <1>2, <2>1
    <3>3. written \in Data /\ written \in Known BY <3>1, FilesAssumption DEF Data, Known
    <3>4. <<written, 1>> \in Versioned BY Zenon, <1>3, <3>3 DEF Versioned, Etags
    <3>5. srv.data = written /\ srv \in [data : Known, etag : Versioned] BY Zenon, <3>2, <3>3, <3>4
    <3> QED BY Zenon, <3>1, <3>5
  <2>2. CASE ~theirs
    <3>1. local \in {0, 1} /\ keep = local /\ written = local BY <1>2, <2>2
    <3>2. srv = NoCopy BY Zenon, <1>2, <2>2
    <3>3. 0 \in Known /\ NoEtag \in Versioned BY <3>1 DEF Known, Versioned
    <3>4. srv.data = 0 /\ srv \in [data : Known, etag : Versioned] BY <3>2, <3>3 DEF NoCopy
    <3> QED BY Zenon, <3>1, <3>4
  <2> QED BY Zenon, <2>1, <2>2
<1>5. undo = 0 BY Zenon DEF SInit
<1>6. CopyShape BY <1>4, <1>5, FilesAssumption DEF CopyShape, Known
<1>7. /\ meta = [i \in Inodes |-> NoMeta] /\ node = NoNode /\ dl = NoDl /\ poll = NoPoll
      /\ ul = [w \in Workers |-> NoUl] /\ receipt = [r \in RowIds |-> 0] /\ boot = "list"
      /\ trash = {} /\ had = {} /\ inode = [i \in Inodes |-> NoInode]
      /\ worker = [w \in Workers |-> Idle]
  BY Zenon DEF SInit, Init
<1>8. /\ NoMeta.base = 0 /\ NoMeta.ver = NoEtag /\ NoDl.pc = "idle" /\ ~NoUl.answered
      /\ NoUl.etag = NoEtag /\ NoUl.data = 0 /\ NoInode.status = "absent" /\ Idle.cur = {}
  BY DEF NoMeta, NoDl, NoUl, NoInode, Idle
<1>9. FileShape
  BY Zenon, <1>6, <1>7, <1>8, EmptyRecords, KnownFacts DEF FileShape, MetaShape, NodeShape, DlShape, UlShape
<1>10. OnePath BY Zenon, <1>7, <1>8 DEF OnePath, Present
<1>11. Versioning
  <2>1. dl.pc \notin Arrived BY Zenon, <1>7, <1>8 DEF Arrived
  <2> QED BY Zenon, <1>7, <1>8, <2>1 DEF Versioning, Binds
<1>12. Sends BY Zenon, <1>7, <1>8 DEF Sends
<1>13. Keeping
  <2>1. Safe(0) /\ \A i \in Inodes : meta[i].base = 0 BY Zenon, <1>7, <1>8 DEF Safe
  <2>2. srv.data # keep \/ srv.data = 0 BY <1>4
  <2>3. Safe(srv.data) BY Zenon, <2>2 DEF Safe
  <2>4. KeepSafe BY Zenon, <1>4 DEF KeepSafe
  <2>5. dl.pc \notin Arrived /\ dl.pc \notin {"fetch", "fetched", "rename"} BY Zenon, <1>7, <1>8 DEF Arrived
  <2> QED BY Zenon, <1>5, <1>7, <1>8, <2>1, <2>3, <2>4, <2>5 DEF Keeping
<1> QED BY Zenon, <1>1, <1>9, <1>10, <1>11, <1>12, <1>13 DEF SInv

LEMMA StutterCalm ==
    ASSUME FileShape, OnePath, UNCHANGED svars
    PROVE  CalmStep
<1>1. /\ FileKept
      /\ UNCHANGED <<inode, meta, node, dl, poll, boot, written, ul, receipt>>
  BY Zenon DEF svars, FileKept
<1> QED BY Zenon, <1>1, MetaSame, NodeSame, DlSame, UlSame, PathSame, CalmParts DEF FileShape

LEMMA SNextInv ==
    ASSUME SInv, IInv, Sends, [SNext]_svars
    PROVE  SInv' /\ (Keeping /\ (dl.pc = "rename" => ~UserWrite) => Keeping')
<1>0. FileShape /\ OnePath /\ Versioning /\ TypeOK BY Zenon DEF SInv, IInv
<1>1. ASSUME CalmStep PROVE SInv' /\ (Keeping => Keeping') BY Zenon, <1>0, <1>1, CalmInv, CalmKeeping
<1>2. CASE UNCHANGED svars BY Zenon, <1>0, <1>1, <1>2, StutterCalm
<1>3. CASE User BY Zenon, <1>3, UserInv
<1>4. CASE Elsewhere BY Zenon, <1>4, ElsewhereInv
<1>5. CASE Resolve
  <2>1. CASE resolveLocal BY Zenon, <1>0, <1>1, <2>1, ResolveLocalCalm
  <2>2. CASE \E both \in BOOLEAN : resolveRemote(both) BY Zenon, <1>0, <2>2, ResolveRemoteInv
  <2> QED BY Zenon, <1>5, <2>1, <2>2 DEF Resolve
<1>6. CASE Watcher BY Zenon, <1>0, <1>1, <1>6, WatcherCalm
<1>7. CASE Poller
  <2>1. CASE pollList \/ (pollApply /\ (pollExisting \/ pollNew)) BY Zenon, <1>0, <1>1, <2>1, PollCalm
  <2>2. CASE pollApply /\ pollGone BY Zenon, <1>0, <2>2, PruneInv
  <2> QED BY Zenon, <1>7, <2>1, <2>2 DEF Poller, pollApply
<1>8. CASE Downloader \/ fetchError
  <2>1. CASE walkForDownloads BY Zenon, <1>0, <1>1, <2>1, WalkCalm
  <2>2. CASE (downloadFile \/ fetchError \/ validateDownloadPublication) /\ dl' = NoDl
    BY Zenon, <1>0, <1>1, <2>2, DropCalm
  <2>3. CASE fetchError /\ dl' # NoDl BY Zenon, <2>3 DEF fetchError
  <2>4. CASE (downloadFile \/ fetch \/ validateDownloadPublication \/ publish) /\ dl' # NoDl
    BY Zenon, <2>4, DownloadInv
  <2>5. CASE (fetch \/ publish) /\ dl' = NoDl
    <3>1. dl \in DlType /\ srv.data \in Known BY <1>0 DEF FileShape, DlShape, CopyShape
    <3>4. \A d : [dl EXCEPT !.pc = "fetched", !.data = d].pc = "fetched" BY <3>1 DEF DlType
    <3>5. [dl EXCEPT !.pc = "commit"].pc = "commit" BY <3>1 DEF DlType
    <3>2. dl'.pc \in {"fetched", "commit"} BY Zenon, <2>5, <3>4, <3>5 DEF fetch, publish
    <3>3. NoDl.pc = "idle" BY DEF NoDl
    <3> QED BY Zenon, <2>5, <3>2, <3>3
  <2>6. CASE commitDownload BY Zenon, <1>0, <2>6, CommitInv
  <2> QED BY Zenon, <1>8, <2>1, <2>2, <2>3, <2>4, <2>5, <2>6 DEF Downloader
<1>9. CASE healEntry BY Zenon, <1>0, <1>1, <1>9, HealCalm
<1>10. CASE InitialSync \/ populateFails BY Zenon, <1>0, <1>1, <1>10, BootCalm
<1>11. CASE restart BY Zenon, <1>0, <1>1, <1>11, RestartCalm
<1>12. ASSUME NEW w \in Workers, Writes(w) \/ startFlush(w) \/ transferError(w)
       PROVE  SInv' /\ (Keeping => Keeping')
  <2>1. CASE startEntry(w) \/ batchStep(w) \/ startFlush(w) BY Zenon, <1>0, <1>1, <2>1, StartCalm
  <2>2. CASE settleUpload(w) \/ settleDelete(w) \/ transferError(w) BY Zenon, <1>0, <1>1, <2>2, SettleCalm
  <2>3. CASE Answer(w) BY Zenon, <1>0, <2>3, AnswerInv
  <2>4. CASE recordUploaded(w) BY Zenon, <1>0, <2>4, RecordInv
  <2> QED BY Zenon, <1>12, <2>1, <2>2, <2>3, <2>4 DEF Writes
<1> QED BY Zenon, <1>2, <1>3, <1>4, <1>5, <1>6, <1>7, <1>8, <1>9, <1>10, <1>11, <1>12 DEF SNext, Fault

-----------------------------------------------------------------------------
(* The theorems.                                                           *)

\* The invariant of a file of a sync mount: the columns of its records have
\* their types, its path has one inode, every record of a version names the
\* content that version has, and the queue under it keeps its own invariant.
THEOREM SInvariant == SSpec => [](SInv /\ IInv /\ Sends)
<1>1. SInit => SInv /\ IInv /\ Sends BY Zenon, SInitInv
<1>2. SInv /\ IInv /\ Sends /\ [SNext]_svars => (SInv /\ IInv /\ Sends)'
  <2> SUFFICES ASSUME SInv, IInv, Sends, [SNext]_svars PROVE (SInv /\ IInv /\ Sends)' BY Zenon
  <2>1. FileShape /\ OnePath /\ TypeOK BY Zenon DEF SInv, IInv
  <2>2. SInv' BY Zenon, SNextInv
  <2>3. IInv' BY Zenon, <2>1, SNextMaps, NextInv
  <2>4. Sends' BY Zenon, <2>1, SendsNext
  <2> QED BY Zenon, <2>2, <2>3, <2>4
<1> QED BY <1>1, <1>2, PTL DEF SSpec

\* Type correctness, and one inode for the path: remote_path is UNIQUE, and
\* every upsert by path finds the row that is there.
THEOREM SyncTypeCorrect == SSpec => []STypeOK
<1>1. SInv /\ IInv => STypeOK
  <2> SUFFICES ASSUME SInv, IInv PROVE STypeOK BY Zenon
  <2>0. CopyShape /\ MetaShape /\ NodeShape /\ DlShape /\ OnePath /\ TypeOK BY Zenon DEF SInv, FileShape, IInv
  <2>1. Cardinality(Present) <= 1
    <3>1. CASE Present = {} BY <3>1, FS_EmptySet
    <3>2. CASE Present # {}
      <4>1. PICK i \in Present : TRUE BY Zenon, <3>2
      <4>2. Present = {i} BY Zenon, <2>0, <4>1 DEF OnePath
      <4> QED BY <4>2, FS_Singleton
    <3> QED BY Zenon, <3>1, <3>2
  <2>2. Known \subseteq 0 .. MaxData BY Zenon, <2>0, KnownFacts
  <2>3. {local, undo, srv.data, keep, dl.data, poll.data} \subseteq Known
    <3>1. local \in Known /\ undo \in Known /\ keep \in Known /\ srv.data \in Known BY <2>0 DEF CopyShape
    <3>2. dl.data \in Known /\ poll.data \in Known BY <2>0 DEF DlShape, DlType, NodeShape, PollType
    <3> QED BY Zenon, <3>1, <3>2
  <2>4. \A i \in Inodes : meta[i].base \in Known /\ meta[i].etag \in Etags \cup {NoEtag}
    BY <2>0 DEF MetaShape, MetaType, Versioned
  <2>5. node.id \in Inodes \cup {0} /\ boot \in {"list", "walk", "scan", "run"}
    BY <2>0 DEF NodeShape, NodeType, Ids
  <2>6. dl.pc \in {"idle", "start", "fetch", "fetched", "rename", "commit"} BY <2>0 DEF DlShape, DlType
  <2> QED BY Zenon, <2>0, <2>1, <2>2, <2>3, <2>4, <2>5, <2>6 DEF STypeOK
<1> QED BY <1>1, SInvariant, PTL

\* The label of the baseline is true: while the server has the version that
\* local_remote_etag names, the baseline is that version's content.
THEOREM VersionsBind == SSpec => []VersionBinding
<1>1. SInv => VersionBinding BY Zenon DEF SInv, Versioning, Binds, VersionBinding, Present
<1> QED BY <1>1, SInvariant, PTL

\* Whatever the watcher, poller, downloader, reconciler, InitialSync, the user
\* and restarts do to the tables is something the queue's callers may do.
THEOREM SyncFileUsesQueue == SSpec => QueueRefined
<1>1. SInit => Init BY Zenon DEF SInit
<1>2. SInv /\ IInv /\ [SNext]_svars => [Next]_vars BY Zenon, SNextMaps DEF SInv
<1> QED BY <1>1, <1>2, SInvariant, PTL DEF SSpec, QueueRefined, Spec

\* No write of the user's falls between a download's last look at the file
\* (validateDownloadPublication) and its rename.
NoWriteInWindow == [][dl.pc = "rename" => ~UserWrite]_svars

\* The user's last edit stays on disk, in the trash or on the server: a
\* baseline is only ever a content the server had or the user has replaced, so
\* what downloadFile and validateDownloadPublication let a download replace is
\* no edit that is still owed to the server.
THEOREM EditsAreKept == SSpec /\ NoWriteInWindow => []KeepSafe
<1>1. SInit => Keeping BY Zenon, SInitInv
<1>2. SInv /\ IInv /\ Sends /\ Keeping /\ [SNext]_svars /\ [dl.pc = "rename" => ~UserWrite]_svars => Keeping'
  <2> SUFFICES ASSUME SInv, IInv, Sends, Keeping, [SNext]_svars, [dl.pc = "rename" => ~UserWrite]_svars
               PROVE  Keeping'
    BY Zenon
  <2>1. CASE UNCHANGED svars
    <3>1. FileShape /\ OnePath BY Zenon DEF SInv
    <3> QED BY Zenon, <2>1, <3>1, StutterCalm, CalmKeeping
  <2>2. CASE dl.pc = "rename" => ~UserWrite BY Zenon, <2>2, SNextInv
  <2> QED BY Zenon, <2>1, <2>2
<1>3. Keeping => KeepSafe BY Zenon DEF Keeping
<1> QED BY <1>1, <1>2, <1>3, SInvariant, PTL DEF SSpec, NoWriteInWindow
=============================================================================
