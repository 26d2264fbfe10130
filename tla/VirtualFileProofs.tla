------------------------- MODULE VirtualFileProofs -------------------------
(***************************************************************************)
(* What a file of a virtual mount keeps for any number of processes,        *)
(* flushers, rows and contents: its steps are steps of the queue, its open  *)
(* count is exact, and its last content is not lost.                        *)
(***************************************************************************)
EXTENDS VirtualFile, WritebackProofs

-----------------------------------------------------------------------------
(* The inductive invariant, beside the queue's.                            *)

NodeFields == {"id", "here", "opens", "cached", "hash", "data", "dirty", "status", "etag",
               "loading"}
ProcFields == {"pc", "buf", "alias", "hash", "old", "then"}
UlFields == {"data", "etag", "node", "wrote", "alias", "answered", "clean"}
Handle == {"loading", "fetched", "waiting", "woken", "open"}
Flushing == {"hash", "seal", "commit", "record"}

\* A node that is in the tree or in use has an inode id.
NodeShape ==
    /\ DOMAIN node = NodeFields
    /\ node.here \/ (\E p \in Procs : proc[p].pc # "none") => node.id \in Inodes
    /\ unl.pc # "idle" => unl.id \in Inodes

\* Only a Flush remembers whether its handle stays open.
ProcShape ==
    /\ DOMAIN proc = Procs
    /\ \A p \in Procs : /\ DOMAIN proc[p] = ProcFields
                        /\ proc[p].pc \in Handle \cup Flushing \cup {"none"}
                        /\ proc[p].then \in {"none", "open"}
                        /\ proc[p].pc \notin Flushing => proc[p].then = "none"

\* The path has one inode; a row that is absent is empty.
OnePath == /\ \A i, j \in Present : i = j
           /\ \A i \in Inodes \ Present : inode[i] = NoInode

UlShape == /\ DOMAIN receipt = RowIds /\ DOMAIN ul = Workers
           /\ \A w \in Workers : DOMAIN ul[w] = UlFields

\* An upload that was answered sent what the server took; one whose node was not
\* written to since it began sends the last content, unless the server has that.
Uploads ==
    /\ \A r \in RowIds : receipt[r] # 0 => receipt[r] \in had
    /\ \A w \in Workers :
           /\ ul[w].answered => ul[w].data \in had
           /\ worker[w].pc = "settle" => ul[w].answered
           /\ ul[w].node # 0 => ul[w].node = node.id
           /\ ul[w].node # 0 /\ ~ul[w].wrote => keep \in had \cup {0, ul[w].data}

\* A buffer is dirty until its content is with the server.
Buffer == node.data # 0 => node.dirty

VInv == /\ NodeShape /\ ProcShape /\ OnePath /\ UlShape /\ OpenCountExact
        /\ Uploads /\ Buffer /\ LastWriteKept

-----------------------------------------------------------------------------
(* Frames.                                                                 *)

LEMMA SetInodeKeeps ==
    ASSUME TypeOK, OnePath, NEW i \in Inodes, NEW s \in Statuses \ {"absent"}, NEW d,
           SetInode(i, s, d)
    PROVE  OnePath'
BY Zenon DEF SetInode, Present, TypeOK, OnePath

LEMMA HoldSame ==
    ASSUME OpenCountExact, \A q \in Procs : Holds(q)' <=> Holds(q), node'.opens = node.opens
    PROVE  OpenCountExact'
<1>1. {q \in Procs : Holds(q)}' = {q \in Procs : Holds(q)} BY Zenon
<1> QED BY Zenon, <1>1 DEF OpenCountExact

LEMMA HoldAdd ==
    ASSUME OpenCountExact, NEW p \in Procs, ~Holds(p), Holds(p)',
           \A q \in Procs : q # p => (Holds(q)' <=> Holds(q)), node'.opens = node.opens + 1
    PROVE  OpenCountExact'
<1> DEFINE H == {q \in Procs : Holds(q)}
<1>1. H' = H \cup {p} /\ p \notin H BY Zenon
<1>2. IsFiniteSet(H) BY Zenon, ProcsAssumption, FS_Subset
<1>3. Cardinality(H \cup {p}) = Cardinality(H) + 1 BY Zenon, <1>1, <1>2, FS_AddElement
<1> QED BY Zenon, <1>1, <1>3 DEF OpenCountExact

LEMMA HoldDrop ==
    ASSUME OpenCountExact, NEW p \in Procs, Holds(p), ~Holds(p)',
           \A q \in Procs : q # p => (Holds(q)' <=> Holds(q)), node'.opens = node.opens - 1
    PROVE  OpenCountExact'
<1> DEFINE H == {q \in Procs : Holds(q)}
<1>1. H' = H \ {p} /\ p \in H BY Zenon
<1>2. IsFiniteSet(H) BY Zenon, ProcsAssumption, FS_Subset
<1>3. Cardinality(H \ {p}) = Cardinality(H) - 1 BY Zenon, <1>1, <1>2, FS_RemoveElement
<1> QED BY Zenon, <1>1, <1>3 DEF OpenCountExact

\* A step that leaves the node's content and the uploads alone.
LEMMA ContentSame ==
    ASSUME UlShape, Uploads, Buffer, LastWriteKept, UNCHANGED <<keep, had, ul, receipt, worker>>,
           node'.id = node.id, node'.here = node.here, node'.data = node.data,
           node'.dirty = node.dirty
    PROVE  UlShape' /\ Uploads' /\ Buffer' /\ LastWriteKept'
BY Zenon DEF UlShape, Uploads, Buffer, LastWriteKept

LEMMA VInitInv == VInit => VInv
<1> SUFFICES ASSUME VInit PROVE VInv
  BY Zenon
<1>1. NodeShape BY Zenon DEF VInit, NodeShape, NoNode, NodeFields, NoProc, NoUnl
<1>2. ProcShape BY Zenon DEF VInit, ProcShape, NoProc, ProcFields, Flushing
<1>3. OnePath BY Zenon DEF VInit, Init, OnePath, Present, NoInode
<1>4. UlShape BY Zenon DEF VInit, UlShape, NoUl, UlFields
<1>5. OpenCountExact
  <2>1. {p \in Procs : Holds(p)} = {} BY Zenon DEF VInit, Holds, NoProc
  <2> QED BY Zenon, <2>1, FS_EmptySet DEF OpenCountExact, VInit, NoNode
<1>6. Uploads
  <2>1. \A w \in Workers : worker[w].pc = "idle" BY Zenon DEF VInit, Init, Idle
  <2> QED BY Zenon, <2>1 DEF VInit, Uploads, NoUl
<1>7. Buffer /\ LastWriteKept BY Zenon DEF VInit, Buffer, LastWriteKept, NoNode
<1> QED BY Zenon, <1>1, <1>2, <1>3, <1>4, <1>5, <1>6, <1>7 DEF VInv

-----------------------------------------------------------------------------
(* Every step is a step of the queue.                                      *)

LEMMA StatusMaps ==
    ASSUME NEW i \in Inodes, NEW s \in {"synced", "failed", "conflict"},
           SetInode(i, s, inode[i].dirty), UNCHANGED <<queue, worker>>
    PROVE  Next \/ UNCHANGED vars
<1>1. CASE inode[i].status = "absent" BY Zenon, <1>1 DEF SetInode, vars
<1>2. CASE inode[i].status # "absent"
  <2>1. SetSyncStatus(i) BY Zenon, <1>2 DEF SetSyncStatus, Statuses
  <2> QED BY Zenon, <2>1 DEF Next, Call
<1> QED BY Zenon, <1>1, <1>2

LEMMA ProcMaps ==
    ASSUME VInv, NEW p \in Procs, Opens(p) \/ Asks(p) \/ FlushHandle(p) \/ Runs(p) \/ downloadFails(p)
    PROVE  Next \/ UNCHANGED vars
<1>1. CASE \/ Open(p) \/ Write(p) \/ Release(p) \/ FlushHandle(p) \/ fetch(p) \/ wake(p)
           \/ hashBlob(p) \/ putSealed(p) \/ commitFlush(p)
  BY Zenon, <1>1 DEF Open, Write, Release, FlushHandle, fetch, wake, hashBlob, putSealed, commitFlush,
              openKeeps, writeKeeps, wbVars, vars
<1>2. CASE CreateFile(p)
  <2>1. PICK i \in PathIds : Create(i) BY Zenon, <1>2 DEF CreateFile
  <2>2. i \in Inodes BY Zenon DEF PathIds, FreshIds, Present
  <2> QED BY Zenon, <2>1, <2>2 DEF Next, Call
<1>3. CASE downloadAndCache(p) \/ downloadFails(p)
  <2>1. node.id \in Inodes /\ UNCHANGED <<queue, worker>>
    BY Zenon, <1>3 DEF downloadAndCache, downloadFails, VInv, NodeShape, openKeeps, wbVars
  <2>2. CASE UNCHANGED inode BY Zenon, <2>1, <2>2 DEF vars
  <2>3. CASE \E s \in {"synced", "failed"} : SetInode(node.id, s, inode[node.id].dirty)
    BY Zenon, <2>1, <2>3, StatusMaps
  <2> QED BY Zenon, <1>3, <2>2, <2>3 DEF downloadAndCache, downloadFails
<1>4. CASE recordFlush(p)
  <2>1. node.id \in Inodes /\ Flush(node.id) BY Zenon, <1>4 DEF recordFlush, VInv, NodeShape
  <2> QED BY Zenon, <2>1 DEF Next, Call
<1> QED BY Zenon, <1>1, <1>2, <1>3, <1>4 DEF Opens, Asks, Runs

LEMMA PollMaps == ASSUME VInv, IInv, pollApply PROVE Next \/ UNCHANGED vars
<1>1. UNCHANGED <<queue, worker>> BY Zenon DEF pollApply, pollKeeps, wbVars
<1>2. CASE pollExisting
  <2>1. node.id \in Inodes BY Zenon, <1>2 DEF pollExisting, VInv, NodeShape
  <2>2. CASE UNCHANGED inode BY Zenon, <1>1, <2>2 DEF vars
  <2>3. CASE SetInode(node.id, "conflict", inode[node.id].dirty) BY Zenon, <1>1, <2>1, <2>3, StatusMaps
  <2> QED BY Zenon, <1>2, <2>2, <2>3 DEF pollExisting
<1>3. CASE pollNew
  <2>1. PICK i \in PathIds : UpsertInode(i, "synced", FALSE) BY Zenon, <1>3 DEF pollNew
  <2>2. i \in Inodes BY Zenon DEF PathIds, FreshIds, Present
  <2>3. Listed(i) BY Zenon, <1>1, <2>1 DEF Listed
  <2> QED BY Zenon, <2>2, <2>3 DEF Next, Call
<1>4. CASE pollGone
  <2>1. CASE UNCHANGED inode BY Zenon, <1>1, <2>1 DEF vars
  <2>2. CASE inode' = [i \in Inodes |-> NoInode]
    <3>1. inode \in [Inodes -> Inode] BY Zenon DEF IInv, TypeOK
    <3>2. \A j \in Inodes \ Present : inode[j] = NoInode BY Zenon DEF VInv, OnePath
    <3>3. CASE Present = {}
      <4>1. inode' = inode BY Zenon, <2>2, <3>1, <3>2, <3>3
      <4> QED BY Zenon, <4>1, <1>1 DEF vars
    <3>4. CASE Present # {}
      <4>1. PICK i \in Present : TRUE BY Zenon, <3>4
      <4>2. i \in Inodes /\ inode[i].status # "absent" BY Zenon DEF Present
      <4>3. \A j \in Inodes : j # i => inode[j] = NoInode BY Zenon, <3>2 DEF VInv, OnePath
      <4>4. inode' = [inode EXCEPT ![i] = NoInode] BY Zenon, <2>2, <3>1, <4>2, <4>3
      <4>5. Prune(i) BY Zenon, <1>1, <4>2, <4>4 DEF Prune
      <4> QED BY Zenon, <4>2, <4>5 DEF Next, Call
    <3> QED BY Zenon, <3>3, <3>4
  <2> QED BY Zenon, <1>4, <2>1, <2>2 DEF pollGone
<1> QED BY Zenon, <1>2, <1>3, <1>4 DEF pollApply

LEMMA WritesMaps ==
    ASSUME NEW w \in Workers, Writes(w) \/ transferError(w) PROVE Next \/ UNCHANGED vars
<1>1. CASE startEntry(w) BY Zenon, <1>1 DEF startEntry, Next, Progress
<1>2. CASE Answer(w) \/ settleNode(w) BY Zenon, <1>2 DEF Answer, settleNode
<1>3. CASE recordUploaded(w) BY Zenon, <1>3 DEF recordUploaded, Next, Progress
<1>4. CASE settleRow(w)
  <2>1. Settle(w) \/ Resend(w, "upload") BY Zenon, <1>4 DEF settleRow
  <2> QED BY Zenon, <2>1 DEF Next, Progress, Kinds
<1>5. CASE transferError(w) BY Zenon, <1>5 DEF transferError, Next, Progress
<1>6. CASE batchStep(w) BY Zenon, <1>6 DEF batchStep, Next, Progress
<1> QED BY Zenon, <1>1, <1>2, <1>3, <1>4, <1>5, <1>6 DEF Writes

LEMMA VNextMaps == VInv /\ IInv /\ [VNext]_fvars => [Next]_vars
<1> SUFFICES ASSUME VInv, IInv, [VNext]_fvars PROVE Next \/ UNCHANGED vars
  BY Zenon
<1>1. CASE UNCHANGED fvars BY Zenon, <1>1 DEF fvars, vars
<1>2. CASE \E p \in Procs : \/ Opens(p) \/ Asks(p) \/ FlushHandle(p) \/ Runs(p)
                            \/ downloadFails(p)
  BY Zenon, <1>2, ProcMaps
<1>3. CASE Truncate \/ evict \/ pollList \/ RemoteChange \/ unlinkFails \/ unlinkRemote
  BY Zenon, <1>3 DEF Truncate, evict, pollList, RemoteChange, unlinkFails, unlinkRemote, vars, writeKeeps,
              evictKeeps, wbVars, pollKeeps, unlinkKeeps
<1>4. CASE unlinkLocal
  <2>1. unl.id \in Inodes /\ Unlink(unl.id) BY Zenon, <1>4 DEF unlinkLocal, VInv, NodeShape
  <2> QED BY Zenon, <2>1 DEF Next, Call
<1>5. CASE pollApply BY Zenon, <1>5, PollMaps
<1>6. CASE retryFailed
  <2>1. PICK i \in Present : ClearFailed(i) BY Zenon, <1>6 DEF retryFailed
  <2>2. i \in Inodes BY Zenon DEF Present
  <2> QED BY Zenon, <2>1, <2>2 DEF Next, Call
<1>7. CASE \E w \in Workers : Writes(w) \/ transferError(w) BY Zenon, <1>7, WritesMaps
<1> QED BY Zenon, <1>1, <1>2, <1>3, <1>4, <1>5, <1>6, <1>7 DEF VNext, Unlinks, Poller, Fault

-----------------------------------------------------------------------------
(* The steps of a process.                                                 *)

\* The proc record of p changes, the others' do not matter to a count.
LEMMA Upright ==
    ASSUME VInv, NEW p \in Procs, NEW x, proc' = [proc EXCEPT ![p] = x],
           DOMAIN x = ProcFields, x.pc \in Handle \cup Flushing \cup {"none"},
           x.then \in {"none", "open"}, x.pc \notin Flushing => x.then = "none"
    PROVE  ProcShape' /\ proc'[p] = x /\ \A q \in Procs : q # p => proc'[q] = proc[q]
<1>1. DOMAIN proc = Procs BY Zenon DEF VInv, ProcShape
<1>2. proc'[p] = x /\ \A q \in Procs : q # p => proc'[q] = proc[q] BY Zenon, <1>1
<1> QED BY Zenon, <1>1, <1>2 DEF VInv, ProcShape

\* A process goes on at pc, without a change to the file.
LEMMA Onwards ==
    ASSUME VInv, IInv, NEW p \in Procs, NEW x, proc' = [proc EXCEPT ![p] = x],
           DOMAIN x = ProcFields, x.pc \in Handle \cup Flushing \cup {"none"},
           x.then \in {"none", "open"}, x.pc \notin Flushing => x.then = "none",
           proc[p].pc # "none" \/ node.here,
           DOMAIN node' = NodeFields, node'.id = node.id, node'.here = node.here,
           node'.data = node.data, node'.dirty = node.dirty, OnePath',
           UNCHANGED <<keep, had, ul, receipt, worker, unl>>,
           \/ (Holds(p)' <=> Holds(p)) /\ node'.opens = node.opens
           \/ Holds(p)' /\ ~Holds(p) /\ node'.opens = node.opens + 1
           \/ ~Holds(p)' /\ Holds(p) /\ node'.opens = node.opens - 1
    PROVE  VInv'
<1>1. ProcShape' /\ proc'[p] = x /\ \A q \in Procs : q # p => proc'[q] = proc[q] BY Zenon, Upright
<1>2. \A q \in Procs : q # p => (Holds(q)' <=> Holds(q)) BY Zenon, <1>1 DEF Holds
<1>3. OpenCountExact' BY Zenon, <1>2, HoldSame, HoldAdd, HoldDrop DEF VInv
<1>4. UlShape' /\ Uploads' /\ Buffer' /\ LastWriteKept' BY Zenon, ContentSame DEF VInv
<1>5. NodeShape' BY Zenon, <1>1 DEF VInv, NodeShape
<1> QED BY Zenon, <1>1, <1>3, <1>4, <1>5 DEF VInv

LEMMA ProcFacts ==
    ASSUME VInv, NEW p \in Procs
    PROVE  /\ DOMAIN proc = Procs /\ DOMAIN proc[p] = ProcFields /\ DOMAIN node = NodeFields
           /\ proc[p].pc \in Handle \cup Flushing \cup {"none"}
           /\ proc[p].then \in {"none", "open"}
           /\ proc[p].pc \notin Flushing => proc[p].then = "none"
BY Zenon DEF VInv, ProcShape, NodeShape

LEMMA NoProcShape ==
    DOMAIN NoProc = ProcFields /\ NoProc.pc = "none" /\ NoProc.then = "none"
BY Zenon DEF NoProc, ProcFields

LEMMA OpenInv == ASSUME VInv, IInv, NEW p \in Procs, Open(p) PROVE VInv'
<1> DEFINE to == IF node.cached \/ node.dirty THEN "open"
                 ELSE IF node.loading THEN "waiting" ELSE "loading"
<1>1. PICK x : x = [proc[p] EXCEPT !.pc = to] BY Zenon
<1>2. proc' = [proc EXCEPT ![p] = x] BY Zenon, <1>1, ProcFacts DEF Open
<1>3. /\ DOMAIN x = ProcFields /\ x.pc = to /\ x.then = proc[p].then /\ x.then = "none"
      /\ proc[p].pc = "none" /\ node.here
  BY Zenon, <1>1, ProcFacts DEF ProcFields, Open, Flushing
<1>4. x.pc \in Handle /\ x.pc \notin Flushing BY Zenon, <1>3 DEF Handle, Flushing
<1>5. /\ DOMAIN node' = NodeFields /\ node'.id = node.id /\ node'.here = node.here
      /\ node'.data = node.data /\ node'.dirty = node.dirty /\ node'.opens = node.opens + 1
  BY Zenon, ProcFacts DEF Open, NodeFields
<1>6. proc'[p] = x BY Zenon, <1>2, ProcFacts
<1>7. Holds(p)' /\ ~Holds(p) BY Zenon, <1>3, <1>4, <1>6 DEF Holds, Handle
<1>8. UNCHANGED <<keep, had, ul, receipt, worker, unl, inode>> BY Zenon DEF Open, openKeeps, wbVars
<1>9. OnePath' BY Zenon, <1>8 DEF VInv, OnePath, Present
<1> QED BY Zenon, <1>2, <1>3, <1>4, <1>5, <1>7, <1>8, <1>9, Onwards

LEMMA FetchInv == ASSUME VInv, IInv, NEW p \in Procs, fetch(p) PROVE VInv'
<1>1. PICK x : x = [proc[p] EXCEPT !.pc = "fetched", !.buf = srv.data] BY Zenon
<1>2. proc' = [proc EXCEPT ![p] = x] BY Zenon, <1>1, ProcFacts DEF fetch
<1>3. /\ DOMAIN x = ProcFields /\ x.pc = "fetched" /\ x.then = proc[p].then /\ x.then = "none"
      /\ proc[p].pc = "loading"
  BY Zenon, <1>1, ProcFacts DEF ProcFields, fetch, Flushing
<1>4. x.pc \in Handle /\ x.pc \notin Flushing BY Zenon, <1>3 DEF Handle, Flushing
<1>5. proc'[p] = x BY Zenon, <1>2, ProcFacts
<1>6. Holds(p)' /\ Holds(p) BY Zenon, <1>3, <1>5 DEF Holds
<1>7. UNCHANGED <<node, keep, had, ul, receipt, worker, unl, inode>> BY Zenon DEF fetch, openKeeps, wbVars
<1>8. OnePath' BY Zenon, <1>7 DEF VInv, OnePath, Present
<1> QED BY Zenon, <1>2, <1>3, <1>4, <1>6, <1>7, <1>8, Onwards, ProcFacts

LEMMA WakeInv == ASSUME VInv, IInv, NEW p \in Procs, wake(p) PROVE VInv'
<1> DEFINE to == IF node.cached THEN "open" ELSE "none"
<1>1. PICK x : x = [proc[p] EXCEPT !.pc = to] BY Zenon
<1>2. proc' = [proc EXCEPT ![p] = x] BY Zenon, <1>1, ProcFacts DEF wake
<1>3. /\ DOMAIN x = ProcFields /\ x.pc = to /\ x.then = proc[p].then /\ x.then = "none"
      /\ proc[p].pc = "woken"
  BY Zenon, <1>1, ProcFacts DEF ProcFields, wake, Flushing
<1>4. x.pc \in Handle \cup {"none"} /\ x.pc \notin Flushing BY Zenon, <1>3 DEF Handle, Flushing
<1>5. proc'[p] = x BY Zenon, <1>2, ProcFacts
<1>6. Holds(p) /\ (Holds(p)' <=> to = "open") BY Zenon, <1>3, <1>5 DEF Holds
<1>7. /\ DOMAIN node' = NodeFields /\ node'.id = node.id /\ node'.here = node.here
      /\ node'.data = node.data /\ node'.dirty = node.dirty
      /\ node'.opens = IF to = "open" THEN node.opens ELSE node.opens - 1
  BY Zenon, ProcFacts DEF wake, NodeFields
<1>8. UNCHANGED <<keep, had, ul, receipt, worker, unl, inode>> BY Zenon DEF wake, openKeeps, wbVars
<1>9. OnePath' BY Zenon, <1>8 DEF VInv, OnePath, Present
<1> QED BY Zenon, <1>2, <1>3, <1>4, <1>6, <1>7, <1>8, <1>9, Onwards

\* The end of a download: who waited is woken.
LEMMA FinishInv ==
    ASSUME VInv, IInv, NEW p \in Procs, NEW ok \in BOOLEAN, proc[p].pc \in {"loading", "fetched"},
           finishDownload(p, ok), DOMAIN node' = NodeFields, node'.id = node.id,
           node'.here = node.here, node'.data = node.data, node'.dirty = node.dirty, OnePath',
           UNCHANGED <<keep, had, ul, receipt, worker, unl>>,
           node'.opens = IF ok THEN node.opens ELSE node.opens - 1
    PROVE  VInv'
<1>1. PICK x : x = [NoProc EXCEPT !.pc = IF ok THEN "open" ELSE "none"] BY Zenon
<1>2. /\ DOMAIN x = ProcFields /\ x.then = "none"
      /\ x.pc = IF ok THEN "open" ELSE "none"
  BY Zenon, <1>1, NoProcShape DEF ProcFields
<1>3. DOMAIN proc' = Procs /\ proc'[p] = x BY Zenon, <1>1 DEF finishDownload
<1>4. ASSUME NEW q \in Procs, q # p
      PROVE  /\ DOMAIN proc'[q] = ProcFields /\ proc'[q].then = proc[q].then
             /\ proc'[q].pc = IF proc[q].pc = "waiting" THEN "woken" ELSE proc[q].pc
  BY Zenon, <1>4, ProcFacts DEF finishDownload, ProcFields
<1>5. ProcShape'
  <2>1. ASSUME NEW q \in Procs
        PROVE  /\ DOMAIN proc'[q] = ProcFields
               /\ proc'[q].pc \in Handle \cup Flushing \cup {"none"}
               /\ proc'[q].then \in {"none", "open"}
               /\ proc'[q].pc \notin Flushing => proc'[q].then = "none"
    <3>1. CASE q = p BY Zenon, <3>1, <1>2, <1>3 DEF Handle
    <3>2. CASE q # p BY Zenon, <3>2, <1>4, ProcFacts DEF Handle, Flushing
    <3> QED BY Zenon, <3>1, <3>2
  <2> QED BY Zenon, <1>3, <2>1 DEF ProcShape
<1>6. \A q \in Procs : q # p => (Holds(q)' <=> Holds(q)) BY Zenon, <1>4 DEF Holds
<1>7. Holds(p) /\ (Holds(p)' <=> ok) BY Zenon, <1>2, <1>3 DEF Holds
<1>8. OpenCountExact' BY Zenon, <1>6, <1>7, HoldSame, HoldDrop DEF VInv
<1>9. UlShape' /\ Uploads' /\ Buffer' /\ LastWriteKept' BY Zenon, ContentSame DEF VInv
<1>10. NodeShape' BY Zenon DEF VInv, NodeShape
<1> QED BY Zenon, <1>5, <1>8, <1>9, <1>10 DEF VInv

LEMMA DownloadInv ==
    ASSUME VInv, IInv, NEW p \in Procs, downloadAndCache(p) \/ downloadFails(p) PROVE VInv'
<1>1. node.id \in Inodes
  BY Zenon DEF downloadAndCache, downloadFails, VInv, NodeShape
<1>2. TypeOK /\ OnePath BY Zenon DEF IInv, VInv
<1>3. UNCHANGED <<keep, had, ul, receipt, worker, unl>>
  BY Zenon DEF downloadAndCache, downloadFails, openKeeps, wbVars
<1>4. OnePath'
  <2>1. \/ UNCHANGED inode
        \/ \E s \in {"synced", "failed"} : SetInode(node.id, s, inode[node.id].dirty)
    BY Zenon DEF downloadAndCache, downloadFails
  <2>2. CASE UNCHANGED inode BY Zenon, <1>2, <2>2 DEF OnePath, Present
  <2> QED BY Zenon, <1>1, <1>2, <2>1, <2>2, SetInodeKeeps DEF Statuses
<1>5. CASE downloadAndCache(p)
  <2>1. /\ DOMAIN node' = NodeFields /\ node'.id = node.id /\ node'.here = node.here
        /\ node'.data = node.data /\ node'.dirty = node.dirty /\ node'.opens = node.opens
    BY Zenon, <1>5, ProcFacts DEF downloadAndCache, NodeFields
  <2>2. proc[p].pc = "fetched" /\ finishDownload(p, TRUE) BY Zenon, <1>5 DEF downloadAndCache
  <2> QED BY Zenon, <1>3, <1>4, <2>1, <2>2, FinishInv
<1>6. CASE downloadFails(p)
  <2>1. /\ DOMAIN node' = NodeFields /\ node'.id = node.id /\ node'.here = node.here
        /\ node'.data = node.data /\ node'.dirty = node.dirty /\ node'.opens = node.opens - 1
    BY Zenon, <1>6, ProcFacts DEF downloadFails, NodeFields
  <2>2. proc[p].pc = "loading" /\ finishDownload(p, FALSE) BY Zenon, <1>6 DEF downloadFails
  <2> QED BY Zenon, <1>3, <1>4, <2>1, <2>2, FinishInv
<1> QED BY Zenon, <1>5, <1>6

\* Flush: taken from an open handle or the last Release, hashed, stored, committed, recorded.
LEMMA FlushStartInv ==
    ASSUME VInv, IInv, NEW p \in Procs, FlushHandle(p) \/ Release(p) PROVE VInv'
<1>1. proc[p].pc = "open" /\ Holds(p) BY Zenon DEF FlushHandle, Release, Holds
<1>2. UNCHANGED <<keep, had, ul, receipt, worker, unl, inode>>
  BY Zenon DEF FlushHandle, Release, wbVars, flushKeeps
<1>3. OnePath' BY Zenon, <1>2 DEF VInv, OnePath, Present
<1>4. /\ DOMAIN node' = NodeFields /\ node'.id = node.id /\ node'.here = node.here
      /\ node'.data = node.data /\ node'.dirty = node.dirty
      /\ node'.opens = IF FlushHandle(p) THEN node.opens ELSE node.opens - 1
  BY Zenon, ProcFacts DEF FlushHandle, Release, NodeFields
<1>5. ASSUME NEW then \in {"none", "open"}, startFlush(p, then),
             then = IF FlushHandle(p) THEN "open" ELSE "none"
      PROVE  VInv'
  <2>1. PICK x : x = [NoProc EXCEPT !.pc = "hash", !.buf = node.data, !.alias = TRUE,
                                    !.then = then]
    BY Zenon
  <2>2. DOMAIN x = ProcFields /\ x.pc = "hash" /\ x.then = then
    BY Zenon, <2>1, NoProcShape DEF ProcFields
  <2>3. proc' = [proc EXCEPT ![p] = x] /\ proc'[p] = x BY Zenon, <1>5, <2>1, ProcFacts DEF startFlush
  <2>4. Holds(p)' <=> then = "open" BY Zenon, <2>2, <2>3 DEF Holds
  <2>5. x.pc \in Flushing BY Zenon, <2>2 DEF Flushing
  <2> QED BY Zenon, <1>1, <1>2, <1>3, <1>4, <1>5, <2>2, <2>3, <2>4, <2>5, Onwards
<1>6. CASE proc' = [proc EXCEPT ![p] = NoProc] /\ ~FlushHandle(p)
  <2>1. ~Holds(p)' BY Zenon, <1>6, ProcFacts, NoProcShape DEF Holds
  <2> QED BY Zenon, <1>1, <1>2, <1>3, <1>4, <1>6, <2>1, NoProcShape, Onwards
<1>7. CASE FlushHandle(p) BY Zenon, <1>5, <1>7 DEF FlushHandle
<1>8. CASE Release(p) /\ ~FlushHandle(p) BY Zenon, <1>5, <1>6, <1>8 DEF Release
<1> QED BY Zenon, <1>7, <1>8

LEMMA FlushStepInv ==
    ASSUME VInv, IInv, NEW p \in Procs, hashBlob(p) \/ putSealed(p) \/ commitFlush(p) PROVE VInv'
<1>1. UNCHANGED <<keep, had, ul, receipt, worker, unl, inode>>
  BY Zenon DEF hashBlob, putSealed, commitFlush, wbVars, flushKeeps
<1>2. OnePath' BY Zenon, <1>1 DEF VInv, OnePath, Present
<1>3. /\ DOMAIN node' = NodeFields /\ node'.id = node.id /\ node'.here = node.here
      /\ node'.data = node.data /\ node'.dirty = node.dirty /\ node'.opens = node.opens
  BY Zenon, ProcFacts DEF hashBlob, putSealed, commitFlush, NodeFields
<1>4. PICK x : /\ x = proc'[p] /\ proc' = [proc EXCEPT ![p] = x] /\ DOMAIN x = ProcFields
               /\ x.pc \in Flushing /\ x.then = proc[p].then /\ proc[p].pc \in Flushing
  <2>1. CASE hashBlob(p)
    <3>1. PICK x : x = [proc[p] EXCEPT !.pc = "seal", !.hash = proc[p].buf] BY Zenon
    <3>2. DOMAIN x = ProcFields /\ x.pc = "seal" /\ x.then = proc[p].then
      BY Zenon, <3>1, ProcFacts DEF ProcFields
    <3>3. proc' = [proc EXCEPT ![p] = x] /\ proc'[p] = x BY Zenon, <2>1, <3>1, ProcFacts DEF hashBlob
    <3> QED BY Zenon, <2>1, <3>2, <3>3 DEF hashBlob, Flushing
  <2>2. CASE putSealed(p)
    <3>1. PICK x : x = [proc[p] EXCEPT !.pc = "commit", !.alias = FALSE, !.buf = 0] BY Zenon
    <3>2. DOMAIN x = ProcFields /\ x.pc = "commit" /\ x.then = proc[p].then
      BY Zenon, <3>1, ProcFacts DEF ProcFields
    <3>3. proc' = [proc EXCEPT ![p] = x] /\ proc'[p] = x BY Zenon, <2>2, <3>1, ProcFacts DEF putSealed
    <3> QED BY Zenon, <2>2, <3>2, <3>3 DEF putSealed, Flushing
  <2>3. CASE commitFlush(p)
    <3>1. PICK x : x = [proc[p] EXCEPT !.pc = "record", !.old = node.hash] BY Zenon
    <3>2. DOMAIN x = ProcFields /\ x.pc = "record" /\ x.then = proc[p].then
      BY Zenon, <3>1, ProcFacts DEF ProcFields
    <3>3. proc' = [proc EXCEPT ![p] = x] /\ proc'[p] = x BY Zenon, <2>3, <3>1, ProcFacts DEF commitFlush
    <3> QED BY Zenon, <2>3, <3>2, <3>3 DEF commitFlush, Flushing
  <2> QED BY Zenon, <2>1, <2>2, <2>3
<1>5. Holds(p)' <=> Holds(p) BY Zenon, <1>4 DEF Holds, Flushing
<1>6. proc[p].pc # "none" BY Zenon, <1>4 DEF Flushing
<1> QED BY Zenon, <1>1, <1>2, <1>3, <1>4, <1>5, <1>6, ProcFacts, Onwards

\* A row that is new or gone has no receipt.
LEMMA Receipts ==
    ASSUME VInv, FreshReceipts
    PROVE  /\ DOMAIN receipt' = RowIds
           /\ \A r \in RowIds : receipt'[r] # 0 => receipt'[r] \in had
BY Zenon DEF VInv, FreshReceipts, Uploads

LEMMA RecordFlushInv == ASSUME VInv, IInv, NEW p \in Procs, recordFlush(p) PROVE VInv'
<1>1. UNCHANGED <<node, keep, had, ul, worker, unl>>
  BY Zenon DEF recordFlush, Flush, flushKeeps
<1>2. node.id \in Inodes BY Zenon DEF recordFlush, VInv, NodeShape
<1>3. OnePath' BY Zenon, <1>2, SetInodeKeeps DEF recordFlush, Flush, IInv, VInv, Statuses
<1>4. PICK x : x = [NoProc EXCEPT !.pc = proc[p].then] BY Zenon
<1>5. DOMAIN x = ProcFields /\ x.pc = proc[p].then /\ x.then = "none"
  BY Zenon, <1>4, NoProcShape DEF ProcFields
<1>6. proc' = [proc EXCEPT ![p] = x] /\ proc'[p] = x /\ proc[p].pc = "record"
  BY Zenon, <1>4, ProcFacts DEF recordFlush
<1>7. x.pc \in Handle \cup {"none"} /\ x.pc \in {"none", "open"} BY Zenon, <1>5, ProcFacts DEF Handle
<1>8. ProcShape' /\ \A q \in Procs : q # p => proc'[q] = proc[q] BY Zenon, <1>5, <1>6, <1>7, Upright
<1>9. Holds(p)' <=> Holds(p) BY Zenon, <1>5, <1>6, <1>7 DEF Holds
<1>10. OpenCountExact' BY Zenon, <1>1, <1>8, <1>9, HoldSame DEF VInv, Holds
<1>11. UlShape' /\ Uploads' BY Zenon, <1>1, Receipts DEF VInv, UlShape, Uploads, recordFlush
<1>12. Buffer' /\ LastWriteKept' BY Zenon, <1>1 DEF VInv, Buffer, LastWriteKept
<1>13. NodeShape' BY Zenon, <1>1, <1>2 DEF VInv, NodeShape
<1> QED BY Zenon, <1>3, <1>8, <1>10, <1>11, <1>12, <1>13 DEF VInv

\* Write and Truncate: every upload of the node learns of it.
LEMMA EditInv ==
    ASSUME VInv, IInv, node.here \/ \E p \in Procs : proc[p].pc = "open", NEW d, edit(d),
           UNCHANGED writeKeeps
    PROVE  VInv'
<1>1. UNCHANGED <<had, receipt, worker, unl, inode>> BY Zenon DEF writeKeeps
<1>2. PICK inPlace \in BOOLEAN, seen \in BOOLEAN :
         /\ proc' = [q \in Procs |-> IF ~proc[q].alias THEN proc[q]
                                     ELSE IF inPlace THEN [proc[q] EXCEPT !.buf = d]
                                     ELSE [proc[q] EXCEPT !.alias = FALSE]]
         /\ ul' = [w \in Workers |->
                     IF ul[w].node = 0 \/ ul[w].node # node.id THEN ul[w]
                     ELSE [ul[w] EXCEPT !.wrote = TRUE,
                             !.data = IF seen /\ ul[w].alias /\ ~ul[w].answered THEN d ELSE @,
                             !.alias = @ /\ inPlace]]
  BY ZenonT(30) DEF edit
<1>3. /\ DOMAIN node' = NodeFields /\ node'.id = node.id /\ node'.here = node.here
      /\ node'.data = d /\ node'.dirty = TRUE /\ node'.opens = node.opens
      /\ keep' = IF node.here THEN d ELSE keep
  BY Zenon DEF edit, VInv, NodeShape, NodeFields
<1>4. ASSUME NEW q \in Procs
      PROVE  /\ DOMAIN proc'[q] = ProcFields /\ proc'[q].pc = proc[q].pc
             /\ proc'[q].then = proc[q].then
  BY Zenon, <1>2, ProcFacts DEF ProcFields
<1>5. ProcShape' BY ZenonT(30), <1>2, <1>4, ProcFacts DEF ProcShape
<1>6. OpenCountExact' BY Zenon, <1>3, <1>4, HoldSame DEF VInv, Holds
<1>7. OnePath' BY Zenon, <1>1 DEF VInv, OnePath, Present
<1>8. ASSUME NEW w \in Workers
      PROVE  /\ DOMAIN ul'[w] = UlFields /\ ul'[w].node = ul[w].node
             /\ ul'[w].answered = ul[w].answered
             /\ ul[w].answered => ul'[w].data = ul[w].data
             /\ ul[w].node # 0 => ul'[w].wrote
  <2>1. DOMAIN ul[w] = UlFields /\ (ul[w].node # 0 => ul[w].node = node.id)
    BY Zenon DEF VInv, UlShape, Uploads
  <2>2. CASE ul[w].node = 0 BY Zenon, <2>1, <2>2, <1>2
  <2>3. CASE ul[w].node # 0
    <3>1. ul'[w] = [ul[w] EXCEPT !.wrote = TRUE,
                      !.data = IF seen /\ ul[w].alias /\ ~ul[w].answered THEN d ELSE @,
                      !.alias = @ /\ inPlace]
      BY Zenon, <1>2, <2>1, <2>3
    <3> QED BY Zenon, <2>1, <3>1 DEF UlFields
  <2> QED BY Zenon, <2>2, <2>3
<1>9. UlShape' BY Zenon, <1>1, <1>2, <1>8 DEF VInv, UlShape
<1>10. Uploads' BY <1>1, <1>3, <1>8 DEF VInv, Uploads
<1>11. Buffer' BY Zenon, <1>3 DEF Buffer
<1>12. LastWriteKept' BY Zenon, <1>1, <1>3 DEF VInv, LastWriteKept
<1>13. NodeShape' BY Zenon, <1>1, <1>3, <1>4 DEF VInv, NodeShape
<1> QED BY Zenon, <1>5, <1>6, <1>7, <1>9, <1>10, <1>11, <1>12, <1>13 DEF VInv

\* A new node, once nothing is under way on the old one.
LEMMA FreshNode ==
    ASSUME VInv, IInv, Unheld, NEW i \in PathIds, NEW s \in Statuses \ {"absent"}, NEW d \in BOOLEAN,
           UpsertInode(i, s, d)
    PROVE  /\ i \in Inodes /\ OnePath'
           /\ \A p \in Procs : proc[p].pc = "none" /\ proc[p].then = "none" /\ ~Holds(p)
           /\ \A w \in Workers : ul[w] = NoUl
           /\ ~node.here /\ keep \in had \cup {0}
<1>1. i \in Inodes /\ \A j \in Present : j = i
  BY Zenon DEF PathIds, FreshIds, Present, VInv, OnePath
<1>2. inode \in [Inodes -> Inode] BY Zenon DEF IInv, TypeOK
<1>3. inode'[i].status = s /\ DOMAIN inode' = Inodes /\ \A j \in Inodes : j # i => inode'[j] = inode[j]
  BY Zenon, <1>1, <1>2 DEF UpsertInode
<1>4. Present' = {i} BY Zenon, <1>1, <1>3 DEF Present
<1>5. OnePath' BY Zenon, <1>1, <1>3, <1>4 DEF VInv, OnePath
<1>6. \A p \in Procs : proc[p].pc = "none" /\ proc[p].then = "none"
  BY Zenon, ProcFacts DEF Unheld, Flushing
<1>7. \A p \in Procs : ~Holds(p) BY Zenon, <1>6 DEF Holds
<1>8. keep \in had \cup {0} BY Zenon DEF VInv, LastWriteKept, Unheld
<1> QED BY Zenon, <1>1, <1>5, <1>6, <1>7, <1>8 DEF Unheld

LEMMA CreateInv == ASSUME VInv, IInv, NEW p \in Procs, CreateFile(p) PROVE VInv'
<1>1. UNCHANGED <<had, ul, receipt, worker, unl>> /\ keep' = written + 1 /\ Unheld
  BY Zenon DEF CreateFile, Create
<1>2. PICK i \in PathIds :
        /\ UpsertInode(i, "pending", TRUE) /\ UNCHANGED worker
        /\ node' = [NoNode EXCEPT !.id = i, !.here = TRUE, !.opens = 1, !.dirty = TRUE,
                                  !.data = written + 1, !.status = "pending"]
  BY Zenon DEF CreateFile, Create
<1>3. /\ i \in Inodes /\ OnePath'
      /\ \A q \in Procs : proc[q].pc = "none" /\ proc[q].then = "none" /\ ~Holds(q)
      /\ \A w \in Workers : ul[w] = NoUl
  BY Zenon, <1>1, <1>2, FreshNode DEF Statuses
<1>4. /\ DOMAIN node' = NodeFields /\ node'.id = i /\ node'.here = TRUE /\ node'.opens = 1
      /\ node'.dirty = TRUE /\ node'.data = written + 1
  BY Zenon, <1>2 DEF NoNode, NodeFields
<1>5. PICK x : x = [proc[p] EXCEPT !.pc = "open"] BY Zenon
<1>6. DOMAIN x = ProcFields /\ x.pc = "open" /\ x.then = "none"
  BY Zenon, <1>3, <1>5, ProcFacts DEF ProcFields
<1>7. proc' = [proc EXCEPT ![p] = x] BY Zenon, <1>5, ProcFacts DEF CreateFile
<1>8. ProcShape' /\ proc'[p] = x /\ \A q \in Procs : q # p => proc'[q] = proc[q]
  BY Zenon, <1>6, <1>7, Upright DEF Handle
<1>9. OpenCountExact'
  <2>1. {q \in Procs : Holds(q)}' = {p} BY Zenon, <1>3, <1>6, <1>8 DEF Holds
  <2> QED BY Zenon, <2>1, <1>4, FS_Singleton DEF OpenCountExact
<1>10. NodeShape' BY Zenon, <1>1, <1>3, <1>4 DEF VInv, NodeShape
<1>11. UlShape' /\ Uploads'
  <2>1. \A w \in Workers : ul'[w].node = 0 BY <1>1, <1>3 DEF NoUl
  <2> QED BY Zenon, <1>1, <2>1 DEF VInv, UlShape, Uploads
<1>12. Buffer' /\ LastWriteKept' BY Zenon, <1>1, <1>4 DEF Buffer, LastWriteKept
<1> QED BY Zenon, <1>3, <1>8, <1>9, <1>10, <1>11, <1>12 DEF VInv

-----------------------------------------------------------------------------
(* Unlink, the evictor, the poller and the retry verb.                     *)

\* A step that none of the conjuncts sees, but for the node's other fields.
LEMMA QuietInv ==
    ASSUME VInv, IInv, OnePath', DOMAIN node' = NodeFields, node'.id = node.id,
           node'.here = node.here, node'.data = node.data, node'.dirty = node.dirty,
           node'.opens = node.opens, UNCHANGED <<proc, keep, had, ul, receipt, worker>>,
           unl'.pc # "idle" => unl'.id \in Inodes
    PROVE  VInv'
<1>1. UlShape' /\ Uploads' /\ Buffer' /\ LastWriteKept' BY Zenon, ContentSame DEF VInv
<1>2. OpenCountExact' BY Zenon, HoldSame DEF VInv, Holds
<1>3. NodeShape' /\ ProcShape' BY Zenon DEF VInv, NodeShape, ProcShape
<1> QED BY Zenon, <1>1, <1>2, <1>3 DEF VInv

LEMMA UnlinkInv == ASSUME VInv, IInv, unlinkRemote \/ unlinkFails \/ unlinkLocal PROVE VInv'
<1>1. CASE unlinkRemote \/ unlinkFails
  <2>1. UNCHANGED <<node, inode, proc, keep, had, ul, receipt, worker>>
    BY Zenon, <1>1 DEF unlinkRemote, unlinkFails, unlinkKeeps
  <2>2. OnePath' BY Zenon, <2>1 DEF VInv, OnePath, Present
  <2>3. unl'.pc # "idle" => unl'.id \in Inodes
    BY <1>1 DEF unlinkRemote, unlinkFails, NoUnl, VInv, NodeShape
  <2>4. DOMAIN node = NodeFields BY Zenon DEF VInv, NodeShape
  <2> QED BY Zenon, <2>1, <2>2, <2>3, <2>4, QuietInv
<1>2. CASE unlinkLocal
  <2>1. UNCHANGED <<proc, had, ul, worker>> /\ keep' = 0 /\ unl' = NoUnl /\ FreshReceipts
    BY Zenon, <1>2 DEF unlinkLocal, unlinkKeeps, Unlink
  <2>2. /\ DOMAIN node' = NodeFields /\ node'.id = node.id /\ node'.here = FALSE
        /\ node'.data = node.data /\ node'.dirty = node.dirty /\ node'.opens = node.opens
    BY Zenon, <1>2 DEF unlinkLocal, VInv, NodeShape, NodeFields
  <2>3. OnePath'
    <3>1. unl.id \in Inodes /\ inode' = [inode EXCEPT ![unl.id] = NoInode]
      BY Zenon, <1>2 DEF unlinkLocal, Unlink, VInv, NodeShape
    <3>2. inode \in [Inodes -> Inode] BY Zenon DEF IInv, TypeOK
    <3> QED BY Zenon, <3>1, <3>2 DEF VInv, OnePath, Present, NoInode
  <2>4. NodeShape' BY Zenon, <2>1, <2>2 DEF VInv, NodeShape, NoUnl
  <2>5. ProcShape' BY Zenon, <2>1 DEF VInv, ProcShape
  <2>6. OpenCountExact' BY Zenon, <2>1, <2>2, HoldSame DEF VInv, Holds
  <2>7. UlShape' /\ Uploads' BY Zenon, <2>1, <2>2, Receipts DEF VInv, UlShape, Uploads
  <2>8. Buffer' /\ LastWriteKept' BY Zenon, <2>1, <2>2 DEF VInv, Buffer, LastWriteKept
  <2> QED BY Zenon, <2>3, <2>4, <2>5, <2>6, <2>7, <2>8 DEF VInv
<1> QED BY Zenon, <1>1, <1>2

LEMMA EvictInv == ASSUME VInv, IInv, evict \/ pollList \/ RemoteChange PROVE VInv'
<1>1. UNCHANGED <<inode, proc, keep, had, ul, receipt, worker, unl>>
  BY Zenon DEF evict, pollList, RemoteChange, evictKeeps, pollKeeps, wbVars, vars
<1>2. /\ DOMAIN node' = NodeFields /\ node'.id = node.id /\ node'.here = node.here
      /\ node'.data = node.data /\ node'.dirty = node.dirty /\ node'.opens = node.opens
  <2>1. DOMAIN node = NodeFields BY Zenon DEF VInv, NodeShape
  <2>2. node' = node \/ node' = [node EXCEPT !.cached = FALSE, !.hash = 0]
    BY Zenon DEF evict, pollList, RemoteChange
  <2> QED BY Zenon, <2>1, <2>2 DEF NodeFields
<1>3. OnePath' BY Zenon, <1>1 DEF VInv, OnePath, Present
<1>4. unl'.pc # "idle" => unl'.id \in Inodes BY Zenon, <1>1 DEF VInv, NodeShape
<1> QED BY Zenon, <1>1, <1>2, <1>3, <1>4, QuietInv

LEMMA RetryFailedInv == ASSUME VInv, IInv, retryFailed PROVE VInv'
<1>1. UNCHANGED <<proc, keep, had, ul, worker, unl>> /\ FreshReceipts
  BY Zenon DEF retryFailed, ClearFailed
<1>2. PICK i \in Present : /\ ClearFailed(i)
                           /\ node' = IF NodeByID(i) THEN [node EXCEPT !.status = "pending"] ELSE node
  BY Zenon DEF retryFailed
<1>3. OnePath'
  BY Zenon, <1>2, SetInodeKeeps DEF ClearFailed, IInv, VInv, Statuses, Present
<1>4. /\ DOMAIN node' = NodeFields /\ node'.id = node.id /\ node'.here = node.here
      /\ node'.data = node.data /\ node'.dirty = node.dirty /\ node'.opens = node.opens
  BY Zenon, <1>2 DEF VInv, NodeShape, NodeFields
<1>5. NodeShape' /\ ProcShape' BY Zenon, <1>1, <1>4 DEF VInv, NodeShape, ProcShape
<1>6. OpenCountExact' BY Zenon, <1>1, <1>4, HoldSame DEF VInv, Holds
<1>7. UlShape' /\ Uploads' BY Zenon, <1>1, <1>4, Receipts DEF VInv, UlShape, Uploads
<1>8. Buffer' /\ LastWriteKept' BY Zenon, <1>1, <1>4 DEF VInv, Buffer, LastWriteKept
<1> QED BY Zenon, <1>3, <1>5, <1>6, <1>7, <1>8 DEF VInv

LEMMA PollInv == ASSUME VInv, IInv, pollApply PROVE VInv'
<1>1. UNCHANGED <<proc, had, ul, receipt, worker, unl>> BY Zenon DEF pollApply, pollKeeps, wbVars
<1>2. unl'.pc # "idle" => unl'.id \in Inodes BY Zenon, <1>1 DEF VInv, NodeShape
<1>3. DOMAIN node = NodeFields BY Zenon DEF VInv, NodeShape
<1>4. CASE pollExisting
  <2>1. UNCHANGED keep /\ node.id \in Inodes BY Zenon, <1>4 DEF pollExisting, VInv, NodeShape
  <2>2. \/ node' = node \/ node' = [node EXCEPT !.status = "conflict"]
        \/ node' = [node EXCEPT !.etag = poll.etag, !.cached = FALSE, !.hash = 0]
    BY Zenon, <1>4 DEF pollExisting
  <2>3. /\ DOMAIN node' = NodeFields /\ node'.id = node.id /\ node'.here = node.here
        /\ node'.data = node.data /\ node'.dirty = node.dirty /\ node'.opens = node.opens
    BY Zenon, <1>3, <2>2 DEF NodeFields
  <2>4. UNCHANGED inode \/ SetInode(node.id, "conflict", inode[node.id].dirty)
    BY Zenon, <1>4 DEF pollExisting
  <2>5. CASE UNCHANGED inode
    <3>1. OnePath' BY Zenon, <2>5 DEF VInv, OnePath, Present
    <3> QED BY Zenon, <1>1, <1>2, <2>1, <2>3, <3>1, QuietInv
  <2>6. CASE SetInode(node.id, "conflict", inode[node.id].dirty)
    <3>1. OnePath' BY Zenon, <2>1, <2>6, SetInodeKeeps DEF VInv, IInv, Statuses
    <3> QED BY Zenon, <1>1, <1>2, <2>1, <2>3, <3>1, QuietInv
  <2> QED BY Zenon, <2>4, <2>5, <2>6
<1>5. CASE pollNew
  <2>1. UNCHANGED keep /\ Unheld BY Zenon, <1>5 DEF pollNew
  <2>2. PICK i \in PathIds :
          /\ UpsertInode(i, "synced", FALSE)
          /\ node' = [NoNode EXCEPT !.id = i, !.here = TRUE, !.etag = poll.etag]
    BY Zenon, <1>5 DEF pollNew
  <2>3. /\ i \in Inodes /\ OnePath'
        /\ \A q \in Procs : proc[q].pc = "none" /\ ~Holds(q)
        /\ \A w \in Workers : ul[w] = NoUl
        /\ keep \in had \cup {0}
    BY Zenon, <2>1, <2>2, FreshNode DEF Statuses
  <2>4. /\ DOMAIN node' = NodeFields /\ node'.id = i /\ node'.here = TRUE /\ node'.opens = 0
        /\ node'.data = 0
    BY Zenon, <2>2 DEF NoNode, NodeFields
  <2>5. OpenCountExact'
    <3>1. {q \in Procs : Holds(q)}' = {} BY Zenon, <1>1, <2>3 DEF Holds
    <3> QED BY Zenon, <3>1, <2>4, FS_EmptySet DEF OpenCountExact
  <2>6. NodeShape' /\ ProcShape' BY Zenon, <1>1, <2>3, <2>4 DEF VInv, NodeShape, ProcShape
  <2>7. UlShape' /\ Uploads'
    <3>1. \A w \in Workers : ul'[w].node = 0 BY <1>1, <2>3 DEF NoUl
    <3> QED BY Zenon, <1>1, <3>1 DEF VInv, UlShape, Uploads
  <2>8. Buffer' /\ LastWriteKept' BY Zenon, <1>1, <2>1, <2>3, <2>4 DEF Buffer, LastWriteKept
  <2> QED BY Zenon, <2>3, <2>5, <2>6, <2>7, <2>8 DEF VInv
<1>6. CASE pollGone
  <2>1. UNCHANGED keep BY Zenon, <1>6 DEF pollGone
  <2>2. CASE UNCHANGED <<inode, node>>
    <3>1. OnePath' BY Zenon, <2>2 DEF VInv, OnePath, Present
    <3> QED BY Zenon, <1>1, <1>2, <1>3, <2>1, <2>2, <3>1, QuietInv
  <2>3. CASE /\ node' = [node EXCEPT !.here = FALSE] /\ inode' = [i \in Inodes |-> NoInode]
             /\ ~locallyDirty
    <3>1. node.data = 0 BY Zenon, <2>3 DEF locallyDirty, VInv, Buffer
    <3>2. keep \in had \cup {0} BY Zenon, <3>1 DEF VInv, LastWriteKept
    <3>3. /\ DOMAIN node' = NodeFields /\ node'.id = node.id /\ node'.here = FALSE
          /\ node'.data = node.data /\ node'.dirty = node.dirty /\ node'.opens = node.opens
      BY Zenon, <1>3, <2>3 DEF NodeFields
    <3>4. OnePath' BY Zenon, <2>3 DEF OnePath, Present, NoInode
    <3>5. NodeShape' /\ ProcShape' BY Zenon, <1>1, <3>3 DEF VInv, NodeShape, ProcShape
    <3>6. OpenCountExact' BY Zenon, <1>1, <3>3, HoldSame DEF VInv, Holds
    <3>7. UlShape' /\ Uploads' BY Zenon, <1>1, <2>1, <3>3 DEF VInv, UlShape, Uploads
    <3>8. Buffer' /\ LastWriteKept' BY Zenon, <1>1, <2>1, <3>1, <3>2, <3>3 DEF Buffer, LastWriteKept
    <3> QED BY Zenon, <3>4, <3>5, <3>6, <3>7, <3>8 DEF VInv
  <2> QED BY Zenon, <1>6, <2>2, <2>3 DEF pollGone
<1> QED BY Zenon, <1>4, <1>5, <1>6 DEF pollApply

-----------------------------------------------------------------------------
(* The writeback workers.                                                  *)

\* A worker's step leaves the processes alone; what it owes the content is Uploads.
LEMMA WritesFrame ==
    ASSUME VInv, IInv, OnePath', DOMAIN node' = NodeFields, node'.id = node.id,
           node'.here = node.here, node'.opens = node.opens, UNCHANGED <<proc, unl>>,
           UlShape', Uploads', Buffer', LastWriteKept'
    PROVE  VInv'
<1>1. OpenCountExact' BY Zenon, HoldSame DEF VInv, Holds
<1>2. NodeShape' /\ ProcShape' BY Zenon DEF VInv, NodeShape, ProcShape
<1> QED BY Zenon, <1>1, <1>2 DEF VInv

LEMMA WorkerFacts ==
    ASSUME VInv, IInv, NEW w \in Workers
    PROVE  /\ DOMAIN worker = Workers /\ DOMAIN worker[w] = {"pc", "batch", "held", "cur", "size"}
           /\ worker[w].cur \subseteq Entry /\ worker[w].batch \subseteq Entry
           /\ DOMAIN ul = Workers /\ DOMAIN ul[w] = UlFields /\ DOMAIN node = NodeFields
           /\ DOMAIN receipt = RowIds
BY Zenon DEF IInv, TypeOK, Worker, VInv, UlShape, NodeShape

LEMMA StartEntryInv == ASSUME VInv, IInv, NEW w \in Workers, startEntry(w) PROVE VInv'
<1>1. UNCHANGED <<inode, node, proc, unl, keep, had, receipt>>
  BY Zenon DEF startEntry, workerKeeps, processEntry
<1>2. PICK f \in worker[w].batch :
        worker' = [worker EXCEPT ![w].batch = @ \ {f}, ![w].cur = {f},
                     ![w].pc = IF f.action = "upload" /\ inode[f.id].status = "absent"
                               THEN "doomed" ELSE "sending"]
  BY Zenon DEF startEntry, processEntry
<1>3. /\ worker'[w].pc # "settle" /\ worker'[w].cur = {f}
      /\ \A v \in Workers : v # w => worker'[v] = worker[v]
  BY Zenon, <1>2, WorkerFacts
<1>4. PICK x : /\ x = [NoUl EXCEPT !.data = Content(f.id),
                                   !.alias = NodeByID(f.id) /\ node.data # 0,
                                   !.node = IF NodeByID(f.id) THEN f.id ELSE 0]
               /\ ul' = [ul EXCEPT ![w] = x]
  BY Zenon, <1>3 DEF startEntry
<1>5. /\ DOMAIN x = UlFields /\ x.data = Content(f.id) /\ x.answered = FALSE /\ x.wrote = FALSE
      /\ x.node = IF NodeByID(f.id) THEN f.id ELSE 0
  BY Zenon, <1>4 DEF NoUl, UlFields
<1>6. ul'[w] = x /\ DOMAIN ul' = Workers /\ \A v \in Workers : v # w => ul'[v] = ul[v]
  BY Zenon, <1>4, WorkerFacts
<1>7. UlShape' BY Zenon, <1>1, <1>5, <1>6 DEF VInv, UlShape
<1>8. ASSUME x.node # 0 PROVE x.node = node.id /\ keep \in had \cup {0, x.data}
  <2>1. NodeByID(f.id) /\ x.node = f.id BY Zenon, <1>5, <1>8
  <2>2. node.here /\ node.id = f.id BY Zenon, <2>1 DEF NodeByID
  <2>3. node.data # 0 => x.data = node.data BY Zenon, <1>5, <2>1 DEF Content
  <2> QED BY Zenon, <2>1, <2>2, <2>3 DEF VInv, LastWriteKept
<1>9. Uploads'
  <2>1. ASSUME NEW v \in Workers
        PROVE  /\ ul'[v].answered => ul'[v].data \in had'
               /\ worker'[v].pc = "settle" => ul'[v].answered
               /\ ul'[v].node # 0 => ul'[v].node = node'.id
               /\ ul'[v].node # 0 /\ ~ul'[v].wrote => keep' \in had' \cup {0, ul'[v].data}
    <3>1. CASE v = w BY Zenon, <3>1, <1>1, <1>3, <1>5, <1>6, <1>8
    <3>2. CASE v # w BY <3>2, <1>1, <1>3, <1>6 DEF VInv, Uploads
    <3> QED BY Zenon, <3>1, <3>2
  <2> QED BY Zenon, <1>1, <2>1 DEF VInv, Uploads
<1>10. OnePath' BY Zenon, <1>1 DEF VInv, OnePath, Present
<1>11. Buffer' /\ LastWriteKept' BY Zenon, <1>1 DEF VInv, Buffer, LastWriteKept
<1> QED BY Zenon, <1>1, <1>7, <1>9, <1>10, <1>11, WorkerFacts, WritesFrame

LEMMA AnswerInv == ASSUME VInv, IInv, NEW w \in Workers, Answer(w) PROVE VInv'
<1>1. UNCHANGED <<inode, worker, node, proc, unl, keep>> BY Zenon DEF Answer, workerKeeps, vars
<1>2. PICK e \in worker[w].cur :
         IF receipt[e.row] = ul[w].data
         THEN /\ ul' = [ul EXCEPT ![w].answered = TRUE]
              /\ UNCHANGED <<srv, had, receipt>>
         ELSE /\ srv' = [data |-> ul[w].data, etag |-> NewEtag(ul[w].data)]
              /\ had' = had \cup {ul[w].data}
              /\ ul' = [ul EXCEPT ![w].answered = TRUE, ![w].etag = srv'.etag]
              /\ receipt' = [receipt EXCEPT ![e.row] = ul[w].data]
  BY Zenon DEF Answer
<1>3. e.row \in RowIds BY Zenon, WorkerFacts DEF Entry
<1>4. ul[w].data # 0 BY Zenon DEF Answer
<1>5. /\ DOMAIN ul' = Workers /\ DOMAIN ul'[w] = UlFields /\ ul'[w].data = ul[w].data
      /\ ul'[w].node = ul[w].node /\ ul'[w].wrote = ul[w].wrote /\ ul'[w].answered = TRUE
      /\ \A v \in Workers : v # w => ul'[v] = ul[v]
  <2>1. CASE ul' = [ul EXCEPT ![w].answered = TRUE] BY Zenon, <2>1, WorkerFacts DEF UlFields
  <2>2. CASE ul' = [ul EXCEPT ![w].answered = TRUE, ![w].etag = srv'.etag]
    BY Zenon, <2>2, WorkerFacts DEF UlFields
  <2> QED BY Zenon, <1>2, <2>1, <2>2
<1>6. /\ had \subseteq had' /\ ul[w].data \in had' /\ DOMAIN receipt' = RowIds
      /\ \A r \in RowIds : receipt'[r] # 0 => receipt'[r] \in had'
  <2>1. \A r \in RowIds : receipt[r] # 0 => receipt[r] \in had BY Zenon DEF VInv, Uploads
  <2>2. CASE receipt[e.row] = ul[w].data BY Zenon, <1>2, <1>3, <1>4, <2>1, <2>2, WorkerFacts
  <2>3. CASE receipt[e.row] # ul[w].data BY Zenon, <1>2, <1>3, <2>1, <2>3, WorkerFacts
  <2> QED BY Zenon, <2>2, <2>3
<1>7. UlShape' BY Zenon, <1>5, <1>6 DEF VInv, UlShape
<1>8. Uploads'
  <2>1. ASSUME NEW v \in Workers
        PROVE  /\ ul'[v].answered => ul'[v].data \in had'
               /\ worker'[v].pc = "settle" => ul'[v].answered
               /\ ul'[v].node # 0 => ul'[v].node = node'.id
               /\ ul'[v].node # 0 /\ ~ul'[v].wrote => keep' \in had' \cup {0, ul'[v].data}
    <3>1. CASE v = w BY Zenon, <3>1, <1>1, <1>5, <1>6 DEF VInv, Uploads
    <3>2. CASE v # w BY <3>2, <1>1, <1>5, <1>6 DEF VInv, Uploads
    <3> QED BY Zenon, <3>1, <3>2
  <2> QED BY Zenon, <1>6, <2>1 DEF Uploads
<1>9. OnePath' BY Zenon, <1>1 DEF VInv, OnePath, Present
<1>10. Buffer' /\ LastWriteKept' BY Zenon, <1>1, <1>6 DEF VInv, Buffer, LastWriteKept
<1> QED BY Zenon, <1>1, <1>7, <1>8, <1>9, <1>10, WorkerFacts, WritesFrame

LEMMA UploadedInv == ASSUME VInv, IInv, NEW w \in Workers, recordUploaded(w) PROVE VInv'
<1>1. UNCHANGED <<inode, node, proc, unl, keep, had, ul>> /\ ul[w].answered /\ FreshReceipts
  BY Zenon DEF recordUploaded, workerKeeps, Succeed
<1>2. worker' = [worker EXCEPT ![w].pc = "settle"] BY Zenon DEF recordUploaded, Succeed
<1>3. \A v \in Workers : v # w => worker'[v] = worker[v] BY Zenon, <1>2, WorkerFacts
<1>4. UlShape' BY Zenon, <1>1, Receipts DEF VInv, UlShape
<1>5. Uploads' BY Zenon, <1>1, <1>3, Receipts DEF VInv, Uploads
<1>6. OnePath' BY Zenon, <1>1 DEF VInv, OnePath, Present
<1>7. Buffer' /\ LastWriteKept' BY Zenon, <1>1 DEF VInv, Buffer, LastWriteKept
<1> QED BY Zenon, <1>1, <1>4, <1>5, <1>6, <1>7, WorkerFacts, WritesFrame

\* The buffer is dropped: nobody wrote since, so the server has the last content.
LEMMA SettleNodeInv == ASSUME VInv, IInv, NEW w \in Workers, settleNode(w) PROVE VInv'
<1>1. UNCHANGED <<inode, worker, proc, unl, keep, had, receipt>>
  BY Zenon DEF settleNode, workerKeeps, vars
<1>2. keep \in had \cup {0} BY Zenon DEF settleNode, VInv, Uploads
<1>3. /\ DOMAIN node' = NodeFields /\ node'.id = node.id /\ node'.here = node.here
      /\ node'.opens = node.opens /\ node'.data = 0
  BY Zenon, WorkerFacts DEF settleNode, NodeFields
<1>4. /\ DOMAIN ul' = Workers /\ DOMAIN ul'[w] = UlFields /\ ul'[w].data = ul[w].data
      /\ ul'[w].node = ul[w].node /\ ul'[w].wrote = ul[w].wrote
      /\ ul'[w].answered = ul[w].answered
      /\ \A v \in Workers : v # w => ul'[v] = ul[v]
  BY Zenon, WorkerFacts DEF settleNode, UlFields
<1>5. UlShape' BY Zenon, <1>1, <1>4 DEF VInv, UlShape
<1>6. Uploads'
  <2>1. \A v \in Workers : /\ ul'[v].data = ul[v].data /\ ul'[v].node = ul[v].node
                           /\ ul'[v].wrote = ul[v].wrote /\ ul'[v].answered = ul[v].answered
    BY Zenon, <1>4
  <2> QED BY <1>1, <1>3, <2>1 DEF VInv, Uploads
<1>7. OnePath' BY Zenon, <1>1 DEF VInv, OnePath, Present
<1>8. Buffer' /\ LastWriteKept' BY Zenon, <1>1, <1>2, <1>3 DEF Buffer, LastWriteKept
<1> QED BY Zenon, <1>1, <1>3, <1>5, <1>6, <1>7, <1>8, WritesFrame

\* The end of an entry.
LEMMA DoneInv ==
    ASSUME VInv, IInv, OnePath', NEW w \in Workers, Done(w), ul' = [ul EXCEPT ![w] = NoUl],
           DOMAIN receipt' = RowIds, \A r \in RowIds : receipt'[r] # 0 => receipt'[r] \in had,
           UNCHANGED <<proc, unl, keep, had>>, DOMAIN node' = NodeFields, node'.id = node.id,
           node'.here = node.here, node'.opens = node.opens, node'.data = node.data,
           node'.dirty \in {node.dirty, TRUE}
    PROVE  VInv'
<1>1. worker'[w].pc = "batch" /\ \A v \in Workers : v # w => worker'[v] = worker[v]
  BY Zenon, WorkerFacts DEF Done
<1>2. ul'[w] = NoUl /\ DOMAIN ul' = Workers /\ \A v \in Workers : v # w => ul'[v] = ul[v]
  BY Zenon, WorkerFacts
<1>3. DOMAIN NoUl = UlFields /\ NoUl.answered = FALSE /\ NoUl.node = 0 BY Zenon DEF NoUl, UlFields
<1>4. UlShape' BY Zenon, <1>2, <1>3 DEF VInv, UlShape
<1>5. Uploads'
  <2>1. ASSUME NEW v \in Workers
        PROVE  /\ ul'[v].answered => ul'[v].data \in had'
               /\ worker'[v].pc = "settle" => ul'[v].answered
               /\ ul'[v].node # 0 => ul'[v].node = node'.id
               /\ ul'[v].node # 0 /\ ~ul'[v].wrote => keep' \in had' \cup {0, ul'[v].data}
    <3>1. CASE v = w BY Zenon, <3>1, <1>1, <1>2, <1>3
    <3>2. CASE v # w BY <3>2, <1>1, <1>2 DEF VInv, Uploads
    <3> QED BY Zenon, <3>1, <3>2
  <2> QED BY Zenon, <2>1 DEF Uploads
<1>6. Buffer' /\ LastWriteKept' BY Zenon DEF VInv, Buffer, LastWriteKept
<1> QED BY Zenon, <1>4, <1>5, <1>6, WritesFrame

LEMMA EndEntryInv == ASSUME VInv, IInv, NEW w \in Workers, settleRow(w) \/ transferError(w) PROVE VInv'
<1>1. UNCHANGED <<proc, unl, keep, had>> /\ ul' = [ul EXCEPT ![w] = NoUl] /\ Done(w)
  BY Zenon DEF settleRow, transferError, workerKeeps, Settle, Resend, Defer, GiveUp
<1>2. /\ DOMAIN receipt' = RowIds
      /\ \A r \in RowIds : receipt'[r] # 0 => receipt'[r] \in had
  BY Zenon, Receipts DEF settleRow, transferError, VInv, UlShape, Uploads
<1>3. PICK e \in worker[w].cur, s \in {"synced", "pending", "failed"} :
          \E d : SetInode(e.id, s, d)
  BY Zenon DEF settleRow, transferError, Settle, Resend, Defer, GiveUp
<1>4. e.id \in Inodes BY Zenon, WorkerFacts DEF Entry
<1>5. OnePath' BY Zenon, <1>3, <1>4, SetInodeKeeps DEF IInv, VInv, Statuses
<1>6. \/ node' = node \/ node' = [node EXCEPT !.status = "failed"]
      \/ node' = [node EXCEPT !.etag = ul[w].etag, !.dirty = TRUE, !.status = "pending"]
  BY Zenon DEF settleRow, transferError
<1>7. /\ DOMAIN node' = NodeFields /\ node'.id = node.id /\ node'.here = node.here
      /\ node'.opens = node.opens /\ node'.data = node.data /\ node'.dirty \in {node.dirty, TRUE}
  BY Zenon, <1>6, WorkerFacts DEF NodeFields
<1> QED BY Zenon, <1>1, <1>2, <1>5, <1>7, DoneInv

LEMMA BatchInv == ASSUME VInv, IInv, NEW w \in Workers, batchStep(w) PROVE VInv'
<1>1. UNCHANGED <<inode, node, proc, unl, keep, had, ul, receipt>>
  BY Zenon DEF batchStep, workerKeeps, FlushReturn, DequeueWriteback, Hold, EndBatch
<1>2. worker'[w].pc # "settle" /\ \A v \in Workers : v # w => worker'[v] = worker[v]
  <2>1. CASE FlushReturn(w) BY Zenon, <2>1, WorkerFacts DEF FlushReturn
  <2>2. CASE DequeueWriteback(w) BY Zenon, <2>2, WorkerFacts DEF DequeueWriteback, Idle
  <2>3. CASE Hold(w) BY Zenon, <2>3, WorkerFacts DEF Hold
  <2>4. CASE EndBatch(w) BY Zenon, <2>4, WorkerFacts DEF EndBatch, Idle
  <2> QED BY Zenon, <2>1, <2>2, <2>3, <2>4 DEF batchStep
<1>3. UlShape' /\ Uploads' BY Zenon, <1>1, <1>2 DEF VInv, UlShape, Uploads
<1>4. OnePath' BY Zenon, <1>1 DEF VInv, OnePath, Present
<1>5. Buffer' /\ LastWriteKept' BY Zenon, <1>1 DEF VInv, Buffer, LastWriteKept
<1> QED BY Zenon, <1>1, <1>3, <1>4, <1>5, WorkerFacts, WritesFrame

-----------------------------------------------------------------------------
(* The results.                                                            *)

LEMMA VNextInv == VInv /\ IInv /\ [VNext]_fvars => VInv'
<1> SUFFICES ASSUME VInv, IInv, [VNext]_fvars PROVE VInv'
  BY Zenon
<1>1. CASE UNCHANGED fvars
  <2>1. UNCHANGED <<inode, proc, keep, had, ul, receipt, worker, unl, node>> BY Zenon, <1>1 DEF fvars
  <2>2. OnePath' BY Zenon, <2>1 DEF VInv, OnePath, Present
  <2>3. DOMAIN node = NodeFields /\ (unl.pc # "idle" => unl.id \in Inodes) BY Zenon DEF VInv, NodeShape
  <2> QED BY Zenon, <2>1, <2>2, <2>3, QuietInv
<1>2. ASSUME NEW p \in Procs, \/ Opens(p) \/ Asks(p) \/ FlushHandle(p) \/ Runs(p)
                              \/ downloadFails(p)
      PROVE  VInv'
  <2>1. CASE Write(p)
    <3>1. node.here \/ \E q \in Procs : proc[q].pc = "open" BY Zenon, <2>1 DEF Write
    <3> QED BY Zenon, <2>1, <3>1, EditInv DEF Write
  <2> QED BY Zenon, <1>2, <2>1, OpenInv, CreateInv, FlushStartInv, FetchInv, DownloadInv, WakeInv,
             FlushStepInv, RecordFlushInv
          DEF Opens, Asks, Runs
<1>3. CASE Truncate BY Zenon, <1>3, EditInv DEF Truncate
<1>4. CASE Unlinks \/ unlinkFails BY Zenon, <1>4, UnlinkInv DEF Unlinks
<1>5. CASE evict \/ pollList \/ RemoteChange BY Zenon, <1>5, EvictInv
<1>6. CASE pollApply BY Zenon, <1>6, PollInv
<1>7. CASE retryFailed BY Zenon, <1>7, RetryFailedInv
<1>8. ASSUME NEW w \in Workers, Writes(w) \/ transferError(w) PROVE VInv'
  BY Zenon, <1>8, StartEntryInv, AnswerInv, UploadedInv, SettleNodeInv, EndEntryInv, BatchInv DEF Writes
<1> QED BY Zenon, <1>1, <1>2, <1>3, <1>4, <1>5, <1>6, <1>7, <1>8 DEF VNext, Poller, Fault

\* The invariant of the file holds together with that of its queue.
THEOREM VInvariant == VSpec => [](VInv /\ IInv)
<1>1. VInit => VInv /\ IInv BY Zenon, VInitInv, InitInv DEF VInit
<1>2. VInv /\ IInv /\ [VNext]_fvars => (VInv /\ IInv)' BY Zenon, VNextInv, VNextMaps, NextInv
<1> QED BY <1>1, <1>2, PTL DEF VSpec

\* Every step of a file of a virtual mount is a step of the writeback queue, so all that
\* is proved of the queue holds of the mount.
THEOREM VirtualFileUsesQueue == VSpec => VQueueRefined
<1>1. VInit => Init BY Zenon DEF VInit
<1>2. VInv /\ IInv /\ [VNext]_fvars => [Next]_vars BY Zenon, VNextMaps
<1> QED BY <1>1, <1>2, VInvariant, PTL DEF VSpec, VQueueRefined, Spec

\* OpenCount is the number of handles and of opens under way.
THEOREM OpenCountIsExact == VSpec => []OpenCountExact
<1>1. VInv => OpenCountExact BY Zenon DEF VInv
<1> QED BY <1>1, VInvariant, PTL

\* The last content written stays in the write buffer until the server has taken it.
THEOREM LastWriteIsKept == VSpec => []LastWriteKept
<1>1. VInv => LastWriteKept BY Zenon DEF VInv
<1> QED BY <1>1, VInvariant, PTL
=============================================================================
