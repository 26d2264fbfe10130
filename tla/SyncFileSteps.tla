--------------------------- MODULE SyncFileSteps ----------------------------
(***************************************************************************)
(* The inductive invariant of a file of a sync mount, that every step of    *)
(* the file is a step of the queue, and that the steps which are quiet      *)
(* about contents (watcher, poller, healing, restart) keep the invariant.   *)
(* The steps that move contents, and the theorems, are in SyncFileProofs.   *)
(***************************************************************************)
EXTENDS SyncFile, WritebackProofs

-----------------------------------------------------------------------------
(* The inductive invariant, beside the queue's.                            *)

Known == 0 .. written
Versioned == Etags \cup {NoEtag}
Ids == Inodes \cup {0}
MetaType == [hash : Known, base : Known, cur : BOOLEAN, etag : Versioned, ver : Versioned,
             latch : BOOLEAN]
NodeType == [id : Ids, cached : BOOLEAN, dirty : BOOLEAN, etag : Versioned, conf : BOOLEAN]
DlType == [pc : {"idle", "start", "fetch", "fetched", "rename", "commit"}, id : Ids,
           etag : Versioned, data : Known, touched : BOOLEAN]
PollType == [pc : {"idle", "listed"}, data : Known, etag : Versioned]
UlType == [data : Known, etag : Versioned, node : Ids, answered : BOOLEAN]

\* Contents are numbered in the order they were written.
CopyShape == /\ written \in 0 .. MaxData
             /\ local \in Known /\ undo \in Known /\ keep \in Known
             /\ srv \in [data : Known, etag : Versioned]
MetaShape == meta \in [Inodes -> MetaType]
NodeShape == node \in NodeType /\ poll \in PollType
             /\ boot \in {"list", "walk", "scan", "run"}
DlShape == dl \in DlType /\ (dl.pc # "idle" => dl.id \in Inodes)
UlShape == ul \in [Workers -> UlType] /\ receipt \in [RowIds -> Known]
FileShape == CopyShape /\ MetaShape /\ NodeShape /\ DlShape /\ UlShape

\* The path has one inode; a row that is absent is empty.
OnePath == /\ \A i, j \in Present : i = j
           /\ \A i \in Inodes \ Present : inode[i] = NoInode

Arrived == {"fetched", "rename", "commit"}

\* Whoever names the version the server has now holds its content: the records, an upload
\* that was answered, and a download from the moment it has the content.
Binds(e, d) == e # NoEtag /\ e = srv.etag => d = srv.data
Versioning ==
    /\ \A i \in Inodes : Binds(meta[i].ver, meta[i].base)
    /\ \A w \in Workers : Binds(ul[w].etag, ul[w].data)
    /\ dl.pc \in Arrived => Binds(dl.etag, dl.data)

\* A content that may be replaced: it is not the user's last edit, or the server took it.
Safe(d) == d = keep => d \in had \cup {0}

\* Baselines, receipts, answered uploads and what is downloaded are all safe; so is the
\* file itself from a download's first look at it until its rename.
Keeping ==
    /\ KeepSafe /\ (undo # 0 => keep = 0) /\ Safe(srv.data)
    /\ \A i \in Inodes : Safe(meta[i].base)
    /\ \A r \in RowIds : Safe(receipt[r])
    /\ \A w \in Workers : ul[w].answered => Safe(ul[w].data)
    /\ dl.pc \in Arrived => Safe(dl.data)
    /\ (dl.pc \in {"fetch", "fetched"} /\ ~dl.touched) \/ dl.pc = "rename" => Safe(local)

SInv == FileShape /\ OnePath /\ Versioning

-----------------------------------------------------------------------------
(* Etags.                                                                  *)

LEMMA ImageBound ==
    ASSUME NEW S, IsFiniteSet(S), NEW f, DOMAIN f = S
    PROVE  /\ IsFiniteSet({f[x] : x \in S})
           /\ Cardinality({f[x] : x \in S}) <= Cardinality(S)
<1> DEFINE T == {f[x] : x \in S}
           g == [x \in S |-> f[x]]
<1>1. g \in Surjection(S, T) BY DEF Surjection
<1> QED BY <1>1, FS_Surjection

LEMMA UnionBound ==
    ASSUME NEW S, NEW T, IsFiniteSet(S), IsFiniteSet(T), NEW m \in Nat, NEW n \in Nat,
           Cardinality(S) <= m, Cardinality(T) <= n
    PROVE  IsFiniteSet(S \cup T) /\ Cardinality(S \cup T) <= m + n
<1>1. IsFiniteSet(S \cap T) BY FS_Intersection
<1>2. /\ Cardinality(S) \in Nat /\ Cardinality(T) \in Nat /\ Cardinality(S \cap T) \in Nat
  BY <1>1, FS_CardinalityType
<1>3. /\ IsFiniteSet(S \cup T)
      /\ Cardinality(S \cup T) = Cardinality(S) + Cardinality(T) - Cardinality(S \cap T)
  BY FS_Union
<1> QED BY <1>2, <1>3

LEMMA WorkersFinite == IsFiniteSet(Workers) /\ Cardinality(Workers) \in Nat
BY FilesAssumption, FS_AddElement, FS_CardinalityType DEF Workers

\* Fewer etags than Versions leave one of them for every content.
LEMMA OneLeft ==
    ASSUME NEW used, NEW d, IsFiniteSet(used), IsFiniteSet(Versions),
           Cardinality(used) < Cardinality(Versions)
    PROVE  \E n \in Versions : <<d, n>> \notin used
<1> SUFFICES ASSUME \A n \in Versions : <<d, n>> \in used PROVE FALSE OBVIOUS
<1> DEFINE f == [n \in Versions |-> <<d, n>>]
<1>1. f \in [Versions -> used] OBVIOUS
<1>2. PICK m, n \in Versions : m # n /\ f[m] = f[n] BY ZenonT(30), <1>1, FS_PigeonHole
<1> QED BY <1>2

\* An upload's etag is a new one: nothing that is kept anywhere names it yet.
LEMMA NewEtagFresh ==
    ASSUME MetaShape, UlShape, NEW d \in Data
    PROVE  /\ NewEtag(d) \in Etags /\ NewEtag(d) # NoEtag
           /\ NewEtag(d) \notin {srv.etag, dl.etag}
           /\ \A i \in Inodes : NewEtag(d) # meta[i].ver
           /\ \A w \in Workers : NewEtag(d) # ul[w].etag
<1> DEFINE Places == {srv.etag, node.etag, dl.etag, poll.etag}
           M == {meta[i].etag : i \in Inodes}
           V == {meta[i].ver : i \in Inodes}
           U == {ul[w].etag : w \in Workers}
           used == Places \cup M \cup V \cup U
           I == Cardinality(Inodes)
           W == Cardinality(Workers)
<1>1. I \in Nat /\ W \in Nat /\ IsFiniteSet(Inodes) /\ IsFiniteSet(Workers)
  BY WorkersFinite, FilesAssumption, FS_CardinalityType
<1>2. IsFiniteSet(Places) /\ Cardinality(Places) <= 4
  <2>0. \A a, b : IsFiniteSet({a} \cup {b}) /\ Cardinality({a} \cup {b}) <= 2
    <3> TAKE a, b
    <3>1. IsFiniteSet({a}) /\ Cardinality({a}) = 1 BY Zenon, FS_Singleton
    <3>2. /\ IsFiniteSet({a} \cup {b})
          /\ Cardinality({a} \cup {b}) \in {1, 2}
      BY <3>1, FS_AddElement
    <3> QED BY <3>2
  <2>7. Places = ({srv.etag} \cup {node.etag}) \cup ({dl.etag} \cup {poll.etag}) OBVIOUS
  <2> HIDE DEF Places
  <2>8. /\ IsFiniteSet(({srv.etag} \cup {node.etag}) \cup ({dl.etag} \cup {poll.etag}))
        /\ Cardinality(({srv.etag} \cup {node.etag}) \cup ({dl.etag} \cup {poll.etag})) <= 2 + 2
    BY Zenon, <2>0, UnionBound
  <2> QED BY <2>7, <2>8
<1>3. IsFiniteSet(M) /\ Cardinality(M) <= I
  <2> DEFINE f == [i \in Inodes |-> meta[i].etag]
  <2>1. M = {f[i] : i \in Inodes} /\ DOMAIN f = Inodes OBVIOUS
  <2> HIDE DEF f
  <2> QED BY <1>1, <2>1, ImageBound
<1>4. IsFiniteSet(V) /\ Cardinality(V) <= I
  <2> DEFINE f == [i \in Inodes |-> meta[i].ver]
  <2>1. V = {f[i] : i \in Inodes} /\ DOMAIN f = Inodes OBVIOUS
  <2> HIDE DEF f
  <2> QED BY <1>1, <2>1, ImageBound
<1>5. IsFiniteSet(U) /\ Cardinality(U) <= W
  <2> DEFINE f == [w \in Workers |-> ul[w].etag]
  <2>1. U = {f[w] : w \in Workers} /\ DOMAIN f = Workers OBVIOUS
  <2> HIDE DEF f
  <2> QED BY <1>1, <2>1, ImageBound
<1> HIDE DEF Places, M, V, U, I, W
<1>6. IsFiniteSet(Places \cup M) /\ Cardinality(Places \cup M) <= 4 + I BY Zenon, <1>1, <1>2, <1>3, UnionBound
<1>7. IsFiniteSet(V \cup U) /\ Cardinality(V \cup U) <= I + W BY Zenon, <1>1, <1>4, <1>5, UnionBound
<1>8. /\ IsFiniteSet((Places \cup M) \cup (V \cup U))
      /\ Cardinality((Places \cup M) \cup (V \cup U)) <= (4 + I) + (I + W)
  <2>1. 4 + I \in Nat /\ I + W \in Nat BY <1>1
  <2> QED BY Zenon, <1>6, <1>7, <2>1, UnionBound
<1>9. used = (Places \cup M) \cup (V \cup U) OBVIOUS
<1>10. Versions = 1 .. 5 + 2 * I + W BY DEF Versions, I, W
<1>11. IsFiniteSet(Versions) /\ Cardinality(Versions) = 5 + 2 * I + W
  BY <1>1, <1>10, FS_Interval
<1>12. IsFiniteSet(used) /\ Cardinality(used) < Cardinality(Versions)
  <2>1. Cardinality(used) \in Nat BY Zenon, <1>8, <1>9, FS_CardinalityType
  <2> QED BY <1>1, <1>8, <1>9, <1>11, <2>1
<1>13. \E n \in Versions : <<d, n>> \notin used BY <1>11, <1>12, OneLeft
<1> DEFINE n == CHOOSE k \in Versions : <<d, k>> \notin used
<1>14. n \in Versions /\ <<d, n>> \notin used BY <1>13
<1>15. NewEtag(d) = <<d, n>> BY DEF NewEtag, Places, M, V, U
<1> HIDE DEF n
<1>16. NewEtag(d) \in Etags /\ NewEtag(d) \notin used BY <1>14, <1>15 DEF Etags
<1>17. NewEtag(d) # NoEtag BY <1>10, <1>14, <1>15, <1>1 DEF NoEtag
<1> QED BY <1>16, <1>17 DEF Places, M, V, U

-----------------------------------------------------------------------------
(* What a step may do to the records without a word on contents.            *)

\* The content columns of a row: kept, or given up together.
SameContent(m, n) == \/ n.base = m.base /\ n.ver = m.ver
                     \/ n.base = 0 /\ n.ver = NoEtag
MetaKept == \A i \in Inodes : SameContent(meta[i], meta'[i])
\* Transfers: kept, or ended, or begun.
UlKept == \A w \in Workers : ul'[w] = ul[w] \/ (~ul'[w].answered /\ ul'[w].etag = NoEtag)
ReceiptKept == \A r \in RowIds : receipt'[r] \in {0, receipt[r]}
DlKept == dl' = dl \/ dl'.pc \in {"idle", "start"}
FileKept == UNCHANGED <<srv, local, keep, undo, had, trash, written>>

LEMMA VersioningKept ==
    ASSUME Versioning, MetaKept, UlKept, DlKept, UNCHANGED srv
    PROVE  Versioning'
<1>1. \A i \in Inodes : Binds(meta[i].ver, meta[i].base)'
  BY Zenon DEF Versioning, MetaKept, SameContent, Binds
<1>2. \A w \in Workers : Binds(ul[w].etag, ul[w].data)'
  BY Zenon DEF Versioning, UlKept, Binds
<1>3. (dl.pc \in Arrived => Binds(dl.etag, dl.data))'
  BY Zenon DEF Versioning, DlKept, Binds, Arrived
<1> QED BY Zenon, <1>1, <1>2, <1>3 DEF Versioning

LEMMA KeepingKept ==
    ASSUME Keeping, MetaKept, UlKept, ReceiptKept, DlKept, FileKept
    PROVE  Keeping'
<1>0. \A d : Safe(d) => Safe(d)' BY Zenon DEF Safe, FileKept
<1>1. (KeepSafe /\ (undo # 0 => keep = 0) /\ Safe(srv.data))'
  BY Zenon DEF Keeping, KeepSafe, FileKept, Safe
<1>2. (\A i \in Inodes : Safe(meta[i].base))'
  BY Zenon DEF Keeping, MetaKept, SameContent, FileKept, Safe
<1>3. (\A r \in RowIds : Safe(receipt[r]))'
  BY Zenon DEF Keeping, ReceiptKept, FileKept, Safe
<1>4. (\A w \in Workers : ul[w].answered => Safe(ul[w].data))'
  BY Zenon DEF Keeping, UlKept, FileKept, Safe
<1>5. (dl.pc \in Arrived => Safe(dl.data))'
  BY Zenon DEF Keeping, DlKept, FileKept, Safe, Arrived
<1>6. ((dl.pc \in {"fetch", "fetched"} /\ ~dl.touched) \/ dl.pc = "rename" => Safe(local))'
  BY Zenon DEF Keeping, DlKept, FileKept, Safe
<1> QED BY Zenon, <1>1, <1>2, <1>3, <1>4, <1>5, <1>6 DEF Keeping

\* A step that is quiet about contents keeps both.
Calm == MetaKept /\ UlKept /\ ReceiptKept /\ DlKept /\ FileKept

LEMMA KnownFacts ==
    ASSUME CopyShape
    PROVE  0 \in Known /\ Known \subseteq 0 .. MaxData /\ written \in Nat
BY FilesAssumption DEF CopyShape, Known

\* The updates of a row's columns.
LEMMA MetaEdits ==
    ASSUME CopyShape, NEW m \in MetaType
    PROVE  /\ \A d \in Known : [m EXCEPT !.hash = d] \in MetaType /\ SameContent(m, [m EXCEPT !.hash = d])
           /\ \A e \in Versioned : [m EXCEPT !.etag = e] \in MetaType /\ SameContent(m, [m EXCEPT !.etag = e])
           /\ [m EXCEPT !.latch = TRUE] \in MetaType /\ SameContent(m, [m EXCEPT !.latch = TRUE])
           /\ Invalidated(m) \in MetaType /\ SameContent(m, Invalidated(m))
           /\ Unlatched(m) \in MetaType /\ SameContent(m, Unlatched(m))
           /\ Forgotten(m) \in MetaType /\ SameContent(m, Forgotten(m))
           /\ \A d \in Known, e \in Versioned :
                  /\ LocalContent(m, d, e) \in MetaType
                  /\ LocalContent(m, d, e).base = d /\ LocalContent(m, d, e).ver = e
<1> USE KnownFacts
<1>1. \A d \in Known : [m EXCEPT !.hash = d] \in MetaType /\ SameContent(m, [m EXCEPT !.hash = d])
  BY DEF MetaType, SameContent
<1>2. \A e \in Versioned : [m EXCEPT !.etag = e] \in MetaType /\ SameContent(m, [m EXCEPT !.etag = e])
  BY DEF MetaType, SameContent
<1>3. [m EXCEPT !.latch = TRUE] \in MetaType /\ SameContent(m, [m EXCEPT !.latch = TRUE])
  BY Zenon DEF MetaType, SameContent
<1>4. Invalidated(m) \in MetaType /\ SameContent(m, Invalidated(m))
  BY Zenon DEF MetaType, SameContent, Invalidated
<1>5. Unlatched(m) \in MetaType /\ SameContent(m, Unlatched(m))
  BY Zenon DEF MetaType, SameContent, Unlatched
<1>6. Forgotten(m) \in MetaType /\ SameContent(m, Forgotten(m))
  BY Zenon DEF MetaType, SameContent, Forgotten, Versioned
<1>7. \A d \in Known, e \in Versioned :
         /\ LocalContent(m, d, e) \in MetaType
         /\ LocalContent(m, d, e).base = d /\ LocalContent(m, d, e).ver = e
  BY Zenon DEF MetaType, LocalContent
<1> QED BY <1>1, <1>2, <1>3, <1>4, <1>5, <1>6, <1>7

LEMMA EmptyRecords ==
    ASSUME CopyShape
    PROVE  /\ NoMeta \in MetaType /\ NoNode \in NodeType /\ NoDl \in DlType
           /\ NoPoll \in PollType /\ NoUl \in UlType
           /\ \A m : SameContent(m, NoMeta)
BY KnownFacts DEF NoMeta, MetaType, NoNode, NodeType, NoDl, DlType, NoPoll, PollType, NoUl, UlType,
                  Versioned, Ids, SameContent

LEMMA Trans ==
    ASSUME NEW m, NEW n, NEW p, SameContent(m, n), SameContent(n, p)
    PROVE  SameContent(m, p)
BY Zenon DEF SameContent

\* One row is updated.
LEMMA MetaAt ==
    ASSUME MetaShape, UNCHANGED written, NEW i, NEW m \in MetaType,
           i \in Inodes => SameContent(meta[i], m), meta' = [meta EXCEPT ![i] = m]
    PROVE  MetaShape' /\ MetaKept
<1>1. MetaType' = MetaType BY Zenon DEF MetaType, Known
<1>2. MetaShape' BY Zenon, <1>1 DEF MetaShape
<1>3. \A j \in Inodes : meta'[j] = IF j = i THEN m ELSE meta[j] BY Zenon DEF MetaShape
<1>4. MetaKept BY Zenon, <1>3 DEF MetaKept, SameContent
<1> QED BY Zenon, <1>2, <1>4

LEMMA MetaSame ==
    ASSUME MetaShape, UNCHANGED <<written, meta>>
    PROVE  MetaShape' /\ MetaKept
BY Zenon DEF MetaShape, MetaType, Known, MetaKept, SameContent

LEMMA SetMetaAt ==
    ASSUME MetaShape, UNCHANGED written, NEW i, NEW m \in MetaType, SameContent(meta[i], m),
           SetMeta(i, m)
    PROVE  MetaShape' /\ MetaKept
<1>1. CASE i \in Present BY Zenon, <1>1, MetaAt DEF SetMeta
<1>2. CASE i \notin Present BY Zenon, <1>2, MetaSame DEF SetMeta
<1> QED BY Zenon, <1>1, <1>2

LEMMA CopySame ==
    ASSUME CopyShape, FileKept
    PROVE  CopyShape'
BY Zenon DEF CopyShape, FileKept, Known

LEMMA UlSame ==
    ASSUME UlShape, UNCHANGED <<written, ul, receipt>>
    PROVE  UlShape' /\ UlKept /\ ReceiptKept
BY Zenon DEF UlShape, UlType, Known, UlKept, ReceiptKept

LEMMA DlSame ==
    ASSUME DlShape, UNCHANGED <<written, dl>>
    PROVE  DlShape' /\ DlKept
BY Zenon DEF DlShape, DlType, Known, DlKept

LEMMA NodeSame ==
    ASSUME NodeShape, UNCHANGED <<written, node, poll, boot>>
    PROVE  NodeShape'
BY Zenon DEF NodeShape, NodeType, PollType, Known

LEMMA FreshReceiptsKept ==
    ASSUME CopyShape, UlShape, UNCHANGED <<written, ul>>, FreshReceipts
    PROVE  UlShape' /\ UlKept /\ ReceiptKept
<1>1. receipt' \in [RowIds -> Known] BY Zenon, KnownFacts DEF FreshReceipts, UlShape
<1>2. ReceiptKept BY Zenon DEF FreshReceipts, ReceiptKept
<1> QED BY Zenon, <1>1, <1>2 DEF UlShape, UlType, Known, UlKept

-----------------------------------------------------------------------------
(* The inode of the path.                                                  *)

LEMMA PathFacts ==
    ASSUME OnePath, NEW i \in PathIds
    PROVE  i \in Inodes /\ \A j \in Present : j = i
<1>1. CASE Present = {} BY Zenon, <1>1 DEF PathIds, FreshIds
<1>2. CASE Present # {} BY Zenon, <1>2 DEF PathIds, Present, OnePath
<1> QED BY Zenon, <1>1, <1>2

LEMMA UpsertPath ==
    ASSUME TypeOK, OnePath, NEW i \in Inodes, \A j \in Present : j = i, NEW s, s # "absent",
           NEW d, UpsertInode(i, s, d)
    PROVE  OnePath'
BY Zenon DEF UpsertInode, Present, TypeOK, OnePath

LEMMA SetInodePath ==
    ASSUME TypeOK, OnePath, NEW i \in Inodes, NEW s, s # "absent", NEW d, SetInode(i, s, d)
    PROVE  OnePath'
BY Zenon DEF SetInode, Present, TypeOK, OnePath

LEMMA ForgetPath ==
    ASSUME TypeOK, OnePath, NEW G, inode' = [i \in Inodes |-> IF i \in G THEN NoInode ELSE inode[i]]
    PROVE  OnePath'
BY Zenon DEF Present, TypeOK, OnePath, NoInode

LEMMA PathSame ==
    ASSUME OnePath, UNCHANGED inode
    PROVE  OnePath'
BY Zenon DEF OnePath, Present

-----------------------------------------------------------------------------
(* Every step is a step of the queue.                                      *)

LEMMA StatusMaps ==
    ASSUME NEW i \in Inodes, NEW s \in {"synced", "failed", "conflict"},
           SetInode(i, s, inode[i].dirty), UNCHANGED <<queue, worker>>
    PROVE  Next \/ UNCHANGED vars
<1>1. CASE inode[i].status = "absent" BY Zenon, <1>1 DEF SetInode, vars
<1>2. CASE inode[i].status # "absent"
  <2>1. SetSyncStatus(i) BY Zenon, <1>2 DEF SetSyncStatus, Statuses
  <2> QED BY Zenon, <2>1 DEF Next, Call
<1> QED BY Zenon, <1>1, <1>2

LEMMA ConflictMaps ==
    ASSUME NEW i \in Inodes, SetInode(i, "conflict", TRUE), UNCHANGED <<queue, worker>>
    PROVE  Next \/ UNCHANGED vars
<1>1. CASE inode[i].status = "absent" BY Zenon, <1>1 DEF SetInode, vars
<1>2. CASE inode[i].status # "absent"
  <2>1. MarkConflict(i) BY Zenon, <1>2 DEF MarkConflict
  <2> QED BY Zenon, <2>1 DEF Next, Call
<1> QED BY Zenon, <1>1, <1>2

LEMMA UploadMaps ==
    ASSUME NEW i \in Inodes, UpsertInode(i, "pending", TRUE), Enqueue(i, "upload", {}),
           UNCHANGED worker
    PROVE  Next
<1>1. QueueUpload(i) BY Zenon DEF QueueUpload, Enqueue
<1> QED BY Zenon, <1>1 DEF Next, Call

LEMMA UserMaps ==
    ASSUME User \/ Elsewhere
    PROVE  UNCHANGED vars
BY Zenon DEF User, UserWrite, UserDelete, UserRestore, Elsewhere, RemoteEdit, RemoteDelete,
    wbVars, vars

LEMMA ResolveMaps ==
    ASSUME Resolve
    PROVE  Next
<1>1. CASE resolveLocal
  <2>1. PICK i \in Present : /\ inode[i].status = "conflict" /\ SetInode(i, "pending", TRUE)
                             /\ Enqueue(i, "upload", RowsOf(i))
    BY Zenon, <1>1 DEF resolveLocal
  <2>2. i \in Inodes /\ ResolveLocal(i)
    BY Zenon, <1>1, <2>1 DEF resolveLocal, ResolveLocal, Present, Enqueue, resolveKeeps
  <2> QED BY Zenon, <2>2 DEF Next, Call
<1>2. CASE \E both \in BOOLEAN : resolveRemote(both)
  <2>1. PICK i \in Present : /\ inode[i].status = "conflict" /\ SetInode(i, "synced", FALSE)
                             /\ queue' = Without(RowsOf(i))
    BY Zenon, <1>2 DEF resolveRemote
  <2>2. i \in Inodes /\ ResolveRemote(i)
    BY Zenon, <1>2, <2>1 DEF resolveRemote, ResolveRemote, Present, resolveKeeps
  <2> QED BY Zenon, <2>2 DEF Next, Call
<1> QED BY Zenon, <1>1, <1>2 DEF Resolve

LEMMA WatcherMaps ==
    ASSUME TypeOK, OnePath, Watcher
    PROVE  Next \/ UNCHANGED vars
<1>1. CASE handleEvent
  <2>1. CASE handleWrite BY Zenon, <2>1 DEF handleWrite, wbVars, vars
  <2>2. CASE handleRemove
    <3>1. CASE watch.suppress \/ Present = {} BY Zenon, <2>2, <3>1 DEF handleRemove, wbVars, vars
    <3>2. CASE ~(watch.suppress \/ Present = {})
      <4>1. PICK i \in Present :
              IF inode[i].status \in {"synced", "conflict"}
              THEN Enqueue(i, "delete", {}) /\ UNCHANGED <<inode, worker>>
              ELSE /\ queue' = Without(RowsOf(i)) /\ inode' = [inode EXCEPT ![i] = NoInode]
                   /\ UNCHANGED worker
        BY Zenon, <2>2, <3>2 DEF handleRemove
      <4>2. i \in Inodes /\ inode[i].status \in Statuses /\ inode[i].status # "absent"
        BY DEF Present, TypeOK, Inode
      <4>3. CASE inode[i].status \in {"synced", "conflict"}
        <5>1. QueueDelete(i) BY Zenon, <4>1, <4>3 DEF QueueDelete, Enqueue
        <5> QED BY Zenon, <4>2, <5>1 DEF Next, Call
      <4>4. CASE inode[i].status \notin {"synced", "conflict"}
        <5>1. Forget(i) BY Zenon, <4>1, <4>2, <4>4 DEF Forget, Statuses
        <5> QED BY Zenon, <4>2, <5>1 DEF Next, Call
      <4> QED BY Zenon, <4>3, <4>4
    <3> QED BY Zenon, <3>1, <3>2
  <2> QED BY Zenon, <1>1, <2>1, <2>2 DEF handleEvent
<1>2. CASE syncFile
  <2>1. CASE UNCHANGED <<inode, wbVars>> BY Zenon, <2>1 DEF wbVars, vars
  <2>2. CASE \E i \in PathIds : /\ UpsertInode(i, "pending", TRUE) /\ Enqueue(i, "upload", {})
                                /\ UNCHANGED worker
    BY Zenon, <2>2, PathFacts, UploadMaps
  <2> QED BY Zenon, <1>2, <2>1, <2>2 DEF syncFile
<1>3. CASE SuppressEnd BY Zenon, <1>3 DEF SuppressEnd, wbVars, vars
<1> QED BY Zenon, <1>1, <1>2, <1>3 DEF Watcher

LEMMA WritesMap ==
    ASSUME NEW w \in Workers, Writes(w) \/ startFlush(w) \/ transferError(w)
    PROVE  Next \/ UNCHANGED vars
<1>1. CASE startEntry(w) BY Zenon, <1>1 DEF startEntry, Next, Progress
<1>2. CASE Answer(w) BY Zenon, <1>2 DEF Answer
<1>3. CASE recordUploaded(w) BY Zenon, <1>3 DEF recordUploaded, Next, Progress
<1>4. CASE settleUpload(w) BY Zenon, <1>4 DEF settleUpload, Next, Progress, Kinds
<1>5. CASE settleDelete(w) BY Zenon, <1>5 DEF settleDelete, Next, Progress
<1>6. CASE batchStep(w) BY Zenon, <1>6 DEF batchStep, Next, Progress
<1>7. CASE startFlush(w) BY Zenon, <1>7 DEF startFlush, Next
<1>8. CASE transferError(w) BY Zenon, <1>8 DEF transferError, Next, Progress
<1> QED BY Zenon, <1>1, <1>2, <1>3, <1>4, <1>5, <1>6, <1>7, <1>8 DEF Writes

LEMMA PollerMaps ==
    ASSUME TypeOK, OnePath, NodeShape, Poller
    PROVE  Next \/ UNCHANGED vars
<1>1. CASE pollList BY Zenon, <1>1 DEF pollList, pollerKeeps, vars
<1>2. CASE pollApply
  <2>0. UNCHANGED <<queue, worker>> BY Zenon, <1>2 DEF pollApply, pollerKeeps
  <2>1. CASE pollExisting
    <3>1. node.id \in Inodes BY <2>1 DEF pollExisting, NodeShape, NodeType, Ids
    <3>2. UNCHANGED inode \/ SetInode(node.id, "conflict", inode[node.id].dirty)
      BY Zenon, <2>1 DEF pollExisting
    <3> QED BY Zenon, <2>0, <3>1, <3>2, StatusMaps DEF vars
  <2>2. CASE pollNew
    <3>1. PICK i \in PathIds : UpsertInode(i, "synced", FALSE) BY Zenon, <2>2 DEF pollNew
    <3>2. i \in Inodes /\ Listed(i) BY Zenon, <2>0, <3>1, PathFacts DEF Listed
    <3> QED BY Zenon, <3>2 DEF Next, Call
  <2>3. CASE pollGone
    <3>1. CASE UNCHANGED inode BY Zenon, <2>0, <3>1 DEF vars
    <3>2. CASE inode' = [i \in Inodes |-> NoInode]
      <4>1. CASE Present = {}
        <5>1. inode' = inode BY Zenon, <3>2, <4>1 DEF OnePath, TypeOK
        <5> QED BY Zenon, <2>0, <5>1 DEF vars
      <4>2. CASE Present # {}
        <5>1. PICK i \in Present : \A j \in Present : j = i BY Zenon, <4>2 DEF OnePath
        <5>2. i \in Inodes /\ inode[i].status # "absent" BY Zenon DEF Present
        <5>3. inode' = [inode EXCEPT ![i] = NoInode] BY Zenon, <3>2, <5>1, <5>2 DEF OnePath, TypeOK
        <5>4. Prune(i) BY Zenon, <2>0, <5>2, <5>3 DEF Prune
        <5> QED BY Zenon, <5>2, <5>4 DEF Next, Call
      <4> QED BY Zenon, <4>1, <4>2
    <3> QED BY Zenon, <2>3, <3>1, <3>2 DEF pollGone
  <2> QED BY Zenon, <1>2, <2>1, <2>2, <2>3 DEF pollApply
<1> QED BY Zenon, <1>1, <1>2 DEF Poller

LEMMA FetchNodeMaps ==
    ASSUME OnePath, NEW due, node.id \in Inodes, fetchNode(due), UNCHANGED worker
    PROVE  Next \/ UNCHANGED vars
<1>1. CASE dispatchDownload BY Zenon, <1>1 DEF dispatchDownload, vars
<1>2. CASE SetInode(node.id, "synced", inode[node.id].dirty) /\ UNCHANGED queue
  BY Zenon, <1>2, StatusMaps
<1>3. CASE protectLocalCollision
  <2>1. CASE enqueueLocalUpload BY Zenon, <2>1, PathFacts, UploadMaps DEF enqueueLocalUpload
  <2>2. CASE markLocalConflict(node.id) /\ UNCHANGED queue
    BY Zenon, <2>2, ConflictMaps DEF markLocalConflict
  <2> QED BY Zenon, <1>3, <2>1, <2>2 DEF protectLocalCollision
<1> QED BY Zenon, <1>1, <1>2, <1>3 DEF fetchNode

LEMMA DownloaderMaps ==
    ASSUME OnePath, NodeShape, DlShape, Downloader \/ fetchError
    PROVE  Next \/ UNCHANGED vars
<1>1. CASE walkForDownloads
  <2>1. node.id \in Inodes BY <1>1 DEF walkForDownloads, NodeShape, NodeType, Ids
  <2> QED BY Zenon, <1>1, <2>1, FetchNodeMaps DEF walkForDownloads, dlKeeps
<1>2. CASE downloadFile
  <2>1. dl.id \in Inodes /\ UNCHANGED <<queue, worker>> BY Zenon, <1>2 DEF downloadFile, DlShape, dlKeeps
  <2>2. UNCHANGED inode \/ SetInode(dl.id, "conflict", TRUE)
    BY Zenon, <1>2 DEF downloadFile, markLocalConflict
  <2> QED BY Zenon, <2>1, <2>2, ConflictMaps DEF vars
<1>3. CASE fetch \/ publish BY Zenon, <1>3 DEF fetch, publish, dlKeeps, vars
<1>4. CASE fetchError
  <2>1. dl.id \in Inodes /\ UNCHANGED <<queue, worker>> BY Zenon, <1>4 DEF fetchError, DlShape, dlKeeps
  <2> QED BY Zenon, <1>4, <2>1, StatusMaps DEF fetchError, vars
<1>5. CASE validateDownloadPublication
  <2>1. dl.id \in Inodes /\ UNCHANGED <<queue, worker>>
    BY Zenon, <1>5 DEF validateDownloadPublication, DlShape, dlKeeps
  <2>2. UNCHANGED inode \/ SetInode(dl.id, "conflict", TRUE)
    BY Zenon, <1>5 DEF validateDownloadPublication, markLocalConflict
  <2> QED BY Zenon, <2>1, <2>2, ConflictMaps DEF vars
<1>6. CASE commitDownload
  <2>1. dl.id \in Inodes /\ UNCHANGED <<queue, worker>> /\ SetInode(dl.id, "synced", inode[dl.id].dirty)
    BY Zenon, <1>6 DEF commitDownload, DlShape, dlKeeps
  <2> QED BY Zenon, <2>1, StatusMaps
<1> QED BY Zenon, <1>1, <1>2, <1>3, <1>4, <1>5, <1>6 DEF Downloader

LEMMA HealMaps ==
    ASSUME OnePath, healEntry
    PROVE  Next \/ UNCHANGED vars
<1>0. UNCHANGED worker BY Zenon DEF healEntry, healKeeps
<1>1. ASSUME NEW i \in PathIds, queueNewFile(i) PROVE Next
  BY Zenon, <1>0, <1>1, PathFacts, UploadMaps DEF queueNewFile
<1>2. ASSUME NEW i \in Present, requeueUpload(i), inode[i].status \in {"synced", "failed"} PROVE Next
  <2>1. i \in Inodes /\ inode[i].status # "pending" BY Zenon, <1>2 DEF Present
  <2>2. Requeue(i) BY Zenon, <1>0, <1>2, <2>1 DEF requeueUpload, Requeue, Enqueue
  <2> QED BY Zenon, <2>1, <2>2 DEF Next, Call
<1>3. ASSUME NEW i \in Present, healSynced(i) PROVE Next \/ UNCHANGED vars
  <2>1. i \in Inodes BY Zenon DEF Present
  <2>2. CASE SetInode(i, "conflict", TRUE) /\ UNCHANGED queue BY Zenon, <1>0, <2>1, <2>2, ConflictMaps
  <2>3. CASE requeueUpload(i) /\ inode[i].status = "synced" BY Zenon, <1>2, <2>3
  <2> QED BY Zenon, <1>3, <2>2, <2>3 DEF healSynced
<1>4. ASSUME NEW i \in Present, inode[i].status = "pending", ~Active(i, "upload"),
             Enqueue(i, "upload", {}), UNCHANGED inode
      PROVE  Next
  <2>1. i \in Inodes /\ Requeue(i) BY Zenon, <1>0, <1>4 DEF Present, Requeue, Enqueue
  <2> QED BY Zenon, <2>1 DEF Next, Call
<1> QED BY Zenon, <1>1, <1>2, <1>3, <1>4 DEF healEntry

LEMMA BootMaps ==
    ASSUME TypeOK, OnePath, NodeShape, InitialSync \/ populateFails
    PROVE  Next \/ UNCHANGED vars
<1>0. UNCHANGED worker
  BY Zenon DEF InitialSync, populateRemoteTree, walkAndSync, scanLocalNewFiles, populateFails, bootKeeps
<1>1. CASE populateRemoteTree
  <2>0. UNCHANGED queue BY Zenon, <1>1 DEF populateRemoteTree
  <2>1. CASE UNCHANGED inode BY Zenon, <1>0, <2>0, <2>1 DEF vars
  <2>2. CASE srv.data # 0
    <3> DEFINE conf(i) == inodeDirty(i) /\ (inode[i].status = "conflict" \/ meta[i].etag # srv.etag)
    <3>1. PICK i \in PathIds :
            UpsertInode(i, CASE conf(i) -> "conflict"
                             [] inodeDirty(i) /\ ~conf(i) -> inode[i].status
                             [] OTHER -> "synced", inodeDirty(i))
      BY Zenon, <1>1, <2>2 DEF populateRemoteTree
    <3>2. i \in Inodes BY Zenon, PathFacts
    <3>3. CASE conf(i)
      <4>1. inodeDirty(i) = TRUE /\ UpsertInode(i, "conflict", TRUE) BY Zenon, <3>1, <3>3 DEF inodeDirty
      <4>2. inode' = [inode EXCEPT ![i] = [status |-> "conflict", dirty |-> TRUE]]
        BY Zenon, <4>1 DEF UpsertInode
      <4>3. inode[i].status # "absent" BY Zenon, <3>3 DEF inodeDirty, Present
      <4>4. MarkConflict(i) BY Zenon, <1>0, <2>0, <4>2, <4>3 DEF MarkConflict, SetInode
      <4> QED BY Zenon, <3>2, <4>4 DEF Next, Call
    <3>4. CASE inodeDirty(i) /\ ~conf(i)
      <4>1. UpsertInode(i, inode[i].status, inodeDirty(i)) BY Zenon, <3>1, <3>4
      <4>2. inode[i].dirty /\ inode[i] \in Inode BY Zenon, <3>2, <3>4 DEF inodeDirty, TypeOK
      <4>3. inode' = [inode EXCEPT ![i] = [status |-> inode[i].status, dirty |-> TRUE]]
        BY Zenon, <4>1, <4>2 DEF UpsertInode
      <4>4. inode[i] = [status |-> inode[i].status, dirty |-> TRUE] BY Zenon, <4>2 DEF Inode
      <4>5. inode' = inode BY Zenon, <4>3, <4>4 DEF TypeOK
      <4> QED BY Zenon, <1>0, <2>0, <4>5 DEF vars
    <3>5. CASE ~inodeDirty(i)
      <4>1. inodeDirty(i) = FALSE BY Zenon, <3>5 DEF inodeDirty
      <4>2. UpsertInode(i, "synced", FALSE) BY Zenon, <3>1, <3>5, <4>1
      <4>3. Listed(i) BY Zenon, <1>0, <2>0, <4>2 DEF Listed
      <4> QED BY Zenon, <3>2, <4>3 DEF Next, Call
    <3> QED BY Zenon, <3>3, <3>4, <3>5
  <2> QED BY Zenon, <1>1, <2>1, <2>2 DEF populateRemoteTree
<1>2. CASE walkAndSync
  <2>1. CASE UNCHANGED <<inode, queue>> BY Zenon, <1>0, <2>1 DEF vars
  <2>2. CASE node.id # 0
    <3>1. node.id \in Inodes BY <2>2 DEF NodeShape, NodeType, Ids
    <3>2. CASE markLocalConflict(node.id) /\ UNCHANGED queue
      BY Zenon, <1>0, <3>1, <3>2, ConflictMaps DEF markLocalConflict
    <3>3. CASE fetchNode(TRUE) BY Zenon, <1>0, <3>1, <3>3, FetchNodeMaps
    <3> QED BY Zenon, <1>2, <2>1, <2>2, <3>2, <3>3 DEF walkAndSync
  <2> QED BY Zenon, <1>2, <2>1, <2>2 DEF walkAndSync
<1>3. CASE scanLocalNewFiles
  <2>1. CASE UNCHANGED <<inode, queue>> BY Zenon, <1>0, <2>1 DEF vars
  <2>2. CASE \E i \in PathIds : queueNewFile(i)
    BY Zenon, <1>0, <2>2, PathFacts, UploadMaps DEF queueNewFile
  <2> QED BY Zenon, <1>3, <2>1, <2>2 DEF scanLocalNewFiles
<1>4. CASE populateFails BY Zenon, <1>0, <1>4 DEF populateFails, vars
<1> QED BY Zenon, <1>1, <1>2, <1>3, <1>4 DEF InitialSync

LEMMA RestartMaps ==
    ASSUME restart
    PROVE  Next
<1> DEFINE gone == {i \in Present : inode[i].status \in {"failed", "rejected"} /\ local = 0}
<1>1. gone \in SUBSET Inodes /\ Restart(gone) BY Zenon DEF restart, Present
<1> QED BY Zenon, <1>1 DEF Next

LEMMA SNextMaps ==
    ASSUME FileShape, OnePath, IInv, [SNext]_svars
    PROVE  [Next]_vars
<1>0. TypeOK /\ NodeShape /\ DlShape BY Zenon DEF IInv, FileShape
<1>1. CASE UNCHANGED svars BY Zenon, <1>1 DEF svars, vars
<1>2. CASE User \/ Elsewhere BY Zenon, <1>2, UserMaps
<1>3. CASE Resolve BY Zenon, <1>3, ResolveMaps
<1>4. CASE Watcher BY Zenon, <1>0, <1>4, WatcherMaps
<1>5. CASE Poller BY Zenon, <1>0, <1>5, PollerMaps
<1>6. CASE Downloader \/ fetchError BY Zenon, <1>0, <1>6, DownloaderMaps
<1>7. CASE healEntry BY Zenon, <1>7, HealMaps
<1>8. CASE InitialSync \/ populateFails BY Zenon, <1>0, <1>8, BootMaps
<1>9. CASE restart BY Zenon, <1>9, RestartMaps
<1>10. ASSUME NEW w \in Workers, Writes(w) \/ startFlush(w) \/ transferError(w) PROVE [Next]_vars
  BY Zenon, <1>10, WritesMap
<1> QED BY Zenon, <1>1, <1>2, <1>3, <1>4, <1>5, <1>6, <1>7, <1>8, <1>9, <1>10 DEF SNext, Fault

-----------------------------------------------------------------------------
(* Steps that are quiet about contents.                                    *)

CalmStep == FileShape' /\ OnePath' /\ Calm

LEMMA CalmInv ==
    ASSUME CalmStep, Versioning
    PROVE  SInv'
BY Zenon, VersioningKept DEF CalmStep, Calm, FileKept, SInv

LEMMA CalmKeeping ==
    ASSUME CalmStep, Keeping
    PROVE  Keeping'
BY Zenon, KeepingKept DEF CalmStep, Calm

\* The parts of a calm step.
LEMMA CalmParts ==
    ASSUME FileShape, FileKept, MetaShape' /\ MetaKept, NodeShape', DlShape' /\ DlKept,
           UlShape' /\ UlKept /\ ReceiptKept, OnePath'
    PROVE  CalmStep
BY Zenon, CopySame DEF FileShape, CalmStep, Calm

LEMMA WatcherCalm ==
    ASSUME FileShape, OnePath, TypeOK, Watcher
    PROVE  CalmStep
<1>0. CopyShape /\ MetaShape /\ NodeShape /\ DlShape /\ UlShape BY Zenon DEF FileShape
<1>1. FileKept /\ UNCHANGED <<node, dl, poll, boot, written>>
  BY Zenon DEF Watcher, handleEvent, syncFile, SuppressEnd, watcherKeeps, FileKept
<1>2. NodeShape' /\ DlShape' /\ DlKept BY Zenon, <1>0, <1>1, NodeSame, DlSame
<1>3. CASE UNCHANGED <<inode, wbVars, meta>>
  <2>1. UNCHANGED <<ul, receipt>> BY Zenon, <1>3 DEF wbVars
  <2> QED BY Zenon, <1>0, <1>1, <1>2, <1>3, <2>1, MetaSame, UlSame, PathSame, CalmParts
<1>4. CASE handleEvent /\ handleRemove /\ ~UNCHANGED <<inode, wbVars, meta>>
  <2>1. PICK i \in Present :
          IF inode[i].status \in {"synced", "conflict"}
          THEN Enqueue(i, "delete", {}) /\ UNCHANGED <<inode, ul, meta>>
          ELSE /\ inode' = [inode EXCEPT ![i] = NoInode] /\ meta' = [meta EXCEPT ![i] = NoMeta]
               /\ UNCHANGED <<ul, receipt>>
    BY Zenon, <1>4 DEF handleRemove, wbVars
  <2>2. CASE inode[i].status \in {"synced", "conflict"}
    <3>1. FreshReceipts /\ UNCHANGED <<inode, ul, meta>> BY Zenon, <2>1, <2>2 DEF Enqueue
    <3> QED BY Zenon, <1>0, <1>1, <1>2, <3>1, MetaSame, FreshReceiptsKept, PathSame, CalmParts
  <2>3. CASE inode[i].status \notin {"synced", "conflict"}
    <3>1. MetaShape' /\ MetaKept BY Zenon, <1>0, <1>1, <2>1, <2>3, EmptyRecords, MetaAt
    <3>2. inode' = [j \in Inodes |-> IF j \in {i} THEN NoInode ELSE inode[j]]
      BY Zenon, <2>1, <2>3 DEF TypeOK
    <3>3. OnePath' BY Zenon, <3>2, ForgetPath
    <3> QED BY Zenon, <1>0, <1>1, <1>2, <2>1, <2>3, <3>1, <3>3, UlSame, CalmParts
  <2> QED BY Zenon, <2>2, <2>3
<1>5. CASE syncFile /\ ~UNCHANGED <<inode, wbVars, meta>>
  <2>1. PICK i \in PathIds : /\ UpsertInode(i, "pending", TRUE) /\ Enqueue(i, "upload", {})
                             /\ meta' = [meta EXCEPT ![i].hash = local] /\ UNCHANGED ul
    BY Zenon, <1>5 DEF syncFile, wbVars
  <2>2. i \in Inodes /\ OnePath' BY Zenon, <2>1, PathFacts, UpsertPath
  <2> DEFINE m == [meta[i] EXCEPT !.hash = local]
  <2>3. meta[i] \in MetaType /\ local \in Known BY Zenon, <1>0, <2>2 DEF MetaShape, CopyShape
  <2>4. m \in MetaType /\ SameContent(meta[i], m) BY Zenon, <1>0, <2>3, MetaEdits
  <2>5. meta' = [meta EXCEPT ![i] = m] BY Zenon, <2>1
  <2>6. MetaShape' /\ MetaKept BY Zenon, <1>0, <1>1, <2>4, <2>5, MetaAt
  <2> QED BY Zenon, <1>0, <1>1, <1>2, <2>1, <2>2, <2>6, FreshReceiptsKept, CalmParts DEF Enqueue
<1> QED BY Zenon, <1>3, <1>4, <1>5 DEF Watcher, handleEvent, handleWrite, SuppressEnd

\* What a worker has in hand has an inode.
LEMMA CurFacts ==
    ASSUME TypeOK, NEW w \in Workers, NEW e \in worker[w].cur \cup worker[w].batch
    PROVE  e.id \in Inodes
<1>1. e \in Entry BY Zenon, CarriedType DEF Carried
<1> QED BY <1>1 DEF Entry

LEMMA EndUl ==
    ASSUME CopyShape, UlShape, UNCHANGED written, NEW w, ul' = [ul EXCEPT ![w] = NoUl],
           UNCHANGED receipt \/ FreshReceipts
    PROVE  UlShape' /\ UlKept /\ ReceiptKept
<1>1. \A v \in Workers : ul'[v] = IF v = w THEN NoUl ELSE ul[v] BY Zenon DEF UlShape
<1>2. ~NoUl.answered /\ NoUl.etag = NoEtag BY DEF NoUl
<1>5. UlKept BY Zenon, <1>1, <1>2 DEF UlKept
<1>3. ul' \in [Workers -> UlType] BY Zenon, EmptyRecords DEF UlShape
<1>4. receipt' \in [RowIds -> Known] /\ ReceiptKept
  BY Zenon, KnownFacts DEF FreshReceipts, UlShape, ReceiptKept
<1> QED BY Zenon, <1>3, <1>4, <1>5 DEF UlShape, UlType, Known

LEMMA SettleCalm ==
    ASSUME FileShape, OnePath, TypeOK, NEW w \in Workers,
           settleUpload(w) \/ settleDelete(w) \/ transferError(w)
    PROVE  CalmStep
<1>0. CopyShape /\ MetaShape /\ NodeShape /\ DlShape /\ UlShape BY Zenon DEF FileShape
<1>1. FileKept /\ UNCHANGED <<dl, poll, boot, written>> /\ ul' = [ul EXCEPT ![w] = NoUl]
  BY Zenon DEF settleUpload, settleDelete, transferError, workerKeeps, FileKept
<1>2. DlShape' /\ DlKept BY Zenon, <1>0, <1>1, DlSame
<1>3. UNCHANGED receipt \/ FreshReceipts BY Zenon DEF settleUpload, settleDelete, transferError
<1>4. UlShape' /\ UlKept /\ ReceiptKept BY Zenon, <1>0, <1>1, <1>3, EndUl
<1>5. OnePath'
  <2>1. \E e \in worker[w].cur : \E s \in {"synced", "pending", "failed"}, d \in {TRUE, FALSE, inode[e.id].dirty} :
          SetInode(e.id, s, d)
    BY Zenon DEF settleUpload, settleDelete, transferError, Settle, Resend, Defer, GiveUp
  <2>2. PICK e \in worker[w].cur, s \in {"synced", "pending", "failed"} : \E d : SetInode(e.id, s, d)
    BY Zenon, <2>1
  <2>3. PICK d : SetInode(e.id, s, d) BY Zenon, <2>2
  <2> QED BY Zenon, <2>2, <2>3, CurFacts, SetInodePath
<1>6. node' \in NodeType
  <2>1. node \in NodeType /\ ul[w].etag \in Versioned BY <1>0 DEF NodeShape, UlShape, UlType
  <2>2. \A b \in BOOLEAN : [node EXCEPT !.etag = ul[w].etag, !.dirty = b, !.conf = FALSE] \in NodeType
    BY Zenon, <2>1 DEF NodeType
  <2>3. [node EXCEPT !.conf = FALSE] \in NodeType BY Zenon, <2>1 DEF NodeType
  <2>4. CASE settleUpload(w) BY Zenon, <2>1, <2>2, <2>4 DEF settleUpload, NodeAfter
  <2>5. CASE settleDelete(w) BY Zenon, <2>1, <2>5 DEF settleDelete
  <2>6. CASE transferError(w) BY Zenon, <2>1, <2>3, <2>6 DEF transferError
  <2> QED BY Zenon, <2>4, <2>5, <2>6
<1>7. NodeShape' BY Zenon, <1>0, <1>1, <1>6 DEF NodeShape, NodeType, PollType, Known
<1>8. MetaShape' /\ MetaKept
  <2>1. CASE UNCHANGED meta BY Zenon, <1>0, <1>1, <2>1, MetaSame
  <2>2. CASE ~UNCHANGED meta
    <3>1. PICK e \in worker[w].cur, t \in {ul[w].etag, NoEtag} : SetMeta(e.id, [meta[e.id] EXCEPT !.etag = t])
      BY Zenon, <2>2 DEF settleUpload, settleDelete, transferError
    <3>2. t \in Versioned BY <1>0 DEF UlShape, UlType, Versioned
    <3>3. meta[e.id] \in MetaType BY Zenon, <1>0, CurFacts DEF MetaShape
    <3>4. 0 \in Known BY Zenon, <1>0, KnownFacts
    <3> QED BY Zenon, <1>0, <1>1, <3>1, <3>2, <3>3, <3>4, MetaEdits, SetMetaAt
  <2> QED BY Zenon, <2>1, <2>2
<1> QED BY Zenon, <1>1, <1>2, <1>4, <1>5, <1>7, <1>8, CalmParts

LEMMA StartCalm ==
    ASSUME FileShape, OnePath, TypeOK, NEW w \in Workers,
           startEntry(w) \/ batchStep(w) \/ startFlush(w)
    PROVE  CalmStep
<1>0. CopyShape /\ MetaShape /\ NodeShape /\ DlShape /\ UlShape BY Zenon DEF FileShape
<1>1. FileKept /\ UNCHANGED <<dl, poll, boot, written, meta, node, inode, receipt>>
  BY Zenon DEF startEntry, batchStep, startFlush, workerKeeps, FileKept, processEntry, FlushReturn,
         DequeueWriteback, Hold, EndBatch, FlushStart
<1>2. CASE UNCHANGED ul
  BY Zenon, <1>0, <1>1, <1>2, MetaSame, NodeSame, DlSame, UlSame, PathSame, CalmParts
<1>3. CASE startEntry(w)
  <2>1. PICK e \in worker'[w].cur :
          ul' = [ul EXCEPT ![w] =
                  [NoUl EXCEPT !.data = IF e.action = "upload" THEN Content(e.id) ELSE 0,
                               !.node = IF node.id = e.id THEN e.id ELSE 0]]
    BY Zenon, <1>3 DEF startEntry
  <2>2. worker'[w].cur \subseteq worker[w].batch
    <3>1. PICK f \in worker[w].batch :
            worker' = [worker EXCEPT ![w].batch = @ \ {f}, ![w].cur = {f},
                         ![w].pc = IF f.action = "upload" /\ inode[f.id].status = "absent"
                                   THEN "doomed" ELSE "sending"]
      BY Zenon, <1>3 DEF startEntry, processEntry
    <3>2. worker'[w].cur = {f} BY <3>1 DEF TypeOK, Worker
    <3> QED BY Zenon, <3>1, <3>2
  <2>3. e.id \in Inodes BY Zenon, <2>1, <2>2, CurFacts
  <2>4. meta[e.id] \in MetaType /\ local \in Known /\ 0 \in Known
    BY Zenon, <1>0, <2>3, KnownFacts DEF MetaShape, CopyShape
  <2>5. Content(e.id) \in Known BY <2>4 DEF Content, MetaType
  <2> DEFINE d == IF e.action = "upload" THEN Content(e.id) ELSE 0
             n == IF node.id = e.id THEN e.id ELSE 0
             u == [NoUl EXCEPT !.data = d, !.node = n]
  <2>6. d \in Known /\ n \in Ids BY Zenon, <2>3, <2>4, <2>5 DEF Ids
  <2> HIDE DEF d, n
  <2>7. u \in UlType /\ ~u.answered /\ u.etag = NoEtag BY Zenon, <2>6 DEF UlType, NoUl, Versioned
  <2>8. ul' = [ul EXCEPT ![w] = u] BY Zenon, <2>1 DEF d, n
  <2> HIDE DEF u
  <2>9. UlKept BY Zenon, <1>0, <2>7, <2>8 DEF UlKept, UlShape
  <2>10. UlShape' BY Zenon, <1>0, <1>1, <2>7, <2>8 DEF UlShape, UlType, Known
  <2>11. ReceiptKept BY Zenon, <1>1 DEF ReceiptKept
  <2> QED BY Zenon, <1>0, <1>1, <2>9, <2>10, <2>11, MetaSame, NodeSame, DlSame, PathSame, CalmParts
<1> QED BY Zenon, <1>2, <1>3 DEF batchStep, startFlush

\* The update of the row an action names, if it exists, and of its node.
LEMMA SetMetaEdit ==
    ASSUME CopyShape, MetaShape, UNCHANGED written, NEW i \in Inodes,
           \/ SetMeta(i, Unlatched(meta[i])) \/ SetMeta(i, [meta[i] EXCEPT !.latch = TRUE])
           \/ \E e \in Versioned : \/ SetMeta(i, [meta[i] EXCEPT !.etag = e])
                                   \/ SetMeta(i, [Unlatched(Invalidated(meta[i])) EXCEPT !.etag = e])
    PROVE  MetaShape' /\ MetaKept
<1>1. meta[i] \in MetaType BY Zenon DEF MetaShape
<1>2. Invalidated(meta[i]) \in MetaType /\ SameContent(meta[i], Invalidated(meta[i])) BY Zenon, <1>1, MetaEdits
<1>3. /\ Unlatched(Invalidated(meta[i])) \in MetaType
      /\ SameContent(meta[i], Unlatched(Invalidated(meta[i])))
  BY Zenon, <1>2, MetaEdits, Trans
<1>4. \A e \in Versioned : /\ [Unlatched(Invalidated(meta[i])) EXCEPT !.etag = e] \in MetaType
                           /\ SameContent(meta[i], [Unlatched(Invalidated(meta[i])) EXCEPT !.etag = e])
  BY Zenon, <1>3, MetaEdits, Trans
<1>5. CASE SetMeta(i, Unlatched(meta[i])) BY Zenon, <1>1, <1>5, MetaEdits, SetMetaAt
<1>6. CASE SetMeta(i, [meta[i] EXCEPT !.latch = TRUE]) BY Zenon, <1>1, <1>6, MetaEdits, SetMetaAt
<1>7. ASSUME NEW e \in Versioned, SetMeta(i, [meta[i] EXCEPT !.etag = e]) PROVE MetaShape' /\ MetaKept
  BY Zenon, <1>1, <1>7, MetaEdits, SetMetaAt
<1>8. ASSUME NEW e \in Versioned, SetMeta(i, [Unlatched(Invalidated(meta[i])) EXCEPT !.etag = e])
      PROVE  MetaShape' /\ MetaKept
  BY Zenon, <1>4, <1>8, SetMetaAt
<1> QED BY Zenon, <1>5, <1>6, <1>7, <1>8

\* The row of a listed path: its blob is forgotten and its etag is the listing's.
LEMMA ListedRow ==
    ASSUME CopyShape, MetaShape, UNCHANGED written, NEW i \in Inodes, NEW e \in Versioned,
           meta' = [meta EXCEPT ![i].hash = 0, ![i].etag = e]
    PROVE  MetaShape' /\ MetaKept
<1> DEFINE m == [[meta[i] EXCEPT !.hash = 0] EXCEPT !.etag = e]
<1>1. meta[i] \in MetaType /\ 0 \in Known BY Zenon, KnownFacts DEF MetaShape
<1>2. [meta[i] EXCEPT !.hash = 0] \in MetaType /\ SameContent(meta[i], [meta[i] EXCEPT !.hash = 0])
  BY Zenon, <1>1, MetaEdits
<1>3. m \in MetaType /\ SameContent(meta[i], m) BY Zenon, <1>2, MetaEdits, Trans
<1>4. meta' = [meta EXCEPT ![i] = m] BY Zenon DEF MetaShape
<1> QED BY Zenon, <1>3, <1>4, MetaAt

LEMMA NodeEdits ==
    ASSUME NodeShape
    PROVE  /\ node.etag \in Versioned /\ poll.etag \in Versioned /\ node.id \in Ids
           /\ [node EXCEPT !.conf = TRUE] \in NodeType
           /\ [node EXCEPT !.cached = TRUE] \in NodeType
           /\ [node EXCEPT !.dirty = TRUE, !.cached = FALSE, !.conf = TRUE] \in NodeType
           /\ [node EXCEPT !.conf = FALSE, !.dirty = TRUE] \in NodeType
           /\ [node EXCEPT !.conf = FALSE, !.dirty = FALSE, !.cached = FALSE] \in NodeType
           /\ \A i \in Ids : [node EXCEPT !.id = i, !.dirty = TRUE, !.cached = FALSE] \in NodeType
           /\ \A b \in BOOLEAN : [node EXCEPT !.cached = b] \in NodeType
           /\ \A e \in Versioned, b \in BOOLEAN : [node EXCEPT !.etag = e, !.cached = b] \in NodeType
           /\ \A i \in Ids, e \in Versioned : [NoNode EXCEPT !.id = i, !.etag = e] \in NodeType
           /\ \A i \in Ids, e \in Versioned, b, c \in BOOLEAN :
                 [NoNode EXCEPT !.id = i, !.etag = e, !.dirty = b, !.conf = c] \in NodeType
<1>1. node \in NodeType /\ poll.etag \in Versioned BY DEF NodeShape, PollType
<1>2. NoNode \in NodeType BY DEF NoNode, NodeType, Ids, Versioned
<1> QED BY Zenon, <1>1, <1>2 DEF NodeType

LEMMA NodeNew ==
    ASSUME NodeShape, node' \in NodeType, UNCHANGED <<written, poll>>,
           boot' \in {"list", "walk", "scan", "run"}
    PROVE  NodeShape'
BY Zenon DEF NodeShape, NodeType, PollType, Known

LEMMA PollCalm ==
    ASSUME FileShape, OnePath, TypeOK, pollList \/ (pollApply /\ (pollExisting \/ pollNew))
    PROVE  CalmStep
<1>0. CopyShape /\ MetaShape /\ NodeShape /\ DlShape /\ UlShape BY Zenon DEF FileShape
<1>1. FileKept /\ UNCHANGED <<dl, boot, written, ul, receipt>>
  BY Zenon DEF pollList, pollApply, pollExisting, pollNew, pollerKeeps, FileKept
<1>2. DlShape' /\ DlKept /\ UlShape' /\ UlKept /\ ReceiptKept BY Zenon, <1>0, <1>1, DlSame, UlSame
<1>3. poll' \in PollType
  <2>1. srv.data \in Known /\ srv.etag \in Versioned BY <1>0 DEF CopyShape
  <2>2. [pc |-> "listed", data |-> srv.data, etag |-> srv.etag] \in PollType BY <2>1 DEF PollType
  <2> QED BY Zenon, <1>0, <2>2, EmptyRecords DEF pollList, pollApply
<1>4. node' \in NodeType /\ OnePath' /\ MetaShape' /\ MetaKept
  <2>1. CASE pollList
    <3>1. UNCHANGED <<inode, meta, node>> BY Zenon, <2>1 DEF pollList
    <3> QED BY Zenon, <1>0, <1>1, <3>1, PathSame, MetaSame DEF NodeShape
  <2>2. CASE pollExisting
    <3>1. node.id \in Inodes BY <1>0, <2>2 DEF pollExisting, NodeShape, NodeType, Ids
    <3>2. node.cached \in BOOLEAN BY <1>0 DEF NodeShape, NodeType
    <3>3. CASE /\ node' = [node EXCEPT !.conf = TRUE] /\ UNCHANGED meta
               /\ UNCHANGED inode \/ SetInode(node.id, "conflict", inode[node.id].dirty)
      BY Zenon, <1>0, <1>1, <3>1, <3>3, NodeEdits, MetaSame, PathSame, SetInodePath
    <3>4. ASSUME NEW changed \in BOOLEAN, UNCHANGED inode,
                 node' = [node EXCEPT !.etag = poll.etag, !.cached = @ /\ ~changed],
                 SetMeta(node.id, [(IF changed THEN Unlatched(Invalidated(meta[node.id]))
                                     ELSE meta[node.id]) EXCEPT !.etag = poll.etag])
          PROVE  node' \in NodeType /\ OnePath' /\ MetaShape' /\ MetaKept
      <4>1. (node.cached /\ ~changed) \in BOOLEAN OBVIOUS
      <4>2. node' \in NodeType BY Zenon, <1>0, <3>4, <4>1, NodeEdits
      <4>3. poll.etag \in Versioned BY Zenon, <1>0, NodeEdits
      <4>4. MetaShape' /\ MetaKept BY Zenon, <1>0, <1>1, <3>1, <3>4, <4>3, SetMetaEdit
      <4> QED BY Zenon, <3>4, <4>2, <4>4, PathSame
    <3> DEFINE ch == node.etag # poll.etag
    <3>5. ch \in BOOLEAN OBVIOUS
    <3>6. CASE (node.dirty \/ inodeDirty(node.id)) /\ ch BY Zenon, <2>2, <3>3, <3>6 DEF pollExisting
    <3>7. CASE ~((node.dirty \/ inodeDirty(node.id)) /\ ch) BY Zenon, <2>2, <3>4, <3>5, <3>7 DEF pollExisting
    <3> QED BY Zenon, <3>6, <3>7
  <2>3. CASE pollNew
    <3>1. PICK i \in PathIds : /\ UpsertInode(i, "synced", FALSE)
                               /\ meta' = [meta EXCEPT ![i].hash = 0, ![i].etag = poll.etag]
                               /\ node' = [NoNode EXCEPT !.id = i, !.etag = poll.etag]
      BY Zenon, <2>3 DEF pollNew
    <3>2. i \in Inodes /\ i \in Ids /\ OnePath' BY Zenon, <3>1, PathFacts, UpsertPath DEF Ids
    <3>3. poll.etag \in Versioned BY Zenon, <1>0, NodeEdits
    <3> QED BY Zenon, <1>0, <1>1, <3>1, <3>2, <3>3, NodeEdits, ListedRow
  <2> QED BY Zenon, <2>1, <2>2, <2>3
<1>5. NodeShape' BY Zenon, <1>0, <1>1, <1>3, <1>4 DEF NodeShape, PollType, NodeType, Known
<1> QED BY Zenon, <1>1, <1>2, <1>4, <1>5, CalmParts

-----------------------------------------------------------------------------

LEMMA ConflictParts ==
    ASSUME CopyShape, MetaShape, NodeShape, OnePath, TypeOK, NEW i \in Inodes, markLocalConflict(i),
           UNCHANGED written
    PROVE  OnePath' /\ MetaShape' /\ MetaKept /\ node' \in NodeType
<1>1. OnePath' BY Zenon, SetInodePath DEF markLocalConflict
<1>2. MetaShape' /\ MetaKept BY Zenon, SetMetaEdit DEF markLocalConflict
<1>3. node' \in NodeType BY Zenon, NodeEdits DEF markLocalConflict, NodeShape
<1> QED BY Zenon, <1>1, <1>2, <1>3

\* The row and the file's new inode when the local file is queued again.
LEMMA ForgottenRow ==
    ASSUME CopyShape, MetaShape, UNCHANGED written, NEW i \in Inodes,
           meta' = [meta EXCEPT ![i] = Forgotten([@ EXCEPT !.hash = 0])]
    PROVE  MetaShape' /\ MetaKept
<1> DEFINE m == Forgotten([meta[i] EXCEPT !.hash = 0])
<1>1. meta[i] \in MetaType /\ 0 \in Known BY Zenon, KnownFacts DEF MetaShape
<1>2. [meta[i] EXCEPT !.hash = 0] \in MetaType /\ SameContent(meta[i], [meta[i] EXCEPT !.hash = 0])
  BY Zenon, <1>1, MetaEdits
<1>3. m \in MetaType /\ SameContent(meta[i], m) BY Zenon, <1>2, MetaEdits, Trans
<1>4. meta' = [meta EXCEPT ![i] = m] BY Zenon
<1> QED BY Zenon, <1>3, <1>4, MetaAt

LEMMA FetchNodeParts ==
    ASSUME FileShape, OnePath, TypeOK, NEW due, node.id \in Inodes, fetchNode(due),
           UNCHANGED <<written, ul>>
    PROVE  /\ OnePath' /\ MetaShape' /\ MetaKept /\ node' \in NodeType
           /\ DlShape' /\ DlKept /\ UlShape' /\ UlKept /\ ReceiptKept
<1>0. CopyShape /\ MetaShape /\ NodeShape /\ DlShape /\ UlShape BY Zenon DEF FileShape
<1>1. CASE dispatchDownload
  <2>1. UNCHANGED <<inode, meta, node, receipt>> BY Zenon, <1>1 DEF dispatchDownload
  <2> DEFINE n == [NoDl EXCEPT !.pc = "start", !.id = node.id, !.etag = node.etag]
  <2>2. node.etag \in Versioned /\ NoDl \in DlType /\ node.id \in Ids
    BY Zenon, <1>0, NodeEdits, EmptyRecords DEF Ids
  <2>3. n \in DlType /\ n.pc = "start" /\ n.id = node.id BY Zenon, <2>2 DEF DlType, NoDl
  <2>4. dl' = n BY Zenon, <1>1 DEF dispatchDownload
  <2> HIDE DEF n
  <2>5. DlShape' /\ DlKept BY Zenon, <2>3, <2>4 DEF DlShape, DlType, Known, DlKept
  <2> QED BY Zenon, <1>0, <2>1, <2>5, PathSame, MetaSame, UlSame DEF NodeShape
<1>2. CASE /\ node' = [node EXCEPT !.cached = TRUE] /\ SetInode(node.id, "synced", inode[node.id].dirty)
           /\ SetMeta(node.id, Unlatched(meta[node.id])) /\ UNCHANGED <<receipt, dl>>
  <2>1. OnePath' BY Zenon, <1>2, SetInodePath
  <2>2. MetaShape' /\ MetaKept BY Zenon, <1>0, <1>2, SetMetaEdit
  <2> QED BY Zenon, <1>0, <1>2, <2>1, <2>2, NodeEdits, UlSame, DlSame
<1>3. CASE protectLocalCollision
  <2>0. DlShape' /\ DlKept BY Zenon, <1>0, <1>3, DlSame DEF protectLocalCollision
  <2>1. CASE enqueueLocalUpload
    <3>1. PICK i \in PathIds :
            /\ UpsertInode(i, "pending", TRUE)
            /\ meta' = [meta EXCEPT ![i] = Forgotten([@ EXCEPT !.hash = 0])]
            /\ node' = [node EXCEPT !.id = i, !.dirty = TRUE, !.cached = FALSE]
            /\ Enqueue(i, "upload", {})
      BY Zenon, <2>1 DEF enqueueLocalUpload
    <3>2. i \in Inodes /\ i \in Ids /\ OnePath' BY Zenon, <3>1, PathFacts, UpsertPath DEF Ids
    <3>3. MetaShape' /\ MetaKept BY Zenon, <1>0, <3>1, <3>2, ForgottenRow
    <3>4. node' \in NodeType BY Zenon, <1>0, <3>1, <3>2, NodeEdits
    <3>5. UlShape' /\ UlKept /\ ReceiptKept BY Zenon, <1>0, <3>1, FreshReceiptsKept DEF Enqueue
    <3> QED BY Zenon, <2>0, <3>2, <3>3, <3>4, <3>5
  <2>2. CASE markLocalConflict(node.id) /\ UNCHANGED <<queue, receipt>>
    BY Zenon, <1>0, <2>0, <2>2, ConflictParts, UlSame
  <2> QED BY Zenon, <1>3, <2>1, <2>2 DEF protectLocalCollision
<1> QED BY Zenon, <1>1, <1>2, <1>3 DEF fetchNode

LEMMA WalkCalm ==
    ASSUME FileShape, OnePath, TypeOK, walkForDownloads
    PROVE  CalmStep
<1>0. NodeShape BY Zenon DEF FileShape
<1>1. FileKept /\ UNCHANGED <<poll, boot, written, ul>>
  BY Zenon DEF walkForDownloads, dlKeeps, FileKept
<1>2. node.id \in Inodes BY <1>0 DEF walkForDownloads, NodeShape, NodeType, Ids
<1>3. /\ OnePath' /\ MetaShape' /\ MetaKept /\ node' \in NodeType
      /\ DlShape' /\ DlKept /\ UlShape' /\ UlKept /\ ReceiptKept
  BY Zenon, <1>1, <1>2, FetchNodeParts DEF walkForDownloads
<1>4. NodeShape' BY Zenon, <1>0, <1>1, <1>3, NodeNew DEF NodeShape
<1> QED BY Zenon, <1>1, <1>3, <1>4, CalmParts

\* A download that ends, or is refused, without touching the file.
LEMMA DropCalm ==
    ASSUME FileShape, OnePath, TypeOK, downloadFile \/ fetchError \/ validateDownloadPublication,
           dl' = NoDl
    PROVE  CalmStep
<1>0. CopyShape /\ MetaShape /\ NodeShape /\ DlShape /\ UlShape BY Zenon DEF FileShape
<1>1. FileKept /\ UNCHANGED <<poll, boot, written, ul, receipt>>
  BY Zenon DEF downloadFile, fetchError, validateDownloadPublication, dlKeeps, FileKept
<1>2. dl.id \in Inodes
  BY Zenon, <1>0 DEF downloadFile, fetchError, validateDownloadPublication, DlShape
<1>3. DlShape' /\ DlKept
  <2>1. NoDl \in DlType BY Zenon, <1>0, EmptyRecords
  <2>2. NoDl.pc = "idle" BY DEF NoDl
  <2> QED BY Zenon, <1>1, <2>1, <2>2 DEF DlShape, DlType, Known, DlKept
<1>4. OnePath' /\ MetaShape' /\ MetaKept /\ node' \in NodeType
  <2>1. CASE UNCHANGED <<inode, meta, node>> BY Zenon, <1>0, <1>1, <2>1, PathSame, MetaSame DEF NodeShape
  <2>2. CASE markLocalConflict(dl.id) BY Zenon, <1>0, <1>1, <1>2, <2>2, ConflictParts
  <2>3. CASE /\ SetInode(dl.id, "failed", inode[dl.id].dirty) /\ UNCHANGED node
             /\ SetMeta(dl.id, [meta[dl.id] EXCEPT !.latch = TRUE])
    BY Zenon, <1>0, <1>1, <1>2, <2>3, SetInodePath, SetMetaEdit DEF NodeShape
  <2>4. \/ UNCHANGED <<inode, meta, node>> \/ markLocalConflict(dl.id)
        \/ /\ SetInode(dl.id, "failed", inode[dl.id].dirty) /\ UNCHANGED node
           /\ SetMeta(dl.id, [meta[dl.id] EXCEPT !.latch = TRUE])
    BY Zenon DEF downloadFile, fetchError, validateDownloadPublication
  <2> QED BY Zenon, <2>1, <2>2, <2>3, <2>4
<1>5. NodeShape' BY Zenon, <1>0, <1>1, <1>4, NodeNew DEF NodeShape
<1>6. UlShape' /\ UlKept /\ ReceiptKept BY Zenon, <1>0, <1>1, UlSame
<1> QED BY Zenon, <1>1, <1>3, <1>4, <1>5, <1>6, CalmParts

LEMMA NewFileParts ==
    ASSUME CopyShape, UlShape, OnePath, TypeOK, NEW i \in PathIds, queueNewFile(i), UNCHANGED <<written, ul>>
    PROVE  OnePath' /\ UNCHANGED meta /\ UlShape' /\ UlKept /\ ReceiptKept
<1>1. OnePath' BY Zenon, PathFacts, UpsertPath DEF queueNewFile
<1>2. UlShape' /\ UlKept /\ ReceiptKept BY Zenon, FreshReceiptsKept DEF queueNewFile, Enqueue
<1> QED BY Zenon, <1>1, <1>2 DEF queueNewFile

LEMMA HealCalm ==
    ASSUME FileShape, OnePath, TypeOK, healEntry
    PROVE  CalmStep
<1>0. CopyShape /\ MetaShape /\ NodeShape /\ DlShape /\ UlShape BY Zenon DEF FileShape
<1>1. FileKept /\ UNCHANGED <<node, dl, poll, boot, written, ul>> BY Zenon DEF healEntry, healKeeps, FileKept
<1>2. DlShape' /\ DlKept /\ NodeShape' BY Zenon, <1>0, <1>1, DlSame, NodeSame
<1> DEFINE Parts == OnePath' /\ MetaShape' /\ MetaKept /\ UlShape' /\ UlKept /\ ReceiptKept
<1>3. ASSUME NEW i \in PathIds, queueNewFile(i) PROVE Parts
  BY Zenon, <1>0, <1>1, <1>3, NewFileParts, MetaSame
<1>4. ASSUME NEW i \in Present, requeueUpload(i) PROVE Parts
  <2>1. i \in Inodes /\ \A j \in Present : j = i BY Zenon DEF Present, OnePath
  <2>2. OnePath' BY Zenon, <1>4, <2>1, UpsertPath DEF requeueUpload
  <2>3. MetaShape' /\ MetaKept BY Zenon, <1>0, <1>1, <1>4, <2>1, ForgottenRow DEF requeueUpload
  <2>4. UlShape' /\ UlKept /\ ReceiptKept
    BY Zenon, <1>0, <1>1, <1>4, FreshReceiptsKept DEF requeueUpload, Enqueue
  <2> QED BY Zenon, <2>2, <2>3, <2>4
<1>5. ASSUME NEW i \in Present, healSynced(i) PROVE Parts
  <2>1. CASE SetInode(i, "conflict", TRUE) /\ UNCHANGED <<receipt, meta>>
    <3>1. i \in Inodes BY Zenon DEF Present
    <3> QED BY Zenon, <1>0, <1>1, <2>1, <3>1, SetInodePath, MetaSame, UlSame
  <2>2. CASE requeueUpload(i) BY Zenon, <1>4, <2>2
  <2> QED BY Zenon, <1>5, <2>1, <2>2 DEF healSynced
<1>6. ASSUME NEW i \in Present, Enqueue(i, "upload", {}), UNCHANGED <<inode, meta>> PROVE Parts
  BY Zenon, <1>0, <1>1, <1>6, PathSame, MetaSame, FreshReceiptsKept DEF Enqueue
<1>7. Parts BY Zenon, <1>3, <1>4, <1>5, <1>6 DEF healEntry
<1> QED BY Zenon, <1>1, <1>2, <1>7, CalmParts

LEMMA ResolveLocalCalm ==
    ASSUME FileShape, OnePath, TypeOK, resolveLocal
    PROVE  CalmStep
<1>0. CopyShape /\ MetaShape /\ NodeShape /\ DlShape /\ UlShape BY Zenon DEF FileShape
<1>1. FileKept /\ UNCHANGED <<meta, dl, poll, boot, written, ul>>
  BY Zenon DEF resolveLocal, resolveKeeps, FileKept
<1>2. PICK i \in Present :
        /\ SetInode(i, "pending", TRUE) /\ Enqueue(i, "upload", RowsOf(i))
        /\ node' = IF node.id = i THEN [node EXCEPT !.conf = FALSE, !.dirty = TRUE] ELSE node
  BY Zenon DEF resolveLocal
<1>3. i \in Inodes BY Zenon DEF Present
<1>4. OnePath' BY Zenon, <1>2, <1>3, SetInodePath
<1>5. UlShape' /\ UlKept /\ ReceiptKept BY Zenon, <1>0, <1>1, <1>2, FreshReceiptsKept DEF Enqueue
<1>6. node' \in NodeType BY Zenon, <1>0, <1>2, NodeEdits DEF NodeShape
<1>7. NodeShape' BY Zenon, <1>0, <1>1, <1>6, NodeNew DEF NodeShape
<1> QED BY Zenon, <1>0, <1>1, <1>4, <1>5, <1>7, DlSame, MetaSame, CalmParts

LEMMA RestartCalm ==
    ASSUME FileShape, OnePath, TypeOK, restart
    PROVE  CalmStep
<1>0. CopyShape /\ MetaShape /\ NodeShape /\ DlShape /\ UlShape BY Zenon DEF FileShape
<1>1. FileKept /\ UNCHANGED <<receipt, written>> BY Zenon DEF restart, FileKept
<1> DEFINE gone == {i \in Present : inode[i].status \in {"failed", "rejected"} /\ local = 0}
<1>2. /\ inode' = [i \in Inodes |-> IF i \in gone THEN NoInode ELSE inode[i]]
      /\ meta' = [i \in Inodes |-> IF i \in gone THEN NoMeta ELSE meta[i]]
  BY Zenon DEF restart, Restart
<1>3. OnePath' BY Zenon, <1>2, ForgetPath
<1>4. MetaKept BY Zenon, <1>0, <1>2, EmptyRecords DEF MetaKept, SameContent
<1>5. MetaShape'
  <2>1. \A i \in Inodes : meta[i] \in MetaType BY Zenon, <1>0 DEF MetaShape
  <2>2. NoMeta \in MetaType BY Zenon, <1>0, EmptyRecords
  <2>3. meta' \in [Inodes -> MetaType] BY Zenon, <1>2, <2>1, <2>2
  <2> QED BY Zenon, <1>1, <2>3 DEF MetaShape, MetaType, Known
<1>6. node' = NoNode /\ poll' = NoPoll /\ dl' = NoDl /\ boot' = "list" /\ ul' = [w \in Workers |-> NoUl]
  BY Zenon DEF restart
<1>7. NodeShape' BY Zenon, <1>0, <1>1, <1>6, EmptyRecords DEF NodeShape, NodeType, PollType, Known
<1>8. NoDl.pc = "idle" /\ ~NoUl.answered /\ NoUl.etag = NoEtag BY DEF NoDl, NoUl
<1>9. DlShape' /\ DlKept BY Zenon, <1>0, <1>1, <1>6, <1>8, EmptyRecords DEF DlShape, DlType, Known, DlKept
<1>10. UlShape' /\ UlKept /\ ReceiptKept
  BY Zenon, <1>0, <1>1, <1>6, <1>8, EmptyRecords DEF UlShape, UlType, Known, UlKept, ReceiptKept
<1> QED BY Zenon, <1>1, <1>3, <1>4, <1>5, <1>7, <1>9, <1>10, CalmParts

LEMMA BootCalm ==
    ASSUME FileShape, OnePath, TypeOK, InitialSync \/ populateFails
    PROVE  CalmStep
<1>0. CopyShape /\ MetaShape /\ NodeShape /\ DlShape /\ UlShape BY Zenon DEF FileShape
<1>1. FileKept /\ UNCHANGED <<poll, written, ul>> /\ boot' \in {"list", "walk", "scan", "run"}
  BY Zenon DEF InitialSync, populateRemoteTree, walkAndSync, scanLocalNewFiles, populateFails,
            bootKeeps, FileKept
<1> DEFINE Parts == /\ OnePath' /\ MetaShape' /\ MetaKept /\ node' \in NodeType
                    /\ DlShape' /\ DlKept /\ UlShape' /\ UlKept /\ ReceiptKept
<1>2. ASSUME UNCHANGED <<inode, meta, node, dl, receipt>> PROVE Parts
  BY Zenon, <1>0, <1>1, <1>2, PathSame, MetaSame, DlSame, UlSame DEF NodeShape
<1>3. ASSUME populateRemoteTree /\ srv.data # 0 PROVE Parts
  <2>1. PICK i \in PathIds :
          LET dirty == inodeDirty(i)
              conf == dirty /\ (inode[i].status = "conflict" \/ meta[i].etag # srv.etag)
              etag == IF dirty THEN meta[i].etag ELSE srv.etag
          IN /\ UpsertInode(i, CASE conf -> "conflict"
                                 [] dirty /\ ~conf -> inode[i].status
                                 [] OTHER -> "synced", dirty)
             /\ meta' = [meta EXCEPT ![i].hash = 0, ![i].etag = etag]
             /\ node' = [NoNode EXCEPT !.id = i, !.etag = etag, !.dirty = dirty, !.conf = conf]
    BY Zenon, <1>3 DEF populateRemoteTree
  <2> DEFINE dirty == inodeDirty(i)
             conf == dirty /\ (inode[i].status = "conflict" \/ meta[i].etag # srv.etag)
  <2>2. i \in Inodes /\ i \in Ids /\ \A j \in Present : j = i BY Zenon, PathFacts DEF Ids
  <2> DEFINE etag == IF dirty THEN meta[i].etag ELSE srv.etag
             s == CASE conf -> "conflict"
                    [] dirty /\ ~conf -> inode[i].status
                    [] OTHER -> "synced"
  <2>3. etag \in Versioned BY <1>0, <2>2 DEF MetaShape, MetaType, CopyShape
  <2>4. s # "absent" BY DEF inodeDirty, Present
  <2>10. inode[i] \in Inode BY Zenon, <2>2 DEF TypeOK
  <2>11. dirty \in BOOLEAN BY <2>10 DEF inodeDirty, Inode
  <2>12. conf \in BOOLEAN BY Zenon, <2>11
  <2>5. /\ UpsertInode(i, s, dirty) /\ meta' = [meta EXCEPT ![i].hash = 0, ![i].etag = etag]
        /\ node' = [NoNode EXCEPT !.id = i, !.etag = etag, !.dirty = dirty, !.conf = conf]
    BY Zenon, <2>1
  <2> HIDE DEF s, etag, dirty, conf
  <2>6. OnePath' BY Zenon, <2>2, <2>4, <2>5, UpsertPath
  <2>7. MetaShape' /\ MetaKept BY Zenon, <1>0, <1>1, <2>2, <2>3, <2>5, ListedRow
  <2>8. node' \in NodeType BY Zenon, <1>0, <2>2, <2>3, <2>5, <2>11, <2>12, NodeEdits
  <2>9. UNCHANGED <<dl, receipt>> BY Zenon, <1>3 DEF populateRemoteTree
  <2> QED BY Zenon, <1>0, <1>1, <2>6, <2>7, <2>8, <2>9, DlSame, UlSame
<1>4. ASSUME walkAndSync /\ ~UNCHANGED <<inode, meta, node, dl, receipt>> PROVE Parts
  <2>0. node.id # 0 BY Zenon, <1>4 DEF walkAndSync
  <2>1. node.id \in Inodes BY <1>0, <2>0 DEF NodeShape, NodeType, Ids
  <2>2. CASE markLocalConflict(node.id) /\ UNCHANGED <<receipt, dl>>
    BY Zenon, <1>0, <1>1, <2>1, <2>2, ConflictParts, DlSame, UlSame
  <2>3. CASE fetchNode(TRUE) BY Zenon, <1>1, <2>1, <2>3, FetchNodeParts
  <2> QED BY Zenon, <1>4, <2>2, <2>3 DEF walkAndSync
<1>5. ASSUME scanLocalNewFiles /\ ~UNCHANGED <<inode, meta, node, dl, receipt>> PROVE Parts
  <2>1. PICK i \in PathIds : queueNewFile(i) BY Zenon, <1>5 DEF scanLocalNewFiles
  <2>2. UNCHANGED <<node, dl>> BY Zenon, <1>5 DEF scanLocalNewFiles
  <2> QED BY Zenon, <1>0, <1>1, <2>1, <2>2, NewFileParts, MetaSame, DlSame DEF NodeShape
<1>6. Parts BY Zenon, <1>2, <1>3, <1>4, <1>5 DEF InitialSync, populateRemoteTree, populateFails
<1>7. NodeShape' BY Zenon, <1>0, <1>1, <1>6, NodeNew
<1> QED BY Zenon, <1>1, <1>6, <1>7, CalmParts
=============================================================================
