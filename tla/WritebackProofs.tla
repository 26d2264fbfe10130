-------------------------- MODULE WritebackProofs --------------------------
(***************************************************************************)
(* The safety properties of Writeback for every number of inodes, rows,    *)
(* flushers and retries.  They are inductive together, with the shape of   *)
(* what a worker carries (HandShape) added.                                *)
(***************************************************************************)
EXTENDS Writeback, FiniteSetTheorems, TLAPS

RowType == Row \cup {NoRow}

\* What a worker carries: nothing between batches, one entry during a transfer,
\* no row twice, and once its transfer is settled the row is gone.
HandShape ==
    \A w \in Workers :
        /\ worker[w].pc \in {"idle", "claim"} => Carried(w) = {}
        /\ worker[w].pc = "batch" => worker[w].cur = {}
        /\ worker[w].pc \in {"sending", "doomed", "settle"} =>
             \E e \in Entry : /\ worker[w].cur = {e}
                              /\ e \notin worker[w].batch \cup worker[w].held
        /\ worker[w].batch \cap worker[w].held = {}
        /\ \A e, f \in Carried(w) : e.row = f.row => e = f
        /\ worker[w].pc = "settle" => \A e \in worker[w].cur : e.row \notin Live

IInv == /\ TypeOK /\ ClaimExclusive /\ NoOrphanInProgress /\ CopiesAgree
        /\ RetryBudget /\ HandShape

-----------------------------------------------------------------------------
(* Rows and workers.                                                       *)

LEMMA RowFacts ==
    ASSUME TypeOK
    PROVE  /\ \A r \in RowIds : r \in Live <=> queue[r] \in Row
           /\ \A r \in Live : queue[r] \in Row
           /\ NoRow \notin Row
BY DEF TypeOK, Live, Row, NoRow

LEMMA NewRowType ==
    ASSUME NEW i \in Inodes, NEW a \in Kinds
    PROVE  /\ NewRow(i, a) \in Row
           /\ NewRow(i, a).state = "pending" /\ NewRow(i, a).attempts < MaxRetries
BY ConstantsAssumption DEF NewRow, Row, Kinds

LEMMA CarriedType ==
    ASSUME TypeOK, NEW w \in Workers
    PROVE  /\ worker[w] \in Worker
           /\ Carried(w) \subseteq Entry
           /\ InHand(w) \subseteq RowIds
BY DEF TypeOK, Worker, Carried, InHand, Entry

\* A step of a caller: the workers keep what they carry and every row stays,
\* goes, or is a new one that nobody carries.
LEMMA CallerStep ==
    ASSUME IInv, inode' \in [Inodes -> Inode], UNCHANGED worker,
           queue' \in [RowIds -> RowType],
           \A r \in RowIds :
              \/ queue'[r] = queue[r]
              \/ queue'[r] = NoRow
              \/ r \in FreeRows /\ \E i \in Inodes, a \in Kinds :
                                        queue'[r] = NewRow(i, a)
    PROVE  IInv'
<1>1. TypeOK'
  BY DEF IInv, TypeOK, RowType
<1>2. \A w \in Workers : Carried(w)' = Carried(w) /\ InHand(w)' = InHand(w)
  BY DEF Carried, InHand
<1>3. ClaimExclusive'
  BY <1>2 DEF IInv, ClaimExclusive
<1>4. \A r \in RowIds : /\ r \in Live' /\ queue'[r] # queue[r]
                        => /\ r \in FreeRows /\ queue'[r].state = "pending"
                           /\ queue'[r].attempts < MaxRetries
  BY NewRowType DEF Live, NoRow
<1>5. \A r \in RowIds : r \in FreeRows => r \notin Live
  BY DEF FreeRows
<1>6. NoOrphanInProgress'
  BY <1>2, <1>4 DEF IInv, NoOrphanInProgress, Live
<1>7. CopiesAgree'
  <2> SUFFICES ASSUME NEW w \in Workers, NEW e \in Carried(w), e.row \in Live'
               PROVE  queue'[e.row].state = "in_progress" /\ EntryOf(e.row)' = e
    BY <1>2 DEF CopiesAgree
  <2>1. e.row \in InHand(w) /\ e.row \in RowIds
    BY DEF InHand, Live
  <2>2. e.row \notin FreeRows
    BY <2>1 DEF FreeRows
  <2>3. queue'[e.row] = queue[e.row] /\ e.row \in Live
    BY <2>1, <2>2, <1>4 DEF Live
  <2> QED
    BY <2>3 DEF IInv, CopiesAgree, EntryOf
<1>8. RetryBudget'
  BY <1>4 DEF IInv, RetryBudget, Live
<1>9. HandShape'
  <2> SUFFICES ASSUME NEW w \in Workers, worker[w].pc = "settle",
                      NEW e \in worker[w].cur
               PROVE  e.row \notin Live'
    BY <1>2 DEF HandShape, IInv, Carried
  <2>1. e.row \in InHand(w) /\ e.row \notin Live
    BY DEF InHand, Carried, IInv, HandShape
  <2>2. e.row \notin FreeRows
    BY <2>1 DEF FreeRows
  <2> QED
    BY <2>1, <2>2, <1>4 DEF Live
<1> QED
  BY <1>1, <1>3, <1>6, <1>7, <1>8, <1>9 DEF IInv

-----------------------------------------------------------------------------
(* Steps of a worker.                                                      *)

Hand(n) == n.batch \cup n.held \cup n.cur

\* HandShape for one worker in state n, over the live rows L.
Shape(n, L) ==
    /\ n.pc \in {"idle", "claim"} => Hand(n) = {}
    /\ n.pc = "batch" => n.cur = {}
    /\ n.pc \in {"sending", "doomed", "settle"} =>
         \E e \in Entry : n.cur = {e} /\ e \notin n.batch \cup n.held
    /\ n.batch \cap n.held = {}
    /\ \A e, f \in Hand(n) : e.row = f.row => e = f
    /\ n.pc = "settle" => \A e \in n.cur : e.row \notin L

\* A step of worker w that claims nothing new: the others keep what they carry,
\* rows outside w's hand change as in a caller's step, what w still carries is
\* untouched or gone and what it lets go of is no longer in progress.
LEMMA WorkerStep ==
    ASSUME IInv, NEW w \in Workers, NEW n \in Worker,
           inode' \in [Inodes -> Inode], queue' \in [RowIds -> RowType],
           worker' = [worker EXCEPT ![w] = n],
           Hand(n) \subseteq Carried(w), Shape(n, Live'),
           \A r \in RowIds \ InHand(w) :
              \/ queue'[r] = queue[r]
              \/ queue'[r] = NoRow
              \/ r \in FreeRows /\ \E i \in Inodes, a \in Kinds :
                                        queue'[r] = NewRow(i, a),
           \A e \in Hand(n) : queue'[e.row] \in {queue[e.row], NoRow},
           \A e \in Carried(w) \ Hand(n) :
              e.row \in Live' => /\ queue'[e.row].state # "in_progress"
                                 /\ \/ queue'[e.row].state = "failed"
                                    \/ queue'[e.row].attempts < MaxRetries
    PROVE  IInv'
<1>0. worker' \in [Workers -> Worker]
  BY DEF IInv, TypeOK
<1>1. TypeOK'
  BY <1>0 DEF IInv, TypeOK, RowType
<1>2. /\ worker'[w] = n /\ Carried(w)' = Hand(n)
      /\ \A v \in Workers \ {w} : worker'[v] = worker[v] /\ Carried(v)' = Carried(v)
  BY <1>1 DEF IInv, TypeOK, Carried, Hand
<1>3. /\ InHand(w)' \subseteq InHand(w)
      /\ \A v \in Workers \ {w} : InHand(v)' = InHand(v)
  BY <1>2 DEF InHand
<1>4. ClaimExclusive'
  BY <1>3 DEF IInv, ClaimExclusive
<1>5. \A r \in RowIds \ InHand(w) :
        r \in Live' /\ queue'[r] # queue[r]
          => /\ r \in FreeRows /\ queue'[r].state = "pending"
             /\ queue'[r].attempts < MaxRetries
  BY NewRowType DEF Live, NoRow
<1>6. \A v \in Workers \ {w} : \A e \in Carried(v) :
        /\ e.row \in RowIds \ InHand(w)
        /\ e.row \notin FreeRows
        /\ e.row \in Live' => e.row \in Live /\ queue'[e.row] = queue[e.row]
  <2> SUFFICES ASSUME NEW v \in Workers \ {w}, NEW e \in Carried(v)
               PROVE  /\ e.row \in RowIds \ InHand(w)
                      /\ e.row \notin FreeRows
                      /\ e.row \in Live' => /\ e.row \in Live
                                            /\ queue'[e.row] = queue[e.row]
    OBVIOUS
  <2>1. e.row \in InHand(v) /\ e.row \in RowIds
    BY CarriedType DEF InHand, IInv, Entry
  <2>2. e.row \notin InHand(w)
    BY <2>1 DEF IInv, ClaimExclusive
  <2>3. e.row \notin FreeRows
    BY <2>1 DEF FreeRows
  <2> QED
    BY <2>1, <2>2, <2>3, <1>5 DEF Live
<1>7. CopiesAgree'
  <2> SUFFICES ASSUME NEW v \in Workers, NEW e \in Carried(v)', e.row \in Live'
               PROVE  queue'[e.row].state = "in_progress" /\ EntryOf(e.row)' = e
    BY DEF CopiesAgree
  <2>1. e \in Carried(v) /\ e.row \in RowIds
    BY <1>2, CarriedType DEF Live
  <2>2. queue'[e.row] = queue[e.row] /\ e.row \in Live
    BY <2>1, <1>2, <1>6 DEF Live, NoRow
  <2> QED
    BY <2>1, <2>2 DEF IInv, CopiesAgree, EntryOf
<1>8. NoOrphanInProgress'
  <2> SUFFICES ASSUME NEW r \in Live', queue'[r].state = "in_progress"
               PROVE  \E v \in Workers : r \in InHand(v)'
    BY DEF NoOrphanInProgress
  <2>1. CASE r \in InHand(w)
    <3>1. PICK e \in Carried(w) : e.row = r
      BY <2>1 DEF InHand
    <3>2. e \in Hand(n)
      BY <3>1
    <3> QED
      BY <3>1, <3>2, <1>2 DEF InHand
  <2>2. CASE r \notin InHand(w)
    <3>1. r \in RowIds /\ queue'[r] = queue[r] /\ r \in Live
      BY <2>2, <1>5 DEF Live
    <3>2. PICK v \in Workers : r \in InHand(v)
      BY <3>1 DEF IInv, NoOrphanInProgress
    <3> QED
      BY <3>2, <2>2, <1>3
  <2> QED
    BY <2>1, <2>2
<1>9. RetryBudget'
  <2> SUFFICES ASSUME NEW r \in Live', queue'[r].state # "failed"
               PROVE  queue'[r].attempts < MaxRetries
    BY DEF RetryBudget
  <2>0. r \in RowIds
    BY DEF Live
  <2>1. CASE queue'[r] = queue[r]
    BY <2>0, <2>1 DEF IInv, RetryBudget, Live
  <2>2. CASE r \notin InHand(w)
    BY <2>0, <2>2, <2>1, <1>5
  <2>3. CASE r \in InHand(w) /\ queue'[r] # queue[r]
    BY <2>0, <2>3 DEF InHand, Live, NoRow
  <2> QED
    BY <2>1, <2>2, <2>3
<1>10. HandShape'
  <2>1. \A v \in Workers \ {w} : Shape(worker[v], Live)
    BY DEF IInv, HandShape, Shape, Hand, Carried
  <2>2. \A v \in Workers \ {w} : Shape(worker[v], Live')
    BY <2>1, <1>6 DEF Shape, Carried
  <2>3. \A v \in Workers : Shape(worker'[v], Live')
    BY <2>2, <1>2
  <2> QED
    BY <2>3 DEF HandShape, Shape, Hand, Carried
<1> QED
  BY <1>1, <1>4, <1>7, <1>8, <1>9, <1>10 DEF IInv

-----------------------------------------------------------------------------
(* The actions.                                                            *)

LEMMA EnqueueRows ==
    ASSUME IInv, NEW i \in Inodes, NEW a \in Kinds, NEW gone,
           EnqueueWriteback(i, a, gone)
    PROVE  /\ queue' \in [RowIds -> RowType]
           /\ \A r \in RowIds :
                \/ queue'[r] = queue[r]
                \/ queue'[r] = NoRow
                \/ r \in FreeRows /\ \E j \in Inodes, b \in Kinds :
                                          queue'[r] = NewRow(j, b)
<1>1. NextRow \in FreeRows
  BY DEF EnqueueWriteback, NextRow
<1>2. NextRow \in RowIds
  BY <1>1 DEF FreeRows
<1> QED
  BY <1>1, <1>2, NewRowType DEF IInv, TypeOK, EnqueueWriteback, Without, RowType

LEMMA WithoutRows ==
    ASSUME IInv, NEW gone, queue' = Without(gone)
    PROVE  /\ queue' \in [RowIds -> RowType]
           /\ \A r \in RowIds : queue'[r] \in {queue[r], NoRow}
BY DEF IInv, TypeOK, Without, RowType

LEMMA InodeWrites ==
    ASSUME IInv, NEW i \in Inodes, NEW s \in Statuses, NEW d \in BOOLEAN,
           SetInode(i, s, d) \/ UpsertInode(i, s, d)
    PROVE  inode' \in [Inodes -> Inode]
<1>1. \A j \in Inodes : inode[j].dirty \in BOOLEAN
  BY DEF IInv, TypeOK, Inode
<1>2. [status |-> s, dirty |-> d] \in Inode
      /\ [status |-> s, dirty |-> inode[i].dirty \/ d] \in Inode
  BY <1>1 DEF Inode
<1> QED
  BY <1>2 DEF SetInode, UpsertInode, IInv, TypeOK

LEMMA InodeFacts ==
    ASSUME IInv
    PROVE  /\ NoInode \in Inode
           /\ \A i \in Inodes : inode[i].dirty \in BOOLEAN
           /\ {"synced", "pending", "rejected", "failed", "conflict"} \subseteq Statuses
BY DEF IInv, TypeOK, Inode, NoInode, Statuses

LEMMA CallInv ==
    ASSUME IInv, NEW i \in Inodes, Call(i)
    PROVE  IInv'
<1>0. "upload" \in Kinds /\ "delete" \in Kinds /\ IInv
  BY DEF Kinds
<1>1. CASE QueueUpload(i)
  BY <1>0, <1>1, EnqueueRows, InodeWrites, InodeFacts, CallerStep DEF QueueUpload
<1>2. CASE Reject(i)
  BY <1>0, <1>2, InodeWrites, InodeFacts, CallerStep DEF Reject, IInv, TypeOK, RowType
<1>3. CASE QueueDelete(i)
  BY <1>0, <1>3, EnqueueRows, CallerStep DEF QueueDelete, IInv, TypeOK
<1>4. CASE Forget(i)
  BY <1>0, <1>4, WithoutRows, InodeFacts, CallerStep DEF Forget, IInv, TypeOK
<1>5. CASE Prune(i)
  BY <1>0, <1>5, InodeFacts, CallerStep DEF Prune, IInv, TypeOK, RowType
<1>6. CASE Requeue(i)
  <2>1. inode' \in [Inodes -> Inode]
    BY <1>6, <1>0, InodeWrites, InodeFacts DEF Requeue, IInv, TypeOK
  <2>2. \E gone : EnqueueWriteback(i, "upload", gone)
    BY <1>6 DEF Requeue
  <2> QED
    BY <1>0, <1>6, <2>1, <2>2, EnqueueRows, CallerStep DEF Requeue
<1>7. CASE MarkConflict(i)
  BY <1>0, <1>7, InodeWrites, InodeFacts, CallerStep DEF MarkConflict, IInv, TypeOK, RowType
<1>8. CASE ResolveLocal(i)
  BY <1>0, <1>8, EnqueueRows, InodeWrites, InodeFacts, CallerStep DEF ResolveLocal
<1>9. CASE ResolveRemote(i)
  BY <1>0, <1>9, WithoutRows, InodeWrites, InodeFacts, CallerStep DEF ResolveRemote
<1>10. CASE RetryFailed(i)
  <2>1. CASE inode[i].dirty
    BY <1>0, <1>10, <2>1, EnqueueRows, InodeWrites, InodeFacts, CallerStep DEF RetryFailed
  <2>2. CASE ~inode[i].dirty
    BY <1>0, <1>10, <2>2, WithoutRows, InodeWrites, InodeFacts, CallerStep DEF RetryFailed
  <2> QED
    BY <2>1, <2>2
<1>11. CASE Listed(i)
  BY <1>0, <1>11, InodeWrites, InodeFacts, CallerStep DEF Listed, IInv, TypeOK, RowType
<1>12. CASE SetSyncStatus(i)
  <2>1. inode' \in [Inodes -> Inode]
    BY <1>12, InodeWrites, InodeFacts DEF SetSyncStatus
  <2> QED
    BY <1>0, <1>12, <2>1, CallerStep DEF SetSyncStatus, IInv, TypeOK, RowType
<1>13. CASE Create(i)
  BY <1>0, <1>13, InodeWrites, InodeFacts, CallerStep DEF Create, IInv, TypeOK, RowType
<1>14. CASE Flush(i)
  BY <1>0, <1>14, EnqueueRows, InodeWrites, InodeFacts, CallerStep DEF Flush
<1>15. CASE Unlink(i)
  BY <1>0, <1>15, WithoutRows, InodeFacts, CallerStep DEF Unlink, IInv, TypeOK
<1>16. CASE ClearFailed(i)
  <2>1. inode' \in [Inodes -> Inode]
    BY <1>16, InodeWrites, InodeFacts DEF ClearFailed
  <2> QED
    BY <1>0, <1>16, <2>1, WithoutRows, CallerStep DEF ClearFailed
<1> QED
  BY <1>1, <1>2, <1>3, <1>4, <1>5, <1>6, <1>7, <1>8, <1>9, <1>10, <1>11, <1>12,
     <1>13, <1>14, <1>15, <1>16 DEF Call

\* Worker steps that leave the table alone.
LEMMA QuietWorkerInv ==
    ASSUME IInv, NEW w \in Workers,
           FlushStart(w) \/ FlushReturn(w) \/ Hold(w) \/ processEntry(w)
    PROVE  IInv'
<1>0. /\ worker[w] \in Worker /\ Shape(worker[w], Live) /\ Live' = Live
      /\ inode' \in [Inodes -> Inode] /\ queue' \in [RowIds -> RowType]
      /\ UNCHANGED queue /\ IInv
      /\ worker \in [Workers -> Worker]
  BY DEF IInv, TypeOK, RowType, HandShape, Shape, Hand, Carried, Live,
         FlushStart, FlushReturn, Hold, processEntry
<1>1. CASE FlushStart(w)
  <2> DEFINE n == [worker[w] EXCEPT !.pc = "claim"]
  <2>1. n \in Worker /\ Hand(n) = Carried(w) /\ Shape(n, Live)
    BY <1>0, <1>1 DEF FlushStart, Worker, Shape, Hand, Carried
  <2>2. worker' = [worker EXCEPT ![w] = n]
    BY <1>0, <1>1 DEF FlushStart
  <2> HIDE DEF n
  <2> QED
    BY <1>0, <2>1, <2>2, WorkerStep
<1>2. CASE FlushReturn(w)
  <2> DEFINE n == [worker[w] EXCEPT !.pc = "idle"]
  <2>1. n \in Worker /\ Hand(n) = Carried(w) /\ Shape(n, Live)
    BY <1>0, <1>2 DEF FlushReturn, Worker, Shape, Hand, Carried
  <2>2. worker' = [worker EXCEPT ![w] = n]
    BY <1>0, <1>2 DEF FlushReturn
  <2> HIDE DEF n
  <2> QED
    BY <1>0, <2>1, <2>2, WorkerStep
<1>3. CASE Hold(w)
  <2>1. PICK e \in worker[w].batch :
          worker' = [worker EXCEPT ![w].batch = @ \ {e}, ![w].held = @ \cup {e}]
    BY <1>3 DEF Hold
  <2> DEFINE n == [worker[w] EXCEPT !.batch = @ \ {e}, !.held = @ \cup {e}]
  <2>2. n \in Worker
    BY <1>0 DEF Worker
  <2>a. /\ n.pc = "batch" /\ n.batch = worker[w].batch \ {e}
        /\ n.held = worker[w].held \cup {e} /\ n.cur = {} /\ worker[w].cur = {}
    BY <1>0, <1>3 DEF Hold, Worker, Shape
  <2>b. Hand(n) = Carried(w) /\ Carried(w) = Hand(worker[w])
    BY <2>a DEF Hand, Carried
  <2>3. Hand(n) = Carried(w) /\ Shape(n, Live)
    BY <1>0, <2>a, <2>b DEF Shape
  <2>4. worker' = [worker EXCEPT ![w] = n]
    BY <1>0, <2>1
  <2> HIDE DEF n
  <2> QED
    BY <1>0, <2>2, <2>3, <2>4, WorkerStep
<1>4. CASE processEntry(w)
  <2>1. PICK e \in worker[w].batch, p \in {"doomed", "sending"} :
          worker' = [worker EXCEPT ![w].batch = @ \ {e}, ![w].cur = {e}, ![w].pc = p]
    BY <1>4 DEF processEntry
  <2> DEFINE n == [worker[w] EXCEPT !.batch = @ \ {e}, !.cur = {e}, !.pc = p]
  <2>2. n \in Worker /\ e \in Entry
    BY <1>0 DEF Worker
  <2>a. /\ n.pc \in {"doomed", "sending"} /\ n.batch = worker[w].batch \ {e}
        /\ n.held = worker[w].held /\ n.cur = {e} /\ worker[w].cur = {}
    BY <1>0, <1>4 DEF processEntry, Worker, Shape
  <2>b. Hand(n) = Carried(w) /\ Carried(w) = Hand(worker[w])
    BY <2>a DEF Hand, Carried
  <2>3. Hand(n) = Carried(w) /\ Shape(n, Live)
    BY <1>0, <2>2, <2>a, <2>b DEF Shape
  <2>4. worker' = [worker EXCEPT ![w] = n]
    BY <1>0, <2>1
  <2> HIDE DEF n
  <2> QED
    BY <1>0, <2>2, <2>3, <2>4, WorkerStep
<1> QED
  BY <1>1, <1>2, <1>3, <1>4

\* The state of w after Done: cur is dropped, the rest of its hand stays.
LEMMA DoneShape ==
    ASSUME IInv, NEW w \in Workers, NEW L, Done(w),
           worker[w].pc \in {"sending", "doomed", "settle"}
    PROVE  \E n \in Worker, e \in Entry :
              /\ worker' = [worker EXCEPT ![w] = n]
              /\ worker[w].cur = {e} /\ e \in Carried(w)
              /\ Hand(n) = Carried(w) \ {e}
              /\ \A f \in Hand(n) : f.row # e.row
              /\ Shape(n, L)
<1> DEFINE n == [worker[w] EXCEPT !.pc = "batch", !.cur = {}]
<1>1. worker[w] \in Worker /\ Shape(worker[w], Live) /\ Carried(w) = Hand(worker[w])
  BY DEF IInv, TypeOK, HandShape, Shape, Hand, Carried
<1>2. PICK e \in Entry : /\ worker[w].cur = {e}
                         /\ e \notin worker[w].batch \cup worker[w].held
  BY <1>1 DEF Shape
<1>3. /\ n \in Worker /\ worker' = [worker EXCEPT ![w] = n]
      /\ n.pc = "batch" /\ n.cur = {}
      /\ n.batch = worker[w].batch /\ n.held = worker[w].held
  BY <1>1 DEF Worker, Done, IInv, TypeOK
<1>4. Hand(n) = Carried(w) \ {e} /\ e \in Carried(w)
  BY <1>2, <1>3 DEF Hand, Carried
<1>5. \A f \in Hand(n) : f.row # e.row
  BY <1>1, <1>4 DEF Shape
<1>6. Shape(n, L)
  BY <1>1, <1>3, <1>4 DEF Shape
<1> QED
  BY <1>2, <1>3, <1>4, <1>5, <1>6

LEMMA SucceedInv ==
    ASSUME IInv, NEW w \in Workers, Succeed(w)
    PROVE  IInv'
<1> DEFINE n == [worker[w] EXCEPT !.pc = "settle"]
<1>1. worker[w] \in Worker /\ Shape(worker[w], Live) /\ Carried(w) = Hand(worker[w])
  BY DEF IInv, TypeOK, HandShape, Shape, Hand, Carried
<1>2. /\ n \in Worker /\ worker' = [worker EXCEPT ![w] = n] /\ n.pc = "settle"
      /\ n.batch = worker[w].batch /\ n.held = worker[w].held
      /\ n.cur = worker[w].cur
  BY <1>1 DEF Worker, Succeed, IInv, TypeOK
<1>3. Hand(n) = Carried(w)
  BY <1>2 DEF Hand, Carried
<1>4. /\ queue' \in [RowIds -> RowType]
      /\ \A r \in RowIds : queue'[r] \in {queue[r], NoRow}
  BY WithoutRows DEF Succeed
<1>5. \A e \in n.cur : e.row \notin Live'
  BY <1>2 DEF Succeed, Without, Live, NoRow
<1>6. Shape(n, Live')
  BY <1>1, <1>2, <1>3, <1>5 DEF Shape, Succeed
<1>7. inode' \in [Inodes -> Inode]
  BY DEF Succeed, IInv, TypeOK
<1>8. \A e \in Carried(w) : e.row \in RowIds
  BY CarriedType DEF IInv, Entry
<1> HIDE DEF n
<1> QED
  BY <1>2, <1>3, <1>4, <1>6, <1>7, <1>8, WorkerStep

LEMMA SettleInv ==
    ASSUME IInv, NEW w \in Workers,
           Settle(w) \/ \E a \in Kinds : Resend(w, a)
    PROVE  IInv'
<1>1. Done(w) /\ worker[w].pc = "settle"
  BY DEF Settle, Resend
<1>2. PICK n \in Worker, e \in Entry :
         /\ worker' = [worker EXCEPT ![w] = n]
         /\ worker[w].cur = {e} /\ e \in Carried(w)
         /\ Hand(n) = Carried(w) \ {e}
         /\ \A f \in Hand(n) : f.row # e.row
         /\ Shape(n, Live')
  BY <1>1, DoneShape
<1>3. e.row \notin Live
  BY <1>1, <1>2 DEF IInv, HandShape
<1>4. e.row \in RowIds /\ e.id \in Inodes
  BY DEF Entry
<1>5. inode' \in [Inodes -> Inode]
  BY <1>2, <1>4, InodeWrites, InodeFacts DEF Settle, Resend
<1>6. /\ queue' \in [RowIds -> RowType]
      /\ \A r \in RowIds :
           \/ queue'[r] = queue[r]
           \/ queue'[r] = NoRow
           \/ r \in FreeRows /\ \E j \in Inodes, b \in Kinds :
                                     queue'[r] = NewRow(j, b)
  <2>1. CASE Settle(w)
    BY <2>1 DEF Settle, IInv, TypeOK, RowType
  <2>2. CASE \E a \in Kinds : Resend(w, a)
    BY <2>2, <1>2, <1>4, EnqueueRows DEF Resend
  <2> QED
    BY <2>1, <2>2
<1>7. \A f \in Carried(w) : f.row \in RowIds /\ f.row \notin FreeRows
  <2>1. \A f \in Carried(w) : f.row \in InHand(w)
    BY DEF InHand
  <2> QED
    BY <2>1, CarriedType DEF IInv, FreeRows
<1>8. e.row \notin Live'
  BY <1>2, <1>3, <1>6, <1>7 DEF Live, NoRow
<1> QED
  BY <1>2, <1>5, <1>6, <1>7, <1>8, WorkerStep

LEMMA ErrorInv ==
    ASSUME IInv, NEW w \in Workers, Defer(w) \/ GiveUp(w)
    PROVE  IInv'
<1>1. Done(w) /\ worker[w].pc \in {"sending", "doomed"}
  BY DEF Defer, GiveUp
<1>2. PICK n \in Worker, e \in Entry :
         /\ worker' = [worker EXCEPT ![w] = n]
         /\ worker[w].cur = {e} /\ e \in Carried(w)
         /\ Hand(n) = Carried(w) \ {e}
         /\ \A f \in Hand(n) : f.row # e.row
         /\ Shape(n, Live')
  BY <1>1, DoneShape
<1>3. e.row \in RowIds /\ e.id \in Inodes /\ e.attempts \in 0 .. MaxRetries
  BY DEF Entry
<1>4. inode' \in [Inodes -> Inode]
  <2>1. PICK s \in {"pending", "failed"} : SetInode(e.id, s, inode[e.id].dirty)
    BY <1>2 DEF Defer, GiveUp
  <2>2. s \in Statuses /\ inode[e.id].dirty \in BOOLEAN
    BY <1>3, InodeFacts
  <2> QED
    BY <1>3, <2>1, <2>2, InodeWrites
<1>5. e.row \in Live => /\ queue[e.row] \in Row /\ queue[e.row].attempts = e.attempts
                        /\ e.attempts < MaxRetries
  BY <1>2, RowFacts DEF IInv, CopiesAgree, RetryBudget, EntryOf
<1>6. PICK q \in RowType :
         /\ queue' = [queue EXCEPT ![e.row] = q]
         /\ e.row \in Live => \/ q.state = "failed"
                              \/ q.state = "pending" /\ q.attempts < MaxRetries
         /\ e.row \notin Live => q = queue[e.row]
  <2>1. CASE e.row \notin Live
    <3>1. UNCHANGED queue /\ queue[e.row] \in RowType
      BY <1>2, <1>3, <2>1 DEF Defer, GiveUp, IInv, TypeOK, RowType
    <3> QED
      BY <3>1, <2>1 DEF IInv, TypeOK
  <2>2. CASE e.row \in Live /\ Defer(w)
    <3>1. PICK d \in RetryDelays :
            /\ e.attempts + 1 < MaxRetries
            /\ queue' = [queue EXCEPT ![e.row] =
                  [@ EXCEPT !.state = "pending", !.due = d, !.attempts = e.attempts + 1]]
      BY <2>2, <1>2 DEF Defer
    <3> DEFINE q == [queue[e.row] EXCEPT !.state = "pending", !.due = d,
                                         !.attempts = e.attempts + 1]
    <3>2. d \in Int /\ e.attempts + 1 \in 0 .. MaxRetries
      BY <3>1, <1>3, ConstantsAssumption
    <3>3. q \in Row /\ q.state = "pending" /\ q.attempts < MaxRetries
      BY <1>5, <2>2, <3>1, <3>2 DEF Row
    <3>4. queue' = [queue EXCEPT ![e.row] = q]
      BY <3>1
    <3> QED
      BY <2>2, <3>3, <3>4 DEF RowType
  <2>3. CASE e.row \in Live /\ GiveUp(w)
    <3> DEFINE q == [queue[e.row] EXCEPT !.state = "failed",
                                         !.attempts = e.attempts + 1]
    <3>1. queue' = [queue EXCEPT ![e.row] = q]
      BY <2>3, <1>2 DEF GiveUp
    <3>2. e.attempts + 1 \in 0 .. MaxRetries
      BY <1>3, <1>5, <2>3, ConstantsAssumption
    <3>3. q \in Row /\ q.state = "failed"
      BY <1>5, <2>3, <3>2 DEF Row
    <3> QED
      BY <2>3, <3>1, <3>3 DEF RowType
  <2> QED
    BY <2>1, <2>2, <2>3
<1>7. /\ queue' \in [RowIds -> RowType] /\ queue'[e.row] = q
      /\ \A r \in RowIds \ {e.row} : queue'[r] = queue[r]
  BY <1>3, <1>6 DEF IInv, TypeOK, RowType
<1>8. e.row \in InHand(w) /\ \A f \in Carried(w) : f.row \in RowIds
  BY <1>2, CarriedType DEF InHand, IInv, Entry
<1>9. e.row \in Live' => e.row \in Live
  BY <1>3, <1>6, <1>7 DEF Live
<1>10. /\ \A r \in RowIds \ InHand(w) : queue'[r] = queue[r]
       /\ \A f \in Hand(n) : queue'[f.row] = queue[f.row]
  BY <1>2, <1>7, <1>8
<1>11. \A f \in Carried(w) \ Hand(n) :
         f.row \in Live' => /\ queue'[f.row].state # "in_progress"
                            /\ \/ queue'[f.row].state = "failed"
                               \/ queue'[f.row].attempts < MaxRetries
  BY <1>2, <1>6, <1>7, <1>9
<1> QED
  BY <1>2, <1>4, <1>7, <1>10, <1>11, WorkerStep

LEMMA RequeuedRows ==
    ASSUME IInv, NEW w \in Workers, NEW E \in SUBSET Carried(w)
    PROVE  /\ Requeued(E) \in [RowIds -> RowType]
           /\ \A r \in RowIds \ InHand(w) : Requeued(E)[r] = queue[r]
           /\ \A e \in E : e.row \in Live =>
                /\ Requeued(E)[e.row].state = "pending"
                /\ Requeued(E)[e.row].attempts < MaxRetries
           /\ \A r \in RowIds : Requeued(E)[r].state # "none" => r \in Live
<1> DEFINE Entries(r) == {e \in E : e.row = r}
           Kept(r) == (CHOOSE e \in E : e.row = r).attempts
           Back(r) == [queue[r] EXCEPT !.state = "pending", !.attempts = Kept(r)]
<1>1. ASSUME NEW r \in Live, \E e \in E : e.row = r
      PROVE  /\ r \in InHand(w) /\ r \in RowIds
             /\ Back(r) \in Row /\ Back(r).state = "pending"
             /\ Back(r).attempts < MaxRetries
  <2>1. PICK e \in E : e = (CHOOSE f \in E : f.row = r) /\ e.row = r
    BY <1>1
  <2>2. r \in InHand(w) /\ r \in RowIds
    BY <2>1 DEF InHand, Live
  <2>3. Kept(r) = queue[r].attempts
    BY <2>1 DEF IInv, CopiesAgree, EntryOf
  <2>4. /\ queue[r] \in Row /\ queue[r].state = "in_progress"
        /\ queue[r].attempts < MaxRetries
    BY <2>1, RowFacts DEF IInv, CopiesAgree, RetryBudget
  <2> QED
    BY <2>2, <2>3, <2>4 DEF Row
<1>2. \A r \in RowIds : Requeued(E)[r] = IF r \in Live /\ \E e \in E : e.row = r
                                         THEN Back(r) ELSE queue[r]
  BY DEF Requeued
<1> HIDE DEF Back
<1>3. \A r \in RowIds : Requeued(E)[r] \in RowType
  BY <1>1, <1>2 DEF IInv, TypeOK, RowType
<1>4. Requeued(E) \in [RowIds -> RowType]
  BY <1>3 DEF Requeued
<1>5. \A r \in RowIds \ InHand(w) : Requeued(E)[r] = queue[r]
  BY <1>1, <1>2
<1>6. \A e \in E : e.row \in Live => /\ Requeued(E)[e.row].state = "pending"
                                     /\ Requeued(E)[e.row].attempts < MaxRetries
  BY <1>1, <1>2
<1>7. \A r \in RowIds : Requeued(E)[r].state # "none" => r \in Live
  BY <1>2 DEF Live
<1> QED
  BY <1>4, <1>5, <1>6, <1>7

\* Both ends of a batch: everything w still carries is requeued.
LEMMA BatchEndInv ==
    ASSUME IInv, NEW w \in Workers, EndBatch(w) \/ Cancel(w)
    PROVE  IInv'
<1>1. worker[w] \in Worker /\ worker[w].pc = "batch" /\ worker[w].cur = {}
  BY DEF IInv, TypeOK, HandShape, EndBatch, Cancel
<1>2. queue' = Requeued(Carried(w))
  <2>1. CASE EndBatch(w)
    <3>1. Carried(w) = worker[w].held
      BY <1>1, <2>1 DEF EndBatch, Carried
    <3> QED
      BY <2>1, <3>1 DEF EndBatch
  <2>2. CASE Cancel(w)
    <3>1. Carried(w) = worker[w].batch \cup worker[w].held
      BY <1>1, <2>2 DEF Carried
    <3> QED
      BY <2>2, <3>1 DEF Cancel
  <2> QED
    BY <2>1, <2>2
<1>3. PICK p \in {"claim", "idle"} :
         worker' = [worker EXCEPT ![w] = [Idle EXCEPT !.pc = p]]
  <2>1. CASE EndBatch(w)
    BY <2>1 DEF EndBatch
  <2>2. CASE Cancel(w)
    <3>1. Idle = [Idle EXCEPT !.pc = "idle"]
      BY DEF Idle
    <3> QED
      BY <2>2, <3>1 DEF Cancel
  <2> QED
    BY <2>1, <2>2
<1> DEFINE n == [Idle EXCEPT !.pc = p]
<1>4. n \in Worker /\ Hand(n) = {} /\ Shape(n, Live')
  BY DEF Idle, Worker, Hand, Shape
<1>5. inode' \in [Inodes -> Inode]
  BY DEF EndBatch, Cancel, IInv, TypeOK
<1>6. /\ queue' \in [RowIds -> RowType]
      /\ \A r \in RowIds \ InHand(w) : queue'[r] = queue[r]
      /\ \A e \in Carried(w) : e.row \in Live =>
           queue'[e.row].state = "pending" /\ queue'[e.row].attempts < MaxRetries
      /\ \A r \in RowIds : queue'[r].state # "none" => r \in Live
  BY <1>2, RequeuedRows
<1>7. \A e \in Carried(w) : e.row \in Live' => e.row \in Live
  BY <1>6 DEF Live
<1> HIDE DEF n
<1> QED
  BY <1>3, <1>4, <1>5, <1>6, <1>7, WorkerStep DEF n

LEMMA DequeueInv ==
    ASSUME IInv, NEW w \in Workers, DequeueWriteback(w)
    PROVE  IInv'
<1>1. PICK S \in SUBSET Claimable(w) :
        /\ queue' = [r \in RowIds |->
                       IF r \in S THEN [queue[r] EXCEPT !.state = "in_progress"]
                                  ELSE queue[r]]
        /\ worker' = [worker EXCEPT ![w] =
                        [Idle EXCEPT !.pc = "batch",
                                     !.batch = {EntryOf(r) : r \in S},
                                     !.size = Cardinality(S)]]
  BY DEF DequeueWriteback
<1> DEFINE B == {EntryOf(r) : r \in S}
           n == [Idle EXCEPT !.pc = "batch", !.batch = B, !.size = Cardinality(S)]
<1>2. \A r \in S : /\ r \in RowIds /\ r \in Live /\ queue[r] \in Row
                   /\ queue[r].state = "pending" /\ queue[r].attempts < MaxRetries
  BY RowFacts DEF Claimable, Live, IInv, RetryBudget
<1>3. \A r \in S : EntryOf(r) \in Entry /\ EntryOf(r).row = r
  BY <1>2 DEF EntryOf, Entry, Row
<1>4. Cardinality(S) \in Nat
  BY <1>2, ConstantsAssumption, FS_Subset, FS_CardinalityType
<1>5. n \in Worker /\ n.pc = "batch" /\ n.batch = B /\ n.held = {} /\ n.cur = {}
  <2>1. B \in SUBSET Entry
    BY <1>3
  <2> HIDE DEF B
  <2> QED
    BY <2>1, <1>4 DEF Idle, Worker
<1>6. Hand(n) = B
  BY <1>5 DEF Hand
<1>7. worker' = [worker EXCEPT ![w] = n]
  BY <1>1
<1> HIDE DEF n
<1>8. /\ worker' \in [Workers -> Worker] /\ worker'[w] = n
      /\ \A v \in Workers \ {w} : worker'[v] = worker[v]
  BY <1>5, <1>7 DEF IInv, TypeOK
<1>9. Carried(w)' = B /\ \A v \in Workers \ {w} : Carried(v)' = Carried(v)
  BY <1>6, <1>8 DEF Carried, Hand
<1>10. InHand(w)' = S /\ \A v \in Workers \ {w} : InHand(v)' = InHand(v)
  BY <1>3, <1>9 DEF InHand
<1>11. \A r \in RowIds : /\ r \in S => /\ queue'[r] \in Row
                                       /\ queue'[r].state = "in_progress"
                                       /\ queue'[r].id = queue[r].id
                                       /\ queue'[r].action = queue[r].action
                                       /\ queue'[r].attempts = queue[r].attempts
                         /\ r \notin S => queue'[r] = queue[r]
  BY <1>1, <1>2 DEF Row
<1>12. Live' = Live
  BY <1>2, <1>11 DEF Live
<1>13. \A v \in Workers : S \cap InHand(v) = {}
  BY <1>2 DEF IInv, CopiesAgree, InHand
<1>14. Carried(w) = {} /\ InHand(w) = {}
  BY DEF DequeueWriteback, IInv, HandShape, InHand
<1>15. TypeOK'
  <2>1. queue' = [r \in RowIds |-> queue'[r]]
    BY <1>1
  <2>2. \A r \in RowIds : queue'[r] \in Row \cup {NoRow}
    BY <1>11 DEF IInv, TypeOK
  <2>3. inode' \in [Inodes -> Inode]
    BY DEF DequeueWriteback, IInv, TypeOK
  <2> QED
    BY <2>1, <2>2, <2>3, <1>8 DEF TypeOK
<1>16. ClaimExclusive'
  BY <1>10, <1>13 DEF IInv, ClaimExclusive
<1>17. NoOrphanInProgress'
  <2> SUFFICES ASSUME NEW r \in Live, queue'[r].state = "in_progress"
               PROVE  \E v \in Workers : r \in InHand(v)'
    BY <1>12 DEF NoOrphanInProgress
  <2>1. CASE r \in S
    BY <2>1, <1>10
  <2>2. CASE r \notin S
    <3>1. queue[r].state = "in_progress"
      BY <2>2, <1>11 DEF Live
    <3> QED
      BY <3>1, <1>10, <1>14 DEF IInv, NoOrphanInProgress
  <2> QED
    BY <2>1, <2>2
<1>18. CopiesAgree'
  <2> SUFFICES ASSUME NEW v \in Workers, NEW e \in Carried(v)', e.row \in Live
               PROVE  queue'[e.row].state = "in_progress" /\ EntryOf(e.row)' = e
    BY <1>12 DEF CopiesAgree
  <2>1. CASE v = w
    <3>1. PICK r \in S : e = EntryOf(r)
      BY <2>1, <1>9
    <3> QED
      BY <3>1, <1>2, <1>3, <1>11 DEF EntryOf
  <2>2. CASE v # w
    <3>1. e \in Carried(v) /\ e.row \in InHand(v) /\ e.row \in RowIds
      BY <2>2, <1>9 DEF InHand, Live
    <3>2. queue'[e.row] = queue[e.row]
      BY <3>1, <1>11, <1>13
    <3> QED
      BY <3>1, <3>2 DEF IInv, CopiesAgree, EntryOf
  <2> QED
    BY <2>1, <2>2
<1>19. RetryBudget'
  BY <1>2, <1>11, <1>12 DEF IInv, RetryBudget, Live
<1>20. HandShape'
  <2>1. \A v \in Workers \ {w} : Shape(worker[v], Live)
    BY DEF IInv, HandShape, Shape, Hand, Carried
  <2>2. Shape(n, Live)
    <3>1. \A e, f \in B : e.row = f.row => e = f
      BY Zenon, <1>3
    <3> HIDE DEF B
    <3> QED
      BY <1>5, <1>6, <3>1 DEF Shape
  <2>3. \A v \in Workers : Shape(worker'[v], Live')
    BY <2>1, <2>2, <1>8, <1>12
  <2> QED
    BY <2>3 DEF HandShape, Shape, Hand, Carried
<1> QED
  BY <1>15, <1>16, <1>17, <1>18, <1>19, <1>20 DEF IInv

\* With nothing carried and nothing in progress the invariant is about types
\* and retries only: the state after Init and after Restart.
LEMMA FreshInv ==
    ASSUME TypeOK, RetryBudget, worker = [w \in Workers |-> Idle],
           \A r \in Live : queue[r].state # "in_progress"
    PROVE  IInv
<1>1. \A w \in Workers : /\ worker[w] = Idle /\ Carried(w) = {} /\ InHand(w) = {}
  BY DEF Carried, InHand, Idle
<1>2. ClaimExclusive /\ NoOrphanInProgress /\ CopiesAgree
  BY <1>1 DEF ClaimExclusive, NoOrphanInProgress, CopiesAgree
<1>3. HandShape
  BY <1>1 DEF HandShape, Idle
<1> QED
  BY <1>2, <1>3 DEF IInv

LEMMA IdleType == Idle \in Worker
BY DEF Idle, Worker

LEMMA RestartInv ==
    ASSUME IInv, NEW gone \in SUBSET Inodes, Restart(gone)
    PROVE  IInv'
<1>1. \A r \in RowIds : queue'[r] = NoRow \/
         /\ r \in Live /\ queue[r].state # "failed"
         /\ queue'[r] = [queue[r] EXCEPT !.state = "pending"]
  BY DEF Restart
<1>2. \A r \in RowIds : queue'[r] = NoRow \/
         /\ queue'[r] \in Row /\ queue'[r].state = "pending"
         /\ queue'[r].attempts < MaxRetries
  <2>1. \A r \in Live : /\ queue[r] \in Row
                        /\ queue[r].state # "failed" => queue[r].attempts < MaxRetries
    BY RowFacts DEF IInv, RetryBudget
  <2>2. \A q \in Row : /\ [q EXCEPT !.state = "pending"] \in Row
                       /\ [q EXCEPT !.state = "pending"].state = "pending"
                       /\ [q EXCEPT !.state = "pending"].attempts = q.attempts
    BY DEF Row
  <2> SUFFICES ASSUME NEW r \in RowIds, queue'[r] # NoRow
               PROVE  /\ queue'[r] \in Row /\ queue'[r].state = "pending"
                      /\ queue'[r].attempts < MaxRetries
    OBVIOUS
  <2>3. /\ queue[r] \in Row /\ queue[r].attempts < MaxRetries
        /\ queue'[r] = [queue[r] EXCEPT !.state = "pending"]
    BY <1>1, <2>1
  <2> QED
    BY <2>2, <2>3
<1>3. queue' \in [RowIds -> Row \cup {NoRow}]
  BY <1>2 DEF Restart
<1>4. inode' \in [Inodes -> Inode]
  BY InodeFacts DEF Restart, IInv, TypeOK
<1>5. worker' = [w \in Workers |-> Idle] /\ worker' \in [Workers -> Worker]
  BY IdleType DEF Restart
<1>6. TypeOK' /\ RetryBudget' /\ \A r \in Live' : queue'[r].state # "in_progress"
  <2>1. TypeOK'
    BY Zenon, <1>3, <1>4, <1>5 DEF TypeOK
  <2>2. NoRow.state = "none"
    BY DEF NoRow
  <2>3. \A r \in Live' : queue'[r].state = "pending" /\ queue'[r].attempts < MaxRetries
    BY Zenon, <1>2, <2>2 DEF Live
  <2> QED
    BY Zenon, <2>1, <2>3 DEF RetryBudget
<1>7. (/\ TypeOK /\ RetryBudget /\ worker = [w \in Workers |-> Idle]
       /\ \A r \in Live : queue[r].state # "in_progress")'
  BY <1>5, <1>6
<1> QED
  BY <1>7, FreshInv, PTL

LEMMA TickInv ==
    ASSUME IInv, Tick
    PROVE  IInv'
<1>1. \A r \in RowIds : queue'[r] = Aged(r)
  BY DEF Tick
<1>2. \A r \in Live : /\ Aged(r) \in Row /\ Aged(r).state = queue[r].state
                      /\ Aged(r).id = queue[r].id
                      /\ Aged(r).action = queue[r].action
                      /\ Aged(r).attempts = queue[r].attempts
  BY RowFacts DEF Aged, Row, IInv
<1>3. \A r \in RowIds \ Live : Aged(r) = queue[r]
  BY DEF Aged
<1>4. Live' = Live /\ Live \subseteq RowIds
  BY <1>1, <1>2, <1>3 DEF Live
<1>5. UNCHANGED <<inode, worker>> /\ queue' = [r \in RowIds |-> Aged(r)]
  BY DEF Tick
<1>6. TypeOK'
  BY <1>2, <1>3, <1>5 DEF IInv, TypeOK
<1>7. \A w \in Workers : Carried(w)' = Carried(w) /\ InHand(w)' = InHand(w)
  BY <1>5 DEF Carried, InHand
<1>8. ClaimExclusive'
  BY <1>7 DEF IInv, ClaimExclusive
<1>9. NoOrphanInProgress'
  BY <1>1, <1>2, <1>4, <1>7 DEF IInv, NoOrphanInProgress
<1>10. CopiesAgree'
  BY <1>1, <1>2, <1>4, <1>7 DEF IInv, CopiesAgree, EntryOf
<1>11. RetryBudget'
  BY <1>1, <1>2, <1>4 DEF IInv, RetryBudget
<1>12. HandShape'
  <2>1. HandShape
    BY Zenon DEF IInv
  <2>2. \A v \in Workers : worker'[v] = worker[v] /\ Carried(v)' = Carried(v)
    BY Zenon, <1>5, <1>7
  <2> QED
    BY SMTT(30), <1>4, <2>1, <2>2 DEF HandShape
<1> QED
  BY <1>6, <1>8, <1>9, <1>10, <1>11, <1>12 DEF IInv

LEMMA InitInv == Init => IInv
<1> SUFFICES ASSUME Init PROVE IInv
  OBVIOUS
<1>1. Live = {} /\ worker = [w \in Workers |-> Idle]
  BY DEF Init, Live, NoRow
<1>2. TypeOK
  <2>1. NoInode \in Inode
    BY DEF NoInode, Inode, Statuses
  <2> QED
    BY <2>1, IdleType DEF Init, TypeOK
<1> QED
  BY <1>1, <1>2, FreshInv DEF RetryBudget

LEMMA NextInv == IInv /\ [Next]_vars => IInv'
<1> SUFFICES ASSUME IInv, [Next]_vars PROVE IInv'
  OBVIOUS
<1>1. CASE \E i \in Inodes : Call(i)
  BY <1>1, CallInv
<1>2. ASSUME NEW w \in Workers,
             FlushStart(w) \/ FlushReturn(w) \/ Hold(w) \/ processEntry(w)
      PROVE  IInv'
  BY <1>2, QuietWorkerInv
<1>3. ASSUME NEW w \in Workers, DequeueWriteback(w) PROVE IInv'
  BY <1>3, DequeueInv
<1>4. ASSUME NEW w \in Workers, Succeed(w) PROVE IInv'
  BY <1>4, SucceedInv
<1>5. ASSUME NEW w \in Workers, Settle(w) \/ \E a \in Kinds : Resend(w, a)
      PROVE  IInv'
  BY <1>5, SettleInv
<1>6. ASSUME NEW w \in Workers, Defer(w) \/ GiveUp(w) PROVE IInv'
  BY <1>6, ErrorInv
<1>7. ASSUME NEW w \in Workers, EndBatch(w) \/ Cancel(w) PROVE IInv'
  BY <1>7, BatchEndInv
<1>8. CASE \E gone \in SUBSET Inodes : Restart(gone)
  BY <1>8, RestartInv
<1>9. CASE Tick
  BY <1>9, TickInv
<1>10. CASE UNCHANGED vars
  <2>1. RowType = Row \cup {NoRow} /\ IInv /\ inode' \in [Inodes -> Inode]
        /\ queue' \in [RowIds -> RowType] /\ UNCHANGED <<queue, worker>>
    BY <1>10 DEF IInv, TypeOK, vars, RowType
  <2> QED
    BY <2>1, CallerStep
<1> QED
  BY <1>1, <1>2, <1>3, <1>4, <1>5, <1>6, <1>7, <1>8, <1>9, <1>10 DEF Next, Progress

-----------------------------------------------------------------------------
(* The theorems.                                                           *)

\* The inductive invariant holds in every state of every behaviour.
THEOREM Invariance == Spec => []IInv
BY InitInv, NextInv, PTL DEF Spec

\* Type correctness: attempts never exceed maxRetries, a worker only carries
\* entries made from rows.
THEOREM TypeCorrect == Spec => []TypeOK
<1>1. IInv => TypeOK
  BY DEF IInv
<1> QED
  BY <1>1, Invariance, PTL

\* However many FlushAll calls run beside the loop, no row is worked on twice
\* at once: DequeueWriteback marks what it returns in the same statement, and
\* only a worker that carries a row makes it pending again.
THEOREM ClaimsAreExclusive == Spec => []ClaimExclusive
<1>1. IInv => ClaimExclusive
  BY DEF IInv
<1> QED
  BY <1>1, Invariance, PTL

\* No row is stranded in progress: a held, cancelled, failed or crashed entry
\* always leaves its row claimable, failed or deleted.
THEOREM NothingStranded == Spec => []NoOrphanInProgress
<1>1. IInv => NoOrphanInProgress
  BY DEF IInv
<1> QED
  BY <1>1, Invariance, PTL

\* A worker's copy is never stale while its row exists, so the blind UPDATEs of
\* requeue and DeferWriteback are safe.
THEOREM CopiesStayCurrent == Spec => []CopiesAgree
<1>1. IInv => CopiesAgree
  BY DEF IInv
<1> QED
  BY <1>1, Invariance, PTL

\* Every row that can still be claimed has an attempt left.
THEOREM RetriesAreBounded == Spec => []RetryBudget
<1>1. IInv => RetryBudget
  BY DEF IInv
<1> QED
  BY <1>1, Invariance, PTL

\* Nothing takes a failed row up again.  A worker only writes to the rows it
\* carries, and those are in progress (CopiesAgree); a caller only replaces
\* pending rows and adds unused ones.
THEOREM FailedStaysFailed == Spec => FailedIsFinal
<1> DEFINE Final == \A r \in Live : queue[r].state = "failed" =>
                                       queue'[r].state \in {"failed", "none"}
<1>1. IInv /\ [Next]_vars => [Final]_vars
  <2> SUFFICES ASSUME IInv, Next, NEW r \in Live, queue[r].state = "failed"
               PROVE  queue'[r].state \in {"failed", "none"}
    BY DEF vars
  <2>0. /\ r \in RowIds /\ r \notin FreeRows
        /\ \A w \in Workers : \A e \in Carried(w) : e.row # r
    BY DEF Live, FreeRows, IInv, CopiesAgree
  <2>1. CASE UNCHANGED queue
    BY <2>1
  <2>2. CASE \E gone : queue' = Without(gone)
    BY <2>2, <2>0 DEF Without, NoRow
  <2>3. CASE \E i \in Inodes, a \in Kinds : \E gone : EnqueueWriteback(i, a, gone)
    <3>1. NextRow \in FreeRows
      BY <2>3 DEF EnqueueWriteback, NextRow
    <3> QED
      BY <2>3, <2>0, <3>1 DEF EnqueueWriteback, Without, NoRow
  <2>4. ASSUME NEW i \in Inodes, Call(i)
        PROVE  \/ UNCHANGED queue \/ \E gone : queue' = Without(gone)
               \/ \E a \in Kinds : \E gone : EnqueueWriteback(i, a, gone)
    BY <2>4 DEF Call, QueueUpload, Reject, QueueDelete, Forget, Prune, Listed,
                SetSyncStatus, Requeue, MarkConflict, ResolveLocal, ResolveRemote,
                RetryFailed, Create, Flush, Unlink, ClearFailed, Kinds
  <2>5. ASSUME NEW w \in Workers, DequeueWriteback(w)
        PROVE  queue'[r] = queue[r]
    BY <2>5, <2>0 DEF DequeueWriteback, Claimable
  <2>6. ASSUME NEW w \in Workers, Defer(w) \/ GiveUp(w)
        PROVE  queue'[r] = queue[r]
    <3>1. \A e \in worker[w].cur : e.row # r
      BY <2>0 DEF Carried
    <3> QED
      BY <2>6, <3>1, <2>0 DEF Defer, GiveUp, IInv, TypeOK
  <2>7. ASSUME NEW w \in Workers, EndBatch(w) \/ Cancel(w)
        PROVE  queue'[r] = queue[r]
    <3>1. \A e \in worker[w].batch \cup worker[w].held : e.row # r
      BY <2>0 DEF Carried
    <3> QED
      BY ZenonT(30), <2>7, <3>1, <2>0 DEF EndBatch, Cancel, Requeued
  <2>8. ASSUME NEW w \in Workers, NEW a \in Kinds, Resend(w, a)
        PROVE  \E i \in Inodes : \E gone : EnqueueWriteback(i, a, gone)
    BY <2>8, CarriedType DEF Resend, IInv, Carried, Entry
  <2>9. CASE \E gone \in SUBSET Inodes : Restart(gone)
    BY <2>9, <2>0 DEF Restart, NoRow
  <2>10. CASE Tick
    BY <2>10, <2>0, RowFacts DEF Tick, Aged, Row, IInv
  <2>11. ASSUME NEW w \in Workers, FlushStart(w) \/ FlushReturn(w) \/ Hold(w)
                                   \/ processEntry(w) \/ Settle(w)
         PROVE  UNCHANGED queue
    BY <2>11 DEF FlushStart, FlushReturn, Hold, processEntry, Settle
  <2>12. ASSUME NEW w \in Workers, Succeed(w)
         PROVE  \E gone : queue' = Without(gone)
    BY <2>12 DEF Succeed
  <2> QED
    BY <2>1, <2>2, <2>3, <2>4, <2>5, <2>6, <2>7, <2>8, <2>9, <2>10, <2>11, <2>12
       DEF Next, Progress
<1> QED
  BY <1>1, Invariance, PTL DEF Spec, FailedIsFinal
=============================================================================
