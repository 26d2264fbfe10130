------------------------------ MODULE PinProofs ------------------------------
(***************************************************************************)
(* The keys of others a client trusts: the seal pins and the signing pins   *)
(* of peers, for any number of processes, peers, key sets and changes.      *)
(***************************************************************************)
EXTENDS Pins, FiniteSetTheorems, TLAPS

-----------------------------------------------------------------------------
(* The seal pins.                                                           *)

Critical == {"load", "store", "release", "kept"}
SealPcs == {"identity", "check", "lock", "break", "load", "store", "release", "unlink", "kept",
            "unlinkKept"}
VerifyPcs == {"remember", "append", "trust", "seed", "foreign", "verify", "verifyPinned",
              "verifyFirst", "commit", "record"}

\* What the proof needs of the types.
ProcFields == {"pc", "now", "seeded", "friendSet", "peerBundles"}
CallFields == {"op", "peer", "bundle", "file", "copy", "todo", "asked", "answered"}
Shape ==
    /\ DOMAIN proc = Procs
    /\ \A i \in Procs : DOMAIN proc[i] = ProcFields /\ DOMAIN proc[i].now = CallFields
    /\ DOMAIN sealPins = Peers /\ DOMAIN sealPinned = Peers
    /\ lock \in Locks \cup {None}

\* The lock: as long as none was taken from a live holder, a process that reads and writes
\* the file has its nonce in the lock, its copy is the file, and the file is what was
\* written.
Exclusive ==
    ~broke =>
        /\ sealPins = written
        /\ \A i \in Procs :
             /\ proc[i].pc \in Critical => lock # None /\ lock.nonce = i
             /\ proc[i].pc = "store" => proc[i].now.copy = sealPins

\* The pins: the file, and every copy of it, holds keys that were pinned; a call that has
\* written its record, or ends in a seal, has its key among them.
Pinned(pins) == \A p \in Peers : pins[p] # None => pins[p].fp \in sealPinned[p]
CallPinned(i) ==
    proc[i].now.peer \in Peers /\ proc[i].now.bundle.fp \in sealPinned[proc[i].now.peer]
Backed(i) ==
    /\ proc[i].pc \in SealPcs => proc[i].now.peer \in Peers
    /\ proc[i].pc \in VerifyPcs => proc[i].now.op = "verify"
    /\ proc[i].pc = "store" => DOMAIN proc[i].now.copy = Peers /\ Pinned(proc[i].now.copy)
    /\ proc[i].pc \in {"release", "unlink"} => CallPinned(i)
    /\ proc[i].pc = "done" /\ proc[i].now.op = "seal" => CallPinned(i)
Recorded == Pinned(sealPins) /\ \A i \in Procs : Backed(i)

SealInv == Shape /\ Exclusive /\ Recorded

LEMMA PInitInv == PInit => SealInv
<1> SUFFICES ASSUME PInit PROVE SealInv
  OBVIOUS
<1>1. lock \in Locks \cup {None}
  <2>1. [nonce |-> None, old |-> FALSE] \in Locks
    BY DEF Locks
  <2> QED
    BY Zenon, <2>1 DEF PInit
<1> QED
  BY <1>1 DEF PInit, SealInv, Shape, Exclusive, Recorded, Backed, Pinned, CallPinned, NewProcess, Blank,
         ProcFields, CallFields, Critical, SealPcs, VerifyPcs

\* A step of one process that leaves the pins alone.
Moves(i) ==
    /\ UNCHANGED <<sealPins, written, sealPinned>>
    /\ DOMAIN proc' = Procs /\ \A j \in Procs \ {i} : proc'[j] = proc[j]
    /\ DOMAIN proc'[i] = ProcFields /\ DOMAIN proc'[i].now = CallFields
LEMMA MovesInv ==
    ASSUME SealInv, NEW i \in Procs, Moves(i), lock' \in Locks \cup {None}, Exclusive', Backed(i)'
    PROVE  SealInv'
<1>1. Shape'
  BY Zenon DEF SealInv, Shape, Moves
<1>2. Pinned(sealPins)'
  BY Zenon DEF SealInv, Recorded, Pinned, Moves
<1>3. ASSUME NEW j \in Procs \ {i} PROVE Backed(j)'
  <2>1. proc'[j] = proc[j] /\ (CallPinned(j) => CallPinned(j)')
    BY Zenon DEF CallPinned, Moves
  <2>2. Pinned(proc[j].now.copy) => Pinned(proc[j].now.copy)'
    BY Zenon, <2>1 DEF Pinned, Moves
  <2> QED
    BY Zenon, <2>1, <2>2 DEF SealInv, Recorded, Backed
<1> QED
  BY Zenon, <1>1, <1>2, <1>3 DEF SealInv, Recorded

\* One of a process that neither has the lock nor takes it.
LEMMA OwnStepInv ==
    ASSUME SealInv, NEW i \in Procs, UNCHANGED sealing,
           DOMAIN proc' = Procs, \A j \in Procs \ {i} : proc'[j] = proc[j],
           DOMAIN proc'[i] = ProcFields, DOMAIN proc'[i].now = CallFields,
           proc'[i].pc \notin Critical \cup {"unlink"},
           proc'[i].pc \in SealPcs => proc'[i].now.peer \in Peers,
           proc'[i].pc \in VerifyPcs => proc'[i].now.op = "verify",
           proc'[i].pc = "done" => proc'[i].now.op # "seal" \/ CallPinned(i)'
    PROVE  SealInv'
<1>1. UNCHANGED <<lock, sealPins, written, sealPinned, broke>>
  BY Zenon DEF sealing
<1>2. proc'[i].pc \notin Critical /\ proc'[i].pc # "store" /\ proc'[i].pc \notin {"release", "unlink"}
  BY DEF Critical
<1>3. Exclusive'
  BY Zenon, <1>1, <1>2 DEF SealInv, Exclusive
<1>4. Backed(i)'
  BY Zenon, <1>2 DEF Backed
<1>5. lock' \in Locks \cup {None}
  BY Zenon, <1>1 DEF SealInv, Shape
<1> QED
  BY Zenon, <1>1, <1>3, <1>4, <1>5, MovesInv DEF Moves

USE DEF ProcFields, CallFields, Critical, SealPcs, VerifyPcs

\* What is left of a call that ends.
LEMMA EndingCall ==
    ASSUME Shape, NEW i \in Procs, NEW pc \in {"done", "refused"}, Finish(i, pc)
    PROVE  \E c : /\ proc' = [proc EXCEPT ![i].pc = pc, ![i].now = c]
                  /\ DOMAIN c = CallFields
                  /\ pc = "done" => /\ c.bundle = proc[i].now.bundle /\ c.peer = proc[i].now.peer
                                    /\ c.op = proc[i].now.op
<1> DEFINE c == IF pc = "refused" /\ proc[i].now.op # "verify" THEN Blank
                ELSE [proc[i].now EXCEPT !.copy = None, !.todo = <<>>]
<1>1. DOMAIN c = CallFields
  BY DEF Blank, Shape
<1>2. proc' = [proc EXCEPT ![i].pc = pc, ![i].now = c]
  BY DEF Finish, Shape
<1>3. pc = "done" => /\ c.bundle = proc[i].now.bundle /\ c.peer = proc[i].now.peer
                     /\ c.op = proc[i].now.op
  BY DEF Shape
<1> HIDE DEF c
<1> QED
  BY Zenon, <1>1, <1>2, <1>3

\* A call that may seal ends.
LEMMA DoneInv ==
    ASSUME SealInv, NEW i \in Procs, UNCHANGED sealing, Finish(i, "done"), CallPinned(i)
    PROVE  SealInv'
<1>1. PICK c : /\ proc' = [proc EXCEPT ![i].pc = "done", ![i].now = c]
               /\ DOMAIN c = CallFields
               /\ c.bundle = proc[i].now.bundle /\ c.peer = proc[i].now.peer
  BY Zenon, EndingCall DEF SealInv
<1>2. /\ DOMAIN proc' = Procs /\ \A j \in Procs \ {i} : proc'[j] = proc[j]
      /\ DOMAIN proc'[i] = ProcFields /\ proc'[i].pc = "done" /\ proc'[i].now = c
  BY <1>1 DEF SealInv, Shape
<1>3. CallPinned(i)'
  BY Zenon, <1>1, <1>2 DEF CallPinned, sealing
<1>4. "done" \notin Critical \cup {"unlink"} \cup SealPcs \cup VerifyPcs
  OBVIOUS
<1> HIDE DEF ProcFields, CallFields, Critical, SealPcs, VerifyPcs
<1> QED
  BY Zenon, <1>1, <1>2, <1>3, <1>4, OwnStepInv

\* A call is refused, or the verification of a file goes on.
LEMMA RefusedInv ==
    ASSUME SealInv, NEW i \in Procs, UNCHANGED sealing, Finish(i, "refused")
    PROVE  SealInv'
<1>1. PICK c : proc' = [proc EXCEPT ![i].pc = "refused", ![i].now = c] /\ DOMAIN c = CallFields
  BY Zenon, EndingCall DEF SealInv
<1> QED
  BY <1>1, OwnStepInv DEF SealInv, Shape
LEMMA OntoInv ==
    ASSUME SealInv, NEW i \in Procs, UNCHANGED sealing,
           NEW pc \in VerifyPcs \cup {"done", "bad", "refused"},
           NEW fs, proc' = [proc EXCEPT ![i].pc = pc, ![i].friendSet = fs],
           proc[i].now.op = "verify"
    PROVE  SealInv'
<1>1. DOMAIN proc = Procs /\ DOMAIN proc[i] = ProcFields /\ DOMAIN proc[i].now = CallFields
  BY DEF SealInv, Shape
<1>2. /\ DOMAIN proc' = Procs /\ \A j \in Procs \ {i} : proc'[j] = proc[j]
      /\ DOMAIN proc'[i] = ProcFields /\ proc'[i].pc = pc /\ proc'[i].now = proc[i].now
  BY <1>1
<1>3. pc \notin Critical \cup {"unlink"} \cup SealPcs
  OBVIOUS
<1> QED
  BY Zenon, <1>1, <1>2, <1>3, OwnStepInv

LEMMA OnwardInv ==
    ASSUME SealInv, NEW i \in Procs, UNCHANGED sealing,
           NEW pc \in VerifyPcs \cup {"done", "bad"}, Onto(i, pc), proc[i].now.op = "verify"
    PROVE  SealInv'
<1>1. proc' = [proc EXCEPT ![i].pc = pc, ![i].friendSet = proc[i].friendSet]
  BY Zenon DEF Onto, SealInv, Shape
<1> QED
  BY Zenon, <1>1, OntoInv

\* The calls that begin.
LEMMA BeginInv ==
    ASSUME SealInv, NEW i \in Procs,
           \/ FetchPeerKeyBundle(i) \/ runFriendRepin(i) \/ PropagateNameToShares(i)
           \/ verifyOwnerSigsReader(i)
    PROVE  SealInv'
<1>1. CASE FetchPeerKeyBundle(i) \/ runFriendRepin(i) \/ PropagateNameToShares(i)
  <2>1. PICK p \in Peers, op \in {"seal", "repin"}, pc \in {"check", "identity"} :
          Begin(i, [Blank EXCEPT !.op = op, !.peer = p, !.bundle = published[p]], pc)
    BY Zenon, <1>1 DEF FetchPeerKeyBundle, runFriendRepin, PropagateNameToShares
  <2> QED
    BY <2>1, OwnStepInv DEF Begin, Blank, SealInv, Shape
<1>2. CASE verifyOwnerSigsReader(i)
  <2>1. PICK f \in Signatures :
          Begin(i, [Blank EXCEPT !.op = "verify", !.file = f, !.todo = <<Own>>], "remember")
    BY Zenon, <1>2 DEF verifyOwnerSigsReader
  <2> DEFINE c == [Blank EXCEPT !.op = "verify", !.file = f, !.todo = <<Own>>]
  <2>2. DOMAIN c = CallFields /\ c.op = "verify"
    BY DEF Blank
  <2> HIDE DEF c
  <2> QED
    BY <2>1, <2>2, OwnStepInv DEF Begin, SealInv, Shape, c
<1> QED
  BY <1>1, <1>2

\* The verification of a file does not touch the seal pins.
LEMMA VerifyingInv ==
    ASSUME SealInv, NEW i \in Procs, Verifying(i)
    PROVE  SealInv'
<1>0. /\ DOMAIN proc = Procs /\ DOMAIN proc[i] = ProcFields /\ DOMAIN proc[i].now = CallFields
      /\ proc[i].pc \in VerifyPcs => proc[i].now.op = "verify"
  BY Zenon DEF SealInv, Shape, Recorded, Backed
<1>1. CASE loadSigningPkFile(i)
  <2>1. UNCHANGED sealing /\ DOMAIN proc' = Procs /\ \A j \in Procs \ {i} : proc'[j] = proc[j]
    BY <1>0, <1>1 DEF loadSigningPkFile, On, Onto
  <2>2. DOMAIN proc'[i] = ProcFields
    BY <1>0, <1>1 DEF loadSigningPkFile, On, Onto
  <2>3. DOMAIN proc'[i].now = CallFields
    BY <1>0, <1>1 DEF loadSigningPkFile, On, Onto
  <2>4. proc'[i].pc \in VerifyPcs \cup {"refused"}
    BY <1>0, <1>1 DEF loadSigningPkFile, On, Onto
  <2>5. proc'[i].now.op = "verify" \/ proc'[i].pc = "refused"
    BY <1>0, <1>1 DEF loadSigningPkFile, On, Onto
  <2> QED
    BY Zenon, <2>1, <2>2, <2>3, <2>4, <2>5, OwnStepInv
<1>2. CASE rememberSigningEdPub(i)
  <2>1. UNCHANGED sealing /\ DOMAIN proc' = Procs /\ \A j \in Procs \ {i} : proc'[j] = proc[j]
    BY <1>0, <1>2 DEF rememberSigningEdPub, On, Onto
  <2>2. DOMAIN proc'[i] = ProcFields
    BY <1>0, <1>2 DEF rememberSigningEdPub, On, Onto
  <2>3. DOMAIN proc'[i].now = CallFields
    BY <1>0, <1>2 DEF rememberSigningEdPub, On, Onto
  <2>4. proc'[i].pc \in VerifyPcs \cup {"refused"}
    BY <1>0, <1>2 DEF rememberSigningEdPub, On, Onto
  <2>5. proc'[i].now.op = "verify" \/ proc'[i].pc = "refused"
    BY <1>0, <1>2 DEF rememberSigningEdPub, On, Onto
  <2> QED
    BY Zenon, <2>1, <2>2, <2>3, <2>4, <2>5, OwnStepInv
<1>3. CASE signingEdPubTrusted(i)
  <2>1. proc[i].now.op = "verify" /\ UNCHANGED sealing
    BY Zenon, <1>0, <1>3 DEF signingEdPubTrusted, On, VerifyPcs
  <2>2. Finish(i, "refused") \/ \E pc \in {"verify", "seed", "foreign"} : Onto(i, pc)
    BY Zenon, <1>3 DEF signingEdPubTrusted
  <2>3. CASE \E pc \in {"verify", "seed", "foreign"} : Onto(i, pc)
    BY Zenon, <2>1, <2>3, OnwardInv
  <2> QED
    BY Zenon, <2>1, <2>2, <2>3, RefusedInv
<1>4. CASE seedOwnSigningPkHistory(i)
  <2>1. UNCHANGED sealing /\ proc[i].now.op = "verify"
    BY Zenon, <1>0, <1>4 DEF seedOwnSigningPkHistory, On, VerifyPcs
  <2>2. PICK got \in BOOLEAN :
          proc' = [proc EXCEPT ![i].pc = "remember", ![i].seeded = @ \/ (~proc[i].seeded /\ got),
                               ![i].now.asked = TRUE, ![i].now.answered = proc[i].seeded \/ got,
                               ![i].now.todo = IF ~proc[i].seeded /\ got THEN History ELSE <<>>]
    BY Zenon, <1>4 DEF seedOwnSigningPkHistory
  <2> DEFINE sd == proc[i].seeded \/ (~proc[i].seeded /\ got)
             an == proc[i].seeded \/ got
             td == IF ~proc[i].seeded /\ got THEN History ELSE <<>>
  <2>0. proc' = [proc EXCEPT ![i].pc = "remember", ![i].seeded = sd, ![i].now.asked = TRUE,
                              ![i].now.answered = an, ![i].now.todo = td]
    BY Zenon, <2>2
  <2> HIDE DEF sd, an, td
  <2>3. DOMAIN proc' = Procs /\ \A j \in Procs \ {i} : proc'[j] = proc[j]
    BY <1>0, <2>0
  <2>4. DOMAIN proc'[i] = ProcFields /\ proc'[i].pc = "remember"
    BY <1>0, <2>0
  <2>5. DOMAIN proc'[i].now = CallFields /\ proc'[i].now.op = "verify"
    BY <1>0, <2>0, <2>1
  <2>7. "remember" \notin Critical \cup {"unlink", "done"} \cup SealPcs
    OBVIOUS
  <2> HIDE DEF ProcFields, CallFields, Critical, SealPcs, VerifyPcs
  <2> QED
    BY Zenon, <2>1, <2>3, <2>4, <2>5, <2>7, OwnStepInv
<1>5. CASE checkForeignSignerOnOwnNode(i)
  <2>1. proc[i].now.op = "verify" /\ UNCHANGED sealing
    BY <1>0, <1>5 DEF checkForeignSignerOnOwnNode, On
  <2>2. \/ Finish(i, "refused") \/ Onto(i, "verifyPinned")
        \/ \E fs \in {proc[i].friendSet, friends}, pc \in {"verifyFirst", "refused"} :
              proc' = [proc EXCEPT ![i].pc = pc, ![i].friendSet = fs]
    <3>1. CASE signPins[proc[i].now.file.by] = None
      <4>1. PICK fs \in {proc[i].friendSet, friends} :
              IF proc[i].now.file.by \in fs
              THEN proc' = [proc EXCEPT ![i].pc = "verifyFirst", ![i].friendSet = fs]
              ELSE proc' = [proc EXCEPT ![i].pc = "refused", ![i].friendSet = fs]
        BY <1>5, <3>1, Zenon DEF checkForeignSignerOnOwnNode
      <4>2. CASE proc[i].now.file.by \in fs
        BY <4>1, <4>2, Zenon
      <4>3. CASE proc[i].now.file.by \notin fs
        BY <4>1, <4>3, Zenon
      <4> QED
        BY <4>2, <4>3
    <3>2. CASE signPins[proc[i].now.file.by] # None
      BY <1>5, <3>2, Zenon DEF checkForeignSignerOnOwnNode
    <3> QED
      BY <3>1, <3>2
  <2>3. CASE \E fs \in {proc[i].friendSet, friends}, pc \in {"verifyFirst", "refused"} :
              proc' = [proc EXCEPT ![i].pc = pc, ![i].friendSet = fs]
    <3>1. PICK fs \in {proc[i].friendSet, friends}, pc \in {"verifyFirst", "refused"} :
            proc' = [proc EXCEPT ![i].pc = pc, ![i].friendSet = fs]
      BY Zenon, <2>3
    <3>2. pc \in VerifyPcs \cup {"done", "bad", "refused"}
      OBVIOUS
    <3> QED
      BY Zenon, <2>1, <3>1, <3>2, OntoInv
  <2>4. CASE Onto(i, "verifyPinned")
    BY Zenon, <2>1, <2>4, OnwardInv
  <2> QED
    BY Zenon, <2>1, <2>2, <2>3, <2>4, RefusedInv
<1>6. CASE VerifyFileSignatures(i)
  <2>1. proc[i].now.op = "verify" /\ UNCHANGED sealing
    BY <1>0, <1>6 DEF VerifyFileSignatures
  <2>2. \E pc \in {"bad", "done", "commit"} : Onto(i, pc)
    BY <1>6, Zenon DEF VerifyFileSignatures, Onto
  <2> QED
    BY Zenon, <2>1, <2>2, OnwardInv
<1>7. CASE loadPeerSigningPkFile(i)
  <2>1. UNCHANGED sealing /\ proc' = [proc EXCEPT ![i].pc = "record", ![i].now.copy = signPins]
    BY <1>7 DEF loadPeerSigningPkFile
  <2>2. proc[i].now.op = "verify"
    BY <1>0, <1>7 DEF loadPeerSigningPkFile, On
  <2>3. DOMAIN proc' = Procs /\ \A j \in Procs \ {i} : proc'[j] = proc[j]
    BY <1>0, <2>1
  <2>4. /\ DOMAIN proc'[i] = ProcFields /\ proc'[i].pc = "record"
        /\ DOMAIN proc'[i].now = CallFields /\ proc'[i].now.op = "verify"
    BY <1>0, <2>1, <2>2
  <2> QED
    BY Zenon, <2>1, <2>3, <2>4, OwnStepInv
<1>8. CASE recordPeerSigningPk(i)
  <2>1. proc[i].now.op = "verify" /\ UNCHANGED sealing /\ Finish(i, "done")
    BY <1>0, <1>8 DEF recordPeerSigningPk, On
  <2>2. PICK c : /\ proc' = [proc EXCEPT ![i].pc = "done", ![i].now = c]
                 /\ DOMAIN c = CallFields /\ c.op = proc[i].now.op
    BY Zenon, <2>1, EndingCall DEF SealInv
  <2>3. /\ DOMAIN proc' = Procs /\ DOMAIN proc'[i] = ProcFields
        /\ proc'[i].pc = "done" /\ proc'[i].now = c /\ \A j \in Procs \ {i} : proc'[j] = proc[j]
    BY <1>0, <2>2
  <2> QED
    BY Zenon, <2>1, <2>2, <2>3, OwnStepInv
<1> QED
  BY Zenon, <1>1, <1>2, <1>3, <1>4, <1>5, <1>6, <1>7, <1>8, BeginInv DEF Verifying

\* The seal calls that change neither the file nor the lock.
LEMMA DecidingInv ==
    ASSUME SealInv, NEW i \in Procs,
           \/ peerSigningIdentity(i) \/ PinPeerSealKey(i) \/ sealStoreFailure(i)
           \/ lockTimeout(i) \/ statLock(i)
    PROVE  SealInv'
<1>1. CASE peerSigningIdentity(i)
  <2> DEFINE c(id) == IF id = None
                      THEN [proc[i].now.bundle EXCEPT !.anchor = None, !.signed = FALSE]
                      ELSE [id EXCEPT !.fp = proc[i].now.bundle.fp,
                                      !.signed = @ /\ id.fp = proc[i].now.bundle.fp]
  <2>1. UNCHANGED sealing /\ proc[i].pc = "identity"
    BY Zenon, <1>1 DEF peerSigningIdentity, On
  <2>2. \E id : proc' = [proc EXCEPT ![i].pc = "check", ![i].peerBundles[proc[i].now.peer] = id,
                                     ![i].now.bundle = c(id)]
    BY <1>1, Zenon DEF peerSigningIdentity
  <2> HIDE DEF c
  <2>3. PICK id : proc' = [proc EXCEPT ![i].pc = "check",
                                       ![i].peerBundles[proc[i].now.peer] = id,
                                       ![i].now.bundle = c(id)]
    BY Zenon, <2>2
  <2>4. DOMAIN proc' = Procs /\ \A j \in Procs \ {i} : proc'[j] = proc[j]
    BY <2>3 DEF SealInv, Shape
  <2>5. DOMAIN proc'[i] = ProcFields /\ proc'[i].pc = "check"
    BY <2>3 DEF SealInv, Shape
  <2>6. DOMAIN proc'[i].now = CallFields /\ proc'[i].now.peer = proc[i].now.peer
    BY <2>3 DEF SealInv, Shape
  <2> QED
    <3>1. proc[i].now.peer \in Peers
      BY Zenon, <2>1 DEF SealInv, Recorded, Backed, SealPcs
    <3>2. "check" \notin Critical \cup {"unlink"} \cup VerifyPcs
      OBVIOUS
    <3> HIDE DEF ProcFields, CallFields, Critical, SealPcs, VerifyPcs
    <3> QED
      BY Zenon, <2>1, <2>4, <2>5, <2>6, <3>1, <3>2, OwnStepInv
<1>2. CASE PinPeerSealKey(i)
  <2> DEFINE rec == sealPins[proc[i].now.peer]
             b == proc[i].now.bundle
  <2>1. UNCHANGED sealing /\ On(i, "check")
    BY Zenon, <1>2 DEF PinPeerSealKey
  <2>2. CASE Onto(i, "lock")
    BY <2>1, <2>2, OwnStepInv DEF Onto, On, SealInv, Shape, Recorded, Backed
  <2>3. CASE Finish(i, "refused")
    BY <2>1, <2>3, RefusedInv
  <2>4. CASE rec # None /\ rec.fp = b.fp /\ Finish(i, "done")
    <3>1. CallPinned(i)
      BY Zenon, <2>1, <2>4 DEF SealInv, Recorded, Backed, Pinned, CallPinned, On
    <3> QED
      BY <2>1, <2>4, <3>1, DoneInv
  <2> QED
    BY Zenon, <1>2, <2>2, <2>3, <2>4 DEF PinPeerSealKey
<1>3. CASE sealStoreFailure(i) \/ lockTimeout(i)
  <2>1. Finish(i, "refused") /\ UNCHANGED sealing
    BY Zenon, <1>3 DEF sealStoreFailure, lockTimeout
  <2> QED
    BY Zenon, <2>1, RefusedInv
<1>4. CASE statLock(i)
  BY <1>4, OwnStepInv DEF statLock, On, Onto, SealInv, Shape, Recorded, Backed
<1> QED
  BY <1>1, <1>2, <1>3, <1>4

\* The lock taken, broken, released.
LEMMA LockingInv ==
    ASSUME SealInv, NEW i \in Procs,
           withFileLock(i) \/ breakStaleLock(i) \/ readNonce(i) \/ releaseOwnLock(i)
    PROVE  SealInv'
<1>0. /\ DOMAIN proc = Procs /\ DOMAIN proc[i] = ProcFields /\ DOMAIN proc[i].now = CallFields
      /\ proc[i].pc \in SealPcs => proc[i].now.peer \in Peers
      /\ proc[i].pc \in {"release", "unlink"} => CallPinned(i)
  BY Zenon DEF SealInv, Shape, Recorded, Backed
<1>1. CASE withFileLock(i)
  <2>1. lock' # None /\ lock'.nonce = i /\ lock' \in Locks
    <3>1. lock' = [nonce |-> i, old |-> FALSE]
      BY <1>1 DEF withFileLock
    <3>2. lock' \in Locks /\ lock'.nonce = i
      BY <3>1 DEF Locks
    <3> QED
      BY <3>2, LocksAssumption
  <2>2. proc' = [proc EXCEPT ![i].pc = "load"] /\ UNCHANGED <<sealPins, written, sealPinned, broke>>
    BY <1>1 DEF withFileLock, Onto
  <2>3. lock = None /\ proc[i].pc = "lock"
    BY <1>1 DEF withFileLock, On
  <2>4. Moves(i) /\ proc'[i].pc = "load" /\ proc'[i].now = proc[i].now
    BY <1>0, <2>2 DEF Moves
  <2>5. Exclusive'
    BY <2>1, <2>2, <2>3 DEF SealInv, Shape, Exclusive
  <2>6. Backed(i)'
    BY Zenon, <1>0, <2>3, <2>4 DEF Backed, SealPcs, VerifyPcs
  <2> QED
    BY Zenon, <2>1, <2>4, <2>5, <2>6, MovesInv
<1>2. CASE breakStaleLock(i)
  <2>1. proc' = [proc EXCEPT ![i].pc = "lock"] /\ UNCHANGED <<sealPins, written, sealPinned>>
    BY <1>2 DEF breakStaleLock, Onto
  <2>2. lock' = None /\ proc[i].pc = "break"
    BY <1>2 DEF breakStaleLock, On
  <2>3. Moves(i) /\ proc'[i].pc = "lock" /\ proc'[i].now = proc[i].now
    BY <1>0, <2>1 DEF Moves
  <2>4. ~broke' => ~broke /\ (lock # None => ~Holds(lock.nonce))
    BY Zenon, <1>2 DEF breakStaleLock
  <2>5. Exclusive'
    BY <2>1, <2>2, <2>4 DEF SealInv, Shape, Exclusive, Holds
  <2>6. Backed(i)'
    BY Zenon, <1>0, <2>2, <2>3 DEF Backed, SealPcs, VerifyPcs
  <2> QED
    BY Zenon, <2>2, <2>3, <2>5, <2>6, MovesInv
<1>3. CASE readNonce(i)
  <2>1. UNCHANGED sealing
    BY <1>3 DEF readNonce
  <2>2. CASE On(i, "kept") /\ Finish(i, "refused")
    BY <2>1, <2>2, RefusedInv
  <2>3. CASE On(i, "release") /\ Finish(i, "done")
    BY Zenon, <2>1, <2>3, DoneInv DEF SealInv, Recorded, Backed, On
  <2>4. CASE \/ On(i, "release") /\ Onto(i, "unlink")
             \/ On(i, "kept") /\ Onto(i, "unlinkKept")
    <3>1. PICK pc \in {"unlink", "unlinkKept"} :
            /\ proc' = [proc EXCEPT ![i].pc = pc] /\ proc[i].pc \in {"release", "kept"}
            /\ pc = "unlink" => proc[i].pc = "release"
      BY Zenon, <2>4 DEF On, Onto
    <3>2. UNCHANGED <<lock, sealPins, written, sealPinned, broke>>
      BY Zenon, <2>1 DEF sealing
    <3>3. Moves(i) /\ proc'[i].pc = pc /\ proc'[i].now = proc[i].now
      BY <1>0, <3>1, <3>2 DEF Moves
    <3>4. Exclusive'
      BY <3>1, <3>2, <3>3 DEF SealInv, Exclusive, Moves
    <3>5. Backed(i)'
      <4>1. CallPinned(i) => CallPinned(i)'
        BY Zenon, <3>2, <3>3 DEF CallPinned
      <4> QED
        BY Zenon, <1>0, <3>1, <3>3, <4>1 DEF Backed, SealPcs, VerifyPcs
    <3>6. lock' \in Locks \cup {None}
      BY Zenon, <3>2 DEF SealInv, Shape
    <3> QED
      BY Zenon, <3>3, <3>4, <3>5, <3>6, MovesInv
  <2>5. CASE On(i, "release")
    <3>1. Onto(i, "unlink") \/ Finish(i, "done")
      BY <1>3, <2>5, Zenon DEF readNonce
    <3> QED
      BY <2>3, <2>4, <2>5, <3>1
  <2>6. CASE On(i, "kept") /\ ~On(i, "release")
    BY <1>3, <2>2, <2>4, <2>6 DEF readNonce
  <2> QED
    BY <1>3, <2>5, <2>6 DEF readNonce
<1>4. CASE releaseOwnLock(i)
  <2>1. UNCHANGED <<sealPins, written, sealPinned>> /\ lock' = None
    BY <1>4 DEF releaseOwnLock
  <2>2. ~broke' => ~broke /\ (lock # None => lock.nonce = i \/ ~Holds(lock.nonce))
    BY Zenon, <1>4 DEF releaseOwnLock
  <2>3. proc[i].pc \in {"unlink", "unlinkKept"}
    BY <1>4 DEF releaseOwnLock, On
  <2>4. PICK c : /\ proc' = [proc EXCEPT ![i].pc = IF On(i, "unlink") THEN "done" ELSE "refused",
                                          ![i].now = c]
                 /\ DOMAIN c = CallFields
                 /\ On(i, "unlink") => c.bundle = proc[i].now.bundle /\ c.peer = proc[i].now.peer
    <3>1. CASE On(i, "unlink")
      <4>1. Finish(i, "done")
        BY <1>4, <3>1 DEF releaseOwnLock
      <4>2. \E c : /\ proc' = [proc EXCEPT ![i].pc = "done", ![i].now = c]
                   /\ DOMAIN c = CallFields
                   /\ c.bundle = proc[i].now.bundle /\ c.peer = proc[i].now.peer
        BY Zenon, <4>1, EndingCall DEF SealInv
      <4> QED
        BY Zenon, <3>1, <4>2
    <3>2. CASE ~On(i, "unlink")
      <4>1. Finish(i, "refused")
        BY <1>4, <3>2 DEF releaseOwnLock
      <4> QED
        BY ZenonT(30), <3>2, <4>1, EndingCall DEF SealInv
    <3> QED
      BY <3>1, <3>2
  <2>5. /\ Moves(i) /\ proc'[i].now = c
        /\ proc'[i].pc = (IF On(i, "unlink") THEN "done" ELSE "refused")
    BY <1>0, <2>1, <2>4 DEF Moves
  <2>6. Backed(i)'
    <3>1. On(i, "unlink") => CallPinned(i)'
      BY Zenon, <1>0, <2>1, <2>4, <2>5 DEF CallPinned, On
    <3> QED
      BY Zenon, <2>5, <3>1 DEF Backed, SealPcs, VerifyPcs
  <2>7. Exclusive'
    <3>1. proc'[i].pc \notin Critical /\ proc'[i].pc # "store" /\ \A j \in Procs \ {i} : proc'[j] = proc[j]
      BY <2>5 DEF Moves
    <3> QED
      BY <2>1, <2>2, <2>3, <3>1 DEF SealInv, Exclusive, Holds
  <2> QED
    BY Zenon, <2>1, <2>5, <2>6, <2>7, MovesInv
<1> QED
  BY <1>1, <1>2, <1>3, <1>4

\* The file, under the lock.
LEMMA WritingInv ==
    ASSUME SealInv, NEW i \in Procs, loadPeerSealPkFile(i) \/ writePeerSealRecord(i)
    PROVE  SealInv'
<1>0. /\ DOMAIN proc = Procs /\ DOMAIN proc[i] = ProcFields /\ DOMAIN proc[i].now = CallFields
      /\ proc[i].pc \in SealPcs => proc[i].now.peer \in Peers
      /\ lock \in Locks \cup {None} /\ DOMAIN sealPins = Peers /\ Pinned(sealPins)
  BY Zenon DEF SealInv, Shape, Recorded, Backed
<1>1. CASE loadPeerSealPkFile(i)
  <2>1. UNCHANGED sealing /\ proc[i].pc = "load"
    BY <1>1 DEF loadPeerSealPkFile, On
  <2>2. CASE Onto(i, "kept")
    <3>1. UNCHANGED <<lock, sealPins, written, sealPinned, broke>>
      BY Zenon, <2>1 DEF sealing
    <3>2. Moves(i) /\ proc'[i].pc = "kept" /\ proc'[i].now = proc[i].now
      BY <1>0, <2>2, <3>1 DEF Moves, Onto
    <3>3. Exclusive'
      <4>1. (\A j \in Procs \ {i} : proc'[j] = proc[j]) /\ proc[i].pc \in Critical
        BY Zenon, <2>1, <3>2 DEF Moves, Critical
      <4> HIDE DEF ProcFields, CallFields, SealPcs, VerifyPcs
      <4> QED
        BY <3>1, <3>2, <4>1 DEF SealInv, Exclusive
    <3>4. Backed(i)'
      BY Zenon, <1>0, <2>1, <3>2 DEF Backed, SealPcs, VerifyPcs
    <3> QED
      BY Zenon, <1>0, <3>1, <3>2, <3>3, <3>4, MovesInv
  <2>3. CASE proc' = [proc EXCEPT ![i].pc = "store", ![i].now.copy = sealPins]
    <3>1. UNCHANGED <<lock, sealPins, written, sealPinned, broke>>
      BY Zenon, <2>1 DEF sealing
    <3>2. /\ Moves(i) /\ proc'[i].pc = "store" /\ proc'[i].now.copy = sealPins
          /\ proc'[i].now.peer = proc[i].now.peer
      BY <1>0, <2>3, <3>1 DEF Moves
    <3>3. Exclusive'
      <4>1. (\A j \in Procs \ {i} : proc'[j] = proc[j]) /\ proc[i].pc \in Critical
        BY Zenon, <2>1, <3>2 DEF Moves, Critical
      <4> HIDE DEF ProcFields, CallFields, SealPcs, VerifyPcs
      <4> QED
        BY <3>1, <3>2, <4>1 DEF SealInv, Exclusive
    <3>4. Backed(i)'
      <4>1. DOMAIN proc'[i].now.copy = Peers /\ Pinned(proc[i].now.copy)'
        BY Zenon, <1>0, <3>1, <3>2 DEF Pinned
      <4> QED
        BY Zenon, <1>0, <2>1, <3>2, <4>1 DEF Backed, SealPcs, VerifyPcs
    <3> QED
      BY Zenon, <1>0, <3>1, <3>2, <3>3, <3>4, MovesInv
  <2> QED
    BY <1>1, <2>2, <2>3 DEF loadPeerSealPkFile
<1>2. CASE writePeerSealRecord(i)
  <2> DEFINE p == proc[i].now.peer
             fp == proc[i].now.bundle.fp
             rec == [fp |-> fp, anchor |-> proc[i].now.bundle.anchor]
  <2>1. UNCHANGED <<lock, broke>> /\ proc[i].pc = "store" /\ p \in Peers
    BY Zenon, <1>2 DEF writePeerSealRecord, On, SealInv, Recorded, Backed
  <2>2. CASE proc' = [proc EXCEPT ![i].pc = "kept", ![i].now.copy = None]
             /\ UNCHANGED <<sealPins, written, sealPinned>>
    <3>1. Moves(i) /\ proc'[i].pc = "kept" /\ proc'[i].now.peer = p
      BY <1>0, <2>2 DEF Moves
    <3>2. Exclusive'
      <4>1. (\A j \in Procs \ {i} : proc'[j] = proc[j]) /\ proc[i].pc \in Critical
        BY Zenon, <2>1, <3>1 DEF Moves, Critical
      <4> HIDE DEF ProcFields, CallFields, SealPcs, VerifyPcs
      <4> QED
        BY <2>1, <2>2, <3>1, <4>1 DEF SealInv, Exclusive
    <3>3. Backed(i)'
      BY Zenon, <2>1, <3>1 DEF Backed, SealPcs, VerifyPcs
    <3> QED
      BY Zenon, <1>0, <2>1, <3>1, <3>2, <3>3, MovesInv
  <2>3. CASE /\ sealPins' = [proc[i].now.copy EXCEPT ![p] = rec]
             /\ written' = [written EXCEPT ![p] = rec]
             /\ sealPinned' = [sealPinned EXCEPT ![p] = @ \cup {rec.fp}]
             /\ proc' = [proc EXCEPT ![i].pc = "release", ![i].now.copy = None]
    <3>1. DOMAIN proc[i].now.copy = Peers /\ Pinned(proc[i].now.copy)
      BY <2>1 DEF SealInv, Recorded, Backed
    <3>2. /\ DOMAIN sealPinned' = Peers /\ fp \in sealPinned'[p]
          /\ \A q \in Peers : sealPinned[q] \subseteq sealPinned'[q]
      BY <2>1, <2>3 DEF SealInv, Shape
    <3>3. DOMAIN sealPins' = Peers /\ Pinned(sealPins)'
      BY <2>1, <2>3, <3>1, <3>2 DEF Pinned
    <3>4. /\ \A j \in Procs \ {i} : proc'[j] = proc[j]
          /\ DOMAIN proc' = Procs /\ DOMAIN proc'[i] = ProcFields
          /\ proc'[i].pc = "release"
      BY <1>0, <2>3
    <3>5. /\ DOMAIN proc'[i].now = CallFields
          /\ proc'[i].now.peer = p /\ proc'[i].now.bundle = proc[i].now.bundle
      BY <1>0, <2>3
    <3>6. Shape'
      <4>1. \A j \in Procs : DOMAIN proc'[j] = ProcFields /\ DOMAIN proc'[j].now = CallFields
        BY Zenon, <3>4, <3>5 DEF SealInv, Shape
      <4> QED
        BY Zenon, <1>0, <2>1, <3>2, <3>3, <3>4, <4>1 DEF Shape
    <3>7. Recorded'
      <4>1. ASSUME NEW j \in Procs \ {i}, CallPinned(j) PROVE CallPinned(j)'
        BY <3>2, <3>4, <4>1 DEF CallPinned
      <4>2. ASSUME NEW j \in Procs \ {i}, proc[j].pc = "store"
            PROVE  DOMAIN proc'[j].now.copy = Peers /\ Pinned(proc[j].now.copy)'
        <5>1. proc'[j] = proc[j] /\ DOMAIN proc[j].now.copy = Peers /\ Pinned(proc[j].now.copy)
          BY Zenon, <3>4, <4>2 DEF SealInv, Recorded, Backed
        <5> QED
          BY Zenon, <3>2, <5>1 DEF Pinned
      <4>3. CallPinned(i)' /\ proc'[i].now.peer \in Peers
        BY Zenon, <2>1, <3>2, <3>5 DEF CallPinned
      <4>4. ASSUME NEW j \in Procs \ {i} PROVE Backed(j)'
        BY Zenon, <3>4, <4>1, <4>2 DEF SealInv, Recorded, Backed
      <4>5. Backed(i)'
        BY Zenon, <3>4, <4>3 DEF Backed, SealPcs, VerifyPcs
      <4> QED
        BY Zenon, <3>3, <4>4, <4>5 DEF Recorded
    <3>8. Exclusive'
      <4> SUFFICES ASSUME ~broke PROVE /\ sealPins' = written'
                                       /\ \A j \in Procs \ {i} : proc'[j].pc \notin Critical
                                       /\ lock # None /\ lock.nonce = i
        BY <2>1, <3>4 DEF Exclusive
      <4>1. lock # None /\ lock.nonce = i /\ sealPins = written /\ proc[i].now.copy = sealPins
        BY <2>1 DEF SealInv, Exclusive
      <4>2. \A j \in Procs \ {i} : proc'[j].pc \notin Critical
        BY <3>4, <4>1 DEF SealInv, Exclusive
      <4> QED
        BY Zenon, <2>3, <4>1, <4>2
    <3> QED
      BY <3>6, <3>7, <3>8 DEF SealInv
  <2> QED
    BY Zenon, <1>2, <2>2, <2>3 DEF writePeerSealRecord
<1> QED
  BY <1>1, <1>2

\* The world does not write the pins.  A process that dies may leave its lock.
LEMMA WorldInv ==
    ASSUME SealInv, (\E i \in Procs : Die(i)) \/ Age \/ Publish \/ Unfriend \/ UNCHANGED pvars
    PROVE  SealInv'
<1>1. CASE \E i \in Procs : Die(i)
  <2>1. PICK i \in Procs : proc' = [proc EXCEPT ![i] = [NewProcess EXCEPT !.pc = "dead"]]
    BY Zenon, <1>1 DEF Die
  <2>2. UNCHANGED sealing
    BY <1>1 DEF Die
  <2> QED
    BY <2>1, <2>2, OwnStepInv DEF NewProcess, Blank, SealInv, Shape
<1>2. CASE Age
  <2>1. lock' \in Locks /\ lock'.nonce = lock.nonce
    BY Zenon, <1>2 DEF Age, SealInv, Shape, Locks
  <2>2. UNCHANGED <<sealPins, written, sealPinned, broke, proc>>
    BY Zenon, <1>2 DEF Age
  <2> QED
    BY Zenon, <2>1, <2>2, LocksAssumption DEF SealInv, Shape, Exclusive, Recorded, Backed, Pinned, CallPinned
<1>3. CASE Publish \/ Unfriend \/ UNCHANGED pvars
  <2>1. UNCHANGED <<lock, sealPins, written, sealPinned, broke, proc>>
    BY Zenon, <1>3 DEF Publish, Unfriend, pvars, sealing
  <2> QED
    BY Zenon, <2>1 DEF SealInv, Shape, Exclusive, Recorded, Backed, Pinned, CallPinned
<1> QED
  BY <1>1, <1>2, <1>3

\* SealInv is an inductive invariant of the three stores and the processes that use them,
\* for any number of processes, peers and published key sets.
THEOREM PInvariant == PSpec => []SealInv
<1>1. SealInv /\ [PNext]_pvars => SealInv'
  <2> SUFFICES ASSUME SealInv, [PNext]_pvars PROVE SealInv'
    OBVIOUS
  <2>1. CASE \E i \in Procs : Sealing(i)
    BY <2>1, BeginInv, DecidingInv, LockingInv, WritingInv DEF Sealing
  <2>2. CASE \E i \in Procs : Verifying(i)
    BY <2>2, VerifyingInv
  <2>3. CASE (\E i \in Procs : Die(i)) \/ Age \/ Publish \/ Unfriend \/ UNCHANGED pvars
    BY <2>3, WorldInv
  <2> QED
    BY <2>1, <2>2, <2>3 DEF PNext
<1> QED
  BY <1>1, PInitInv, PTL DEF PSpec

\* writePeerSealRecord under withFileLock loses no pin, unless a stale lock was taken from
\* a live holder.
THEOREM NoPinLost == PSpec => []PinsKept
<1>1. SealInv => PinsKept
  BY DEF SealInv, Exclusive, PinsKept
<1> QED
  BY <1>1, PInvariant, PTL

\* PinPeerSealKey: whatever times out, fails or races, a call that ends in a seal ends with
\* a key that was pinned for the peer.
THEOREM SealsArePinned == PSpec => []SealedWasPinned
<1>1. SealInv => SealedWasPinned
  BY DEF SealInv, Recorded, Backed, CallPinned, SealedWasPinned, On
<1> QED
  BY <1>1, PInvariant, PTL

HIDE DEF ProcFields, CallFields, Critical, SealPcs, VerifyPcs

-----------------------------------------------------------------------------
(* The signing pins.                                                        *)

ForeignPcs == {"foreign", "verifyPinned", "verifyFirst", "commit", "record"}
OwnKeys == Range(History) \cup {Own}
Tidy == ~raced /\ Len(History) < OwnMax

\* Who is about to be verified, and for whom: a foreign signer is a peer.
Signed(i) ==
    /\ proc[i].pc \in VerifyPcs => proc[i].now.file \in Signatures
    /\ proc[i].pc \in ForeignPcs => proc[i].now.file.by \in Peers \ {""}
    /\ proc[i].pc \in SealPcs => proc[i].now.op # "verify"
    /\ proc[i].pc = "record" => DOMAIN proc[i].now.copy = Peers

\* A key found pinned stays pinned until it is used, and a first one is recorded where there
\* is none.
ForeignCall(i) ==
    LET c == proc[i].now IN
    /\ proc[i].pc = "verifyPinned" => signPins[c.file.by] = c.file.key
    /\ proc[i].pc = "record" => c.copy[c.file.by] = None

\* The keys of the history are in the file, or still to be put there, from the moment a
\* process has it; a call that was answered has it.
OwnCall(i) ==
    LET c == proc[i].now IN
    /\ c.todo \in Seq(OwnKeys)
    /\ proc[i].pc \notin {"remember", "append"} => c.todo = <<>>
    /\ proc[i].pc = "append" => c.todo # <<>> /\ Head(c.todo) \notin Range(c.copy)
    /\ proc[i].seeded => Range(History) \subseteq Range(ownPins) \cup Range(c.todo)
    /\ proc[i].pc \in VerifyPcs /\ c.answered => proc[i].seeded
    /\ proc[i].pc = "refused" /\ c.op = "verify" /\ c.file.by = "" /\ c.file.key \in Range(History)
         => ~c.answered

\* A peer's files were accepted under the key that is pinned for the peer; the file of our
\* own keys lists keys of ours, each once.
SignFiles ==
    /\ DOMAIN signPins = Peers /\ DOMAIN accepted = Peers
    /\ ~raced => \A p \in Peers : accepted[p] \subseteq {signPins[p]} \ {None}
    /\ Tidy => ownPins \in Seq(OwnKeys) /\ IsInjective(ownPins)

SignInv ==
    /\ SignFiles
    /\ \A i \in Procs : /\ Signed(i)
                        /\ ~raced => ForeignCall(i)
                        /\ Tidy => OwnCall(i)


LEMMA PInitSigns == PInit => SignInv
<1> SUFFICES ASSUME PInit PROVE SignInv
  OBVIOUS
<1>1. SignFiles
  BY DEF PInit, SignFiles, Tidy, IsInjective
<1>2. \A i \in Procs : proc[i].pc = "idle" /\ proc[i].seeded = FALSE /\ proc[i].now.todo = <<>>
  BY DEF PInit, NewProcess, Blank
<1>3. <<>> \in Seq(OwnKeys)
  OBVIOUS
<1>4. "idle" \notin VerifyPcs \cup SealPcs \cup ForeignPcs
  BY DEF VerifyPcs, SealPcs, ForeignPcs
<1>5. \A i \in Procs : Signed(i) /\ ForeignCall(i)
  BY Zenon, <1>2, <1>4 DEF Signed, ForeignCall
<1>6. \A i \in Procs : OwnCall(i)
  BY Zenon, <1>2, <1>3, <1>4 DEF OwnCall
<1> QED
  BY Zenon, <1>1, <1>5, <1>6 DEF SignInv

USE DEF ForeignPcs

\* A step of one process that changes no file of signing pins.
LEMMA CallSigns ==
    ASSUME SignInv, NEW i \in Procs, UNCHANGED signing, \A j \in Procs \ {i} : proc'[j] = proc[j],
           Signed(i)', ~raced => ForeignCall(i)', Tidy => OwnCall(i)'
    PROVE  SignInv'
<1>1. UNCHANGED <<signPins, ownPins, accepted, raced>>
  BY DEF signing
<1>2. SignFiles' /\ (Tidy' <=> Tidy) /\ raced' = raced
  BY Zenon, <1>1 DEF SignInv, SignFiles, Tidy
<1>3. ASSUME NEW j \in Procs, j # i PROVE Signed(j)' /\ (~raced => ForeignCall(j)') /\ (Tidy => OwnCall(j)')
  <2>1. /\ Signed(j) /\ (~raced => ForeignCall(j)) /\ (Tidy => OwnCall(j))
        /\ proc'[j] = proc[j] /\ signPins' = signPins /\ ownPins' = ownPins
    BY Zenon, <1>1, <1>3 DEF SignInv
  <2>2. Signed(j)' BY Zenon, <2>1 DEF Signed
  <2>3. ~raced => ForeignCall(j)' BY Zenon, <2>1 DEF ForeignCall
  <2>4. Tidy => OwnCall(j)' BY Zenon, <2>1 DEF OwnCall
  <2> QED BY Zenon, <2>2, <2>3, <2>4
<1>4. ASSUME NEW j \in Procs PROVE Signed(j)' /\ (~raced' => ForeignCall(j)') /\ (Tidy' => OwnCall(j)')
  BY Zenon, <1>2, <1>3
<1> QED
  BY Zenon, <1>2, <1>4 DEF SignInv

\* A process that seals, ends or dies: it has no keys of ours left to remember.
LEMMA OtherSigns ==
    ASSUME SignInv, NEW i \in Procs, UNCHANGED signing, \A j \in Procs \ {i} : proc'[j] = proc[j],
           proc'[i].pc \notin VerifyPcs, proc'[i].now.op # "verify",
           Tidy => /\ proc'[i].seeded => /\ proc[i].seeded
                                         /\ proc[i].pc \notin {"remember", "append"}
                   /\ proc'[i].now.todo = <<>>
    PROVE  SignInv'
<1>1. Signed(i)' /\ ForeignCall(i)'
  BY Zenon DEF Signed, ForeignCall, VerifyPcs
<1>2. ASSUME Tidy PROVE OwnCall(i)'
  <2>1. proc'[i].seeded => Range(History) \subseteq Range(ownPins) \cup Range(<<>>)
    BY Zenon, <1>2 DEF SignInv, OwnCall
  <2>2. <<>> \in Seq(OwnKeys)
    OBVIOUS
  <2> QED
    BY Zenon, <1>2, <2>1, <2>2 DEF OwnCall, signing, VerifyPcs
<1> QED
  BY Zenon, <1>1, <1>2, CallSigns

\* The calls that seal.
LEMMA SealingSigns ==
    ASSUME SealInv, SignInv, NEW i \in Procs, Sealing(i)
    PROVE  SignInv'
<1>1. UNCHANGED signing
  BY Zenon DEF Sealing, withFileLock, lockTimeout, statLock, breakStaleLock, readNonce, releaseOwnLock,
     FetchPeerKeyBundle, runFriendRepin, PropagateNameToShares, Begin, peerSigningIdentity,
     PinPeerSealKey, sealStoreFailure, loadPeerSealPkFile, writePeerSealRecord
<1>2. DOMAIN proc = Procs /\ DOMAIN proc[i] = ProcFields /\ DOMAIN proc[i].now = CallFields
  BY Zenon DEF SealInv, Shape
<1> USE DEF ProcFields, CallFields
<1>3. CASE FetchPeerKeyBundle(i) \/ runFriendRepin(i) \/ PropagateNameToShares(i)
  <2>1. PICK p \in Peers, op \in {"seal", "repin"}, pc \in {"check", "identity"} :
          Begin(i, [Blank EXCEPT !.op = op, !.peer = p, !.bundle = published[p]], pc)
    BY Zenon, <1>3 DEF FetchPeerKeyBundle, runFriendRepin, PropagateNameToShares
  <2> DEFINE c == [Blank EXCEPT !.op = op, !.peer = p, !.bundle = published[p]]
  <2>2. c.op # "verify" /\ c.todo = <<>>
    BY DEF Blank
  <2> HIDE DEF c
  <2>3. proc' = [proc EXCEPT ![i].pc = pc, ![i].now = c] /\ proc[i].pc \in Ended
    BY Zenon, <2>1 DEF Begin, c
  <2>4. /\ proc'[i].pc = pc /\ proc'[i].now = c /\ proc'[i].seeded = proc[i].seeded
        /\ \A j \in Procs \ {i} : proc'[j] = proc[j]
    BY <1>2, <2>3
  <2> QED
    BY Zenon, <1>1, <2>2, <2>3, <2>4, OtherSigns DEF Ended, VerifyPcs
<1>4. CASE ~(FetchPeerKeyBundle(i) \/ runFriendRepin(i) \/ PropagateNameToShares(i))
  <2>1. proc[i].pc \in SealPcs
    BY Zenon, <1>4 DEF Sealing, withFileLock, lockTimeout, statLock, breakStaleLock, readNonce, releaseOwnLock,
       peerSigningIdentity, PinPeerSealKey, sealStoreFailure, loadPeerSealPkFile, writePeerSealRecord,
       SealPcs, On
  <2>2. proc[i].now.op # "verify" /\ (Tidy => proc[i].now.todo = <<>>) /\ proc[i].pc \notin {"remember", "append"}
    BY Zenon, <2>1 DEF SignInv, Signed, OwnCall, SealPcs
  <2> DEFINE Good == /\ \A j \in Procs \ {i} : proc'[j] = proc[j]
                     /\ proc'[i].pc \notin VerifyPcs /\ proc'[i].seeded = proc[i].seeded
                     /\ proc'[i].now.op # "verify"
                     /\ proc'[i].now.todo \in {proc[i].now.todo, <<>>}
  <2> SUFFICES Good
    BY Zenon, <1>1, <2>2, OtherSigns
  <2>3. ASSUME NEW pc \in SealPcs \cup {"done", "refused"}, NEW c, proc' = [proc EXCEPT ![i].pc = pc, ![i].now = c],
               c.op # "verify", c.todo \in {proc[i].now.todo, <<>>}
        PROVE  Good
    <3>1. /\ proc'[i].pc = pc /\ proc'[i].now = c /\ proc'[i].seeded = proc[i].seeded
          /\ \A j \in Procs \ {i} : proc'[j] = proc[j]
      BY <1>2, <2>3
    <3>2. pc \notin VerifyPcs
      BY DEF SealPcs, VerifyPcs
    <3> QED BY Zenon, <2>3, <3>1, <3>2
  <2>4. ASSUME NEW pc \in SealPcs, Onto(i, pc) PROVE Good
    <3>1. proc' = [proc EXCEPT ![i].pc = pc, ![i].now = proc[i].now]
      BY Zenon, <1>2, <2>4 DEF Onto
    <3> QED BY Zenon, <2>2, <2>3, <3>1
  <2>5. ASSUME NEW pc \in {"done", "refused"}, Finish(i, pc) PROVE Good
    <3> DEFINE c == IF pc = "refused" /\ proc[i].now.op # "verify" THEN Blank
                    ELSE [proc[i].now EXCEPT !.copy = None, !.todo = <<>>]
    <3>1. proc' = [proc EXCEPT ![i].pc = pc, ![i].now = c]
      BY <1>2, <2>5 DEF Finish
    <3>2. c.op # "verify" /\ c.todo = <<>>
      BY <1>2, <2>2 DEF Blank
    <3> HIDE DEF c
    <3> QED BY Zenon, <2>3, <3>1, <3>2
  <2>6. CASE peerSigningIdentity(i)
    <3> DEFINE bundle(id) == IF id = None THEN [proc[i].now.bundle EXCEPT !.anchor = None, !.signed = FALSE]
                             ELSE [id EXCEPT !.fp = proc[i].now.bundle.fp, !.signed = @ /\ id.fp = proc[i].now.bundle.fp]
    <3>0. \E id : proc' = [proc EXCEPT ![i].pc = "check", ![i].peerBundles[proc[i].now.peer] = id,
                                       ![i].now.bundle = bundle(id)]
      BY Zenon, <2>6 DEF peerSigningIdentity
    <3> HIDE DEF bundle
    <3>1. PICK id, b : proc' = [proc EXCEPT ![i].pc = "check", ![i].peerBundles[proc[i].now.peer] = id,
                                            ![i].now.bundle = b]
      BY Zenon, <3>0
    <3>2. /\ proc'[i].pc = "check" /\ proc'[i].seeded = proc[i].seeded
          /\ \A j \in Procs \ {i} : proc'[j] = proc[j]
      BY <1>2, <3>1
    <3>3. proc'[i].now.op = proc[i].now.op /\ proc'[i].now.todo = proc[i].now.todo
      BY <1>2, <3>1
    <3>4. "check" \notin VerifyPcs BY DEF VerifyPcs
    <3> QED BY Zenon, <2>2, <3>2, <3>3, <3>4
  <2> HIDE DEF Good
  <2>7. CASE loadPeerSealPkFile(i) \/ writePeerSealRecord(i)
    <3>1. Onto(i, "kept") \/ \E pc \in {"store", "release", "kept"} : \E d : proc' = [proc EXCEPT ![i].pc = pc, ![i].now.copy = d]
      BY Zenon, <2>7 DEF loadPeerSealPkFile, writePeerSealRecord
    <3>2. ASSUME NEW pc \in {"store", "release", "kept"}, NEW d, proc' = [proc EXCEPT ![i].pc = pc, ![i].now.copy = d]
          PROVE  Good
      <4>1. proc' = [proc EXCEPT ![i].pc = pc, ![i].now = [proc[i].now EXCEPT !.copy = d]]
        BY <1>2, <3>2
      <4>2. /\ [proc[i].now EXCEPT !.copy = d].op # "verify"
            /\ [proc[i].now EXCEPT !.copy = d].todo = proc[i].now.todo
        BY <1>2, <2>2
      <4> QED BY Zenon, <2>3, <4>1, <4>2 DEF SealPcs
    <3> QED BY Zenon, <2>4, <3>1, <3>2 DEF SealPcs
  <2>8. CASE withFileLock(i) \/ statLock(i) \/ breakStaleLock(i)
    <3>1. \E pc \in SealPcs : Onto(i, pc)
      BY Zenon, <2>8 DEF withFileLock, statLock, breakStaleLock, SealPcs
    <3> QED BY Zenon, <2>4, <3>1
  <2>9. CASE lockTimeout(i) \/ readNonce(i) \/ releaseOwnLock(i) \/ PinPeerSealKey(i) \/ sealStoreFailure(i)
    <3>1. (\E pc \in SealPcs : Onto(i, pc)) \/ (\E pc \in {"done", "refused"} : Finish(i, pc))
      <4> DEFINE L(pc) == Onto(i, pc)
                 F(pc) == Finish(i, pc)
      <4>1. {"lock", "unlink", "unlinkKept"} \subseteq SealPcs
        BY DEF SealPcs
      <4>2. L("lock") \/ L("unlink") \/ L("unlinkKept") \/ F("done") \/ F("refused")
        <5>1. CASE lockTimeout(i) \/ sealStoreFailure(i) BY Zenon, <5>1 DEF lockTimeout, sealStoreFailure
        <5>2. CASE releaseOwnLock(i)
          <6>1. F(IF On(i, "unlink") THEN "done" ELSE "refused") BY Zenon, <5>2 DEF releaseOwnLock
          <6> HIDE DEF F
          <6> QED BY <6>1
        <5>3. CASE readNonce(i)
          <6>1. \/ L(IF On(i, "release") THEN "unlink" ELSE "unlinkKept")
                \/ F(IF On(i, "release") THEN "done" ELSE "refused")
            BY Zenon, <5>3 DEF readNonce
          <6> HIDE DEF F, L
          <6> QED BY <6>1
        <5>4. CASE PinPeerSealKey(i)
          <6>1. L("lock") \/ F("refused") \/ F(IF proc[i].now.op = "seal" THEN "done" ELSE "refused")
            BY Zenon, <5>4 DEF PinPeerSealKey
          <6> HIDE DEF F, L
          <6> QED BY <6>1
        <5> QED BY Zenon, <2>9, <5>1, <5>2, <5>3, <5>4
      <4> QED BY Zenon, <4>1, <4>2
    <3> QED BY Zenon, <2>4, <2>5, <3>1
  <2> QED BY Zenon, <1>4, <2>6, <2>7, <2>8, <2>9 DEF Sealing
<1> QED
  BY Zenon, <1>3, <1>4

\* What is left of a list, and what is in it.
LEMMA HeadTail ==
    ASSUME NEW S, NEW s \in Seq(S), s # <<>>
    PROVE  Head(s) \in S /\ Tail(s) \in Seq(S) /\ Range(s) = {Head(s)} \cup Range(Tail(s))
<1>1. Len(s) \in Nat /\ Len(s) > 0 /\ Head(s) = s[1] /\ DOMAIN s = 1 .. Len(s)
  OBVIOUS
<1>2. /\ Tail(s) \in Seq(S) /\ Len(Tail(s)) = Len(s) - 1 /\ DOMAIN Tail(s) = 1 .. Len(s) - 1
      /\ \A i \in 1 .. Len(s) - 1 : Tail(s)[i] = s[i + 1]
  BY <1>1
<1>3. ASSUME NEW x \in Range(s) PROVE x \in {Head(s)} \cup Range(Tail(s))
  <2>1. PICK i \in 1 .. Len(s) : x = s[i] BY Zenon, <1>1 DEF Range
  <2>2. CASE i = 1 BY <1>1, <2>1, <2>2
  <2>3. CASE i # 1
    <3>1. i - 1 \in 1 .. Len(s) - 1 /\ i - 1 + 1 = i BY <1>1, <2>1, <2>3
    <3>2. Tail(s)[i - 1] = x BY <1>2, <2>1, <3>1
    <3> QED BY Zenon, <1>2, <3>1, <3>2 DEF Range
  <2> QED BY Zenon, <2>2, <2>3
<1>4. ASSUME NEW x \in {Head(s)} \cup Range(Tail(s)) PROVE x \in Range(s)
  <2>1. CASE x = Head(s)
    <3>1. 1 \in DOMAIN s BY <1>1
    <3> QED BY Zenon, <1>1, <2>1, <3>1 DEF Range
  <2>2. CASE x \in Range(Tail(s))
    <3>1. PICK i \in 1 .. Len(s) - 1 : x = Tail(s)[i] BY Zenon, <1>2, <2>2 DEF Range
    <3>2. i + 1 \in DOMAIN s /\ x = s[i + 1] BY <1>1, <1>2, <3>1
    <3> QED BY Zenon, <3>2 DEF Range
  <2> QED BY Zenon, <1>4, <2>1, <2>2
<1> QED
  BY <1>1, <1>2, <1>3, <1>4

\* All our keys fit into the file, if the limit is above the length of the history.
LEMMA OwnKeysFit == IsFiniteSet(OwnKeys) /\ Cardinality(OwnKeys) <= Len(History) + 1
<1> DEFINE n == Len(History)
           H == Range(History)
<1>1. n \in Nat /\ History \in [1 .. n -> H] /\ DOMAIN History = 1 .. n
  BY HistoryAssumption
<1>2. IsFiniteSet(1 .. n) /\ Cardinality(1 .. n) = n
  <2>0. 1 \in Int /\ n \in Int BY <1>1
  <2> HIDE DEF n
  <2>1. Cardinality(1 .. n) = IF 1 > n THEN 0 ELSE n - 1 + 1 BY Zenon, <2>0, FS_Interval
  <2>2. IsFiniteSet(1 .. n) BY Zenon, <2>0, FS_Interval
  <2> QED BY <2>1, <2>2, <1>1
<1>3. \A x \in H : \E i \in 1 .. n : History[i] = x
  BY Zenon, <1>1 DEF Range
<1>4. History \in Surjection(1 .. n, H)
  BY Zenon, <1>1, <1>3 DEF Surjection
<1>5. IsFiniteSet(H) /\ Cardinality(H) <= n
  BY <1>2, <1>4, FS_Surjection
<1>6. Cardinality(H) \in Nat
  BY Zenon, <1>5, FS_CardinalityType
<1>7. /\ IsFiniteSet(H \cup {Own})
      /\ Cardinality(H \cup {Own}) = IF Own \in H THEN Cardinality(H) ELSE Cardinality(H) + 1
  BY Zenon, <1>5, FS_AddElement
<1> QED
  BY <1>1, <1>5, <1>6, <1>7 DEF OwnKeys

\* A key is added, and none goes.
LEMMA Remembered ==
    ASSUME NEW s \in Seq(OwnKeys), IsInjective(s), NEW e \in OwnKeys, e \notin Range(s),
           Len(History) < OwnMax
    PROVE  /\ keepLast(Append(s, e)) \in Seq(OwnKeys) /\ IsInjective(keepLast(Append(s, e)))
           /\ Range(keepLast(Append(s, e))) = Range(s) \cup {e}
<1> DEFINE a == Append(s, e)
           n == Len(s) + 1
<1>1. /\ a \in Seq(OwnKeys) /\ Len(s) \in Nat /\ Len(a) = n /\ n \in Nat
      /\ DOMAIN a = 1 .. n /\ DOMAIN s = 1 .. Len(s)
      /\ a[n] = e /\ (\A i \in 1 .. Len(s) : a[i] = s[i]) /\ n = Len(s) + 1
  OBVIOUS
<1> HIDE DEF a, n
<1>2. \A i \in 1 .. n : i \in 1 .. Len(s) \/ i = n
  BY <1>1
<1>3. \A i \in 1 .. Len(s) : a[i] # e /\ i \in 1 .. n
  <2>1. \A i \in 1 .. Len(s) : s[i] # e BY Zenon, <1>1 DEF Range
  <2> QED BY <1>1, <2>1
<1>4. IsInjective(a)
  <2>1. \A i, j \in 1 .. Len(s) : s[i] = s[j] => i = j BY Zenon, <1>1 DEF IsInjective
  <2>2. ASSUME NEW i \in 1 .. n, NEW j \in 1 .. n, a[i] = a[j] PROVE i = j
    <3>1. CASE i \in 1 .. Len(s) /\ j \in 1 .. Len(s) BY Zenon, <1>1, <2>1, <2>2, <3>1
    <3>2. CASE i = n /\ j = n BY Zenon, <3>2
    <3>3. CASE (i \in 1 .. Len(s) /\ j = n) \/ (i = n /\ j \in 1 .. Len(s))
      BY Zenon, <1>1, <1>3, <2>2, <3>3
    <3> QED BY Zenon, <1>2, <3>1, <3>2, <3>3
  <2> QED BY Zenon, <1>1, <2>2 DEF IsInjective
<1>5. Range(a) = Range(s) \cup {e}
  <2>1. n \in 1 .. n BY <1>1
  <2>2. \A x : x \in Range(a) <=> \E i \in 1 .. n : x = a[i] BY Zenon, <1>1 DEF Range
  <2>3. \A x : x \in Range(s) <=> \E i \in 1 .. Len(s) : x = s[i] BY Zenon, <1>1 DEF Range
  <2>4. ASSUME NEW x \in Range(a) PROVE x \in Range(s) \cup {e}
    <3>1. PICK i \in 1 .. n : x = a[i] BY Zenon, <2>2, <2>4
    <3>2. CASE i = n BY Zenon, <1>1, <3>1, <3>2
    <3>3. CASE i \in 1 .. Len(s)
      <4>1. x = s[i] BY Zenon, <1>1, <3>1, <3>3
      <4> QED BY Zenon, <2>3, <3>3, <4>1
    <3> QED BY Zenon, <1>2, <3>1, <3>2, <3>3
  <2>5. ASSUME NEW x \in Range(s) PROVE x \in Range(a)
    <3>1. PICK i \in 1 .. Len(s) : x = s[i] BY Zenon, <2>3, <2>5
    <3>2. x = a[i] /\ i \in 1 .. n BY Zenon, <1>1, <1>3, <3>1
    <3> QED BY Zenon, <2>2, <3>2
  <2>6. e \in Range(a) BY Zenon, <1>1, <2>1, <2>2
  <2> QED BY Zenon, <2>4, <2>5, <2>6
<1>6. Len(a) <= OwnMax
  <2>1. a \in [1 .. n -> OwnKeys] BY <1>1
  <2>2. a \in Injection(1 .. n, OwnKeys) BY Zenon, <1>1, <1>4, <2>1 DEF Injection, IsInjective
  <2>3. Cardinality(1 .. n) <= Cardinality(OwnKeys) BY Zenon, <2>2, OwnKeysFit, FS_Injection
  <2>4. Cardinality(1 .. n) = IF 1 > n THEN 0 ELSE n - 1 + 1 BY <1>1, FS_Interval
  <2>5. Cardinality(OwnKeys) \in Nat BY Zenon, OwnKeysFit, FS_CardinalityType
  <2>6. Len(History) \in Nat BY HistoryAssumption
  <2> QED BY <1>1, <2>3, <2>4, <2>5, <2>6, OwnKeysFit, OwnMaxAssumption
<1>7. keepLast(a) = a
  BY <1>1, <1>6, OwnMaxAssumption DEF keepLast
<1> QED
  BY Zenon, <1>1, <1>4, <1>5, <1>7 DEF a

\* The verification of a file up to the decision, but for the write of the own keys.
LEMMA VerifyingSigns ==
    ASSUME SealInv, SignInv, NEW i \in Procs,
           \/ verifyOwnerSigsReader(i) \/ loadSigningPkFile(i) \/ signingEdPubTrusted(i)
           \/ seedOwnSigningPkHistory(i) \/ checkForeignSignerOnOwnNode(i)
    PROVE  SignInv'
<1>1. UNCHANGED signing
  BY Zenon DEF verifyOwnerSigsReader, Begin, loadSigningPkFile, signingEdPubTrusted,
     seedOwnSigningPkHistory, checkForeignSignerOnOwnNode
<1>2. DOMAIN proc = Procs /\ DOMAIN proc[i] = ProcFields /\ DOMAIN proc[i].now = CallFields
  BY Zenon DEF SealInv, Shape
<1>3. /\ UNCHANGED <<signPins, ownPins>>
      /\ Signed(i) /\ (~raced => ForeignCall(i)) /\ (Tidy => OwnCall(i) /\ ownPins \in Seq(OwnKeys))
  BY Zenon, <1>1 DEF signing, SignInv, SignFiles
<1> USE DEF ProcFields, CallFields
<1>4. CASE verifyOwnerSigsReader(i)
  <2>1. PICK f \in Signatures :
          Begin(i, [Blank EXCEPT !.op = "verify", !.file = f, !.todo = <<Own>>], "remember")
    BY Zenon, <1>4 DEF verifyOwnerSigsReader
  <2> DEFINE c == [Blank EXCEPT !.op = "verify", !.file = f, !.todo = <<Own>>]
  <2>2. c.file = f /\ c.todo = <<Own>> /\ c.answered = FALSE /\ c.todo \in Seq(OwnKeys)
    BY DEF Blank, OwnKeys
  <2> HIDE DEF c
  <2>3. proc' = [proc EXCEPT ![i].pc = "remember", ![i].now = c] /\ proc[i].pc \in Ended
    BY Zenon, <2>1 DEF Begin, c
  <2>4. /\ proc'[i].pc = "remember" /\ proc'[i].now = c /\ proc'[i].seeded = proc[i].seeded
        /\ \A j \in Procs \ {i} : proc'[j] = proc[j]
    BY <1>2, <2>3
  <2>5. Signed(i)' /\ ForeignCall(i)'
    BY Zenon, <2>2, <2>4 DEF Signed, ForeignCall, SealPcs
  <2>6. ASSUME Tidy PROVE OwnCall(i)'
    <3>1. proc[i].now.todo = <<>>
      BY Zenon, <1>3, <2>3, <2>6 DEF OwnCall, Ended
    <3>2. proc[i].seeded => Range(History) \subseteq Range(ownPins)
      <4>1. Range(<<>>) = {} BY DEF Range
      <4> QED BY Zenon, <1>3, <2>6, <3>1, <4>1 DEF OwnCall
    <3> QED BY Zenon, <1>3, <2>2, <2>4, <3>2 DEF OwnCall
  <2> QED BY Zenon, <1>1, <2>4, <2>5, <2>6, CallSigns
\* A step that keeps the call, but for the place and what is to be remembered.
<1>5. ASSUME NEW pc, NEW c, NEW s,
             \A j \in Procs \ {i} : proc'[j] = proc[j],
             proc'[i].pc = pc, proc'[i].now = c, proc'[i].seeded = s,
             c.file = proc[i].now.file, c.op = proc[i].now.op,
             proc[i].pc \in VerifyPcs, pc \in VerifyPcs \cup {"refused"},
             pc \in ForeignPcs => c.file.by \in Peers \ {""},
             pc # "record", ~raced /\ pc = "verifyPinned" => signPins[c.file.by] = c.file.key,
             Tidy => OwnCall(i)'
      PROVE  SignInv'
  <2>1. Signed(i)'
    <3>1. pc \notin SealPcs BY Zenon, <1>5 DEF SealPcs, VerifyPcs
    <3>2. pc \in VerifyPcs => c.file \in Signatures BY Zenon, <1>3, <1>5 DEF Signed
    <3> QED BY Zenon, <1>5, <3>1, <3>2 DEF Signed
  <2>2. ~raced => ForeignCall(i)'
    BY Zenon, <1>3, <1>5 DEF ForeignCall
  <2> QED BY Zenon, <1>1, <1>5, <2>1, <2>2, CallSigns
<1>6. CASE loadSigningPkFile(i)
  <2> DEFINE todo == proc[i].now.todo
  <2>1. proc[i].pc = "remember"
    BY Zenon, <1>6 DEF loadSigningPkFile, On
  <2>2. proc[i].pc \in VerifyPcs /\ {"trust", "remember", "append"} \subseteq VerifyPcs
    BY <2>1 DEF VerifyPcs
  <2>3. CASE todo = <<>> /\ Onto(i, "trust")
    <3>1. /\ proc'[i].pc = "trust" /\ proc'[i].now = proc[i].now /\ proc'[i].seeded = proc[i].seeded
          /\ \A j \in Procs \ {i} : proc'[j] = proc[j]
      BY <1>2, <2>3 DEF Onto
    <3>2. Tidy => OwnCall(i)'
      BY Zenon, <1>3, <2>2, <2>3, <3>1 DEF OwnCall
    <3> QED BY Zenon, <1>5, <2>2, <3>1, <3>2
  <2>4. CASE todo # <<>> /\ Head(todo) \in Range(ownPins) /\ proc' = [proc EXCEPT ![i].now.todo = Tail(todo)]
    <3> DEFINE c == [proc[i].now EXCEPT !.todo = Tail(todo)]
    <3>1. /\ proc'[i].pc = "remember" /\ proc'[i].now = c /\ proc'[i].seeded = proc[i].seeded
          /\ \A j \in Procs \ {i} : proc'[j] = proc[j]
      BY <1>2, <2>1, <2>4
    <3>2. /\ c.todo = Tail(todo) /\ c.file = proc[i].now.file /\ c.op = proc[i].now.op
          /\ c.answered = proc[i].now.answered
      BY <1>2
    <3> HIDE DEF c
    <3>3. ASSUME Tidy PROVE OwnCall(i)'
      <4>1. todo \in Seq(OwnKeys) BY Zenon, <1>3, <3>3 DEF OwnCall
      <4>2. Tail(todo) \in Seq(OwnKeys) /\ Range(todo) = {Head(todo)} \cup Range(Tail(todo))
        BY Zenon, <2>4, <4>1, HeadTail
      <4>3. proc[i].seeded => Range(History) \subseteq Range(ownPins) \cup Range(Tail(todo))
        BY Zenon, <1>3, <2>4, <3>3, <4>2 DEF OwnCall
      <4>4. proc[i].now.answered => proc[i].seeded BY Zenon, <1>3, <2>2, <3>3 DEF OwnCall
      <4> QED BY Zenon, <1>3, <3>1, <3>2, <4>2, <4>3, <4>4 DEF OwnCall
    <3> QED BY Zenon, <1>5, <2>2, <3>1, <3>2, <3>3
  <2>5. CASE /\ todo # <<>> /\ Head(todo) \notin Range(ownPins)
             /\ proc' = [proc EXCEPT ![i].pc = "append", ![i].now.copy = ownPins]
    <3> DEFINE c == [proc[i].now EXCEPT !.copy = ownPins]
    <3>1. /\ proc'[i].pc = "append" /\ proc'[i].now = c /\ proc'[i].seeded = proc[i].seeded
          /\ \A j \in Procs \ {i} : proc'[j] = proc[j]
      BY <1>2, <2>1, <2>5
    <3>2. /\ c.todo = todo /\ c.file = proc[i].now.file /\ c.op = proc[i].now.op
          /\ c.answered = proc[i].now.answered /\ c.copy = ownPins
      BY <1>2
    <3> HIDE DEF c
    <3>3. ASSUME Tidy PROVE OwnCall(i)'
      BY Zenon, <1>3, <2>2, <2>5, <3>1, <3>2, <3>3 DEF OwnCall
    <3> QED BY Zenon, <1>5, <2>2, <3>1, <3>2, <3>3
  <2> QED BY Zenon, <1>6, <2>3, <2>4, <2>5 DEF loadSigningPkFile
<1>7. CASE seedOwnSigningPkHistory(i)
  <2>1. PICK got \in BOOLEAN :
         proc' = [proc EXCEPT ![i].pc = "remember", ![i].seeded = @ \/ (~proc[i].seeded /\ got),
                              ![i].now.asked = TRUE, ![i].now.answered = proc[i].seeded \/ got,
                              ![i].now.todo = IF ~proc[i].seeded /\ got THEN History ELSE <<>>]
    BY Zenon, <1>7 DEF seedOwnSigningPkHistory
  <2>2. PICK td : td = IF ~proc[i].seeded /\ got THEN History ELSE <<>> BY Zenon
  <2>3. PICK sd : sd = (proc[i].seeded \/ (~proc[i].seeded /\ got)) BY Zenon
  <2>4. PICK an : an = (proc[i].seeded \/ got) BY Zenon
  <2>5. proc' = [proc EXCEPT ![i].pc = "remember", ![i].seeded = sd,
                              ![i].now.asked = TRUE, ![i].now.answered = an, ![i].now.todo = td]
    BY Zenon, <2>1, <2>2, <2>3, <2>4
  <2>6. /\ proc'[i].pc = "remember" /\ proc'[i].seeded = sd /\ \A j \in Procs \ {i} : proc'[j] = proc[j]
    BY <1>2, <2>5
  <2>7. /\ proc'[i].now.file = proc[i].now.file /\ proc'[i].now.op = proc[i].now.op
        /\ proc'[i].now.answered = an /\ proc'[i].now.todo = td
    BY <1>2, <2>5
  <2>8. proc[i].pc \in VerifyPcs /\ "remember" \in VerifyPcs /\ proc[i].pc = "seed"
    BY Zenon, <1>7 DEF VerifyPcs, seedOwnSigningPkHistory, On
  <2>9. ASSUME Tidy PROVE OwnCall(i)'
    <3>1. History \in Seq(OwnKeys) /\ <<>> \in Seq(OwnKeys)
      BY HistoryAssumption DEF OwnKeys
    <3>2. Range(<<>>) = {} BY DEF Range
    <3>3. proc[i].now.todo = <<>> BY Zenon, <1>3, <2>8, <2>9 DEF OwnCall
    <3>4. proc[i].seeded => Range(History) \subseteq Range(ownPins)
      BY Zenon, <1>3, <2>9, <3>2, <3>3 DEF OwnCall
    <3>5. td \in Seq(OwnKeys) BY Zenon, <2>2, <3>1
    <3>6. sd => Range(History) \subseteq Range(ownPins) \cup Range(td)
      <4>1. CASE proc[i].seeded BY Zenon, <3>4, <4>1
      <4>2. CASE ~proc[i].seeded /\ got BY Zenon, <2>2, <4>2
      <4> QED BY Zenon, <2>3, <4>1, <4>2
    <3>7. an => sd BY Zenon, <2>3, <2>4
    <3> QED BY Zenon, <1>3, <2>6, <2>7, <3>5, <3>6, <3>7 DEF OwnCall
  <2>10. "remember" \notin ForeignPcs BY DEF ForeignPcs
  <2> QED BY Zenon, <1>5, <2>6, <2>7, <2>8, <2>9, <2>10
\* The call goes on at another place.
<1>8. ASSUME NEW pc \in {"verify", "seed", "foreign", "verifyPinned"}, Onto(i, pc),
             proc[i].pc \in VerifyPcs \ {"remember", "append"},
             pc \in ForeignPcs => proc[i].now.file.by \in Peers \ {""},
             ~raced /\ pc = "verifyPinned" => signPins[proc[i].now.file.by] = proc[i].now.file.key
      PROVE  SignInv'
  <2>1. /\ proc'[i].pc = pc /\ proc'[i].now = proc[i].now /\ proc'[i].seeded = proc[i].seeded
        /\ \A j \in Procs \ {i} : proc'[j] = proc[j]
    BY Zenon, <1>2, <1>8 DEF Onto
  <2>2. pc \in VerifyPcs /\ pc \notin {"remember", "append", "refused", "record"}
    BY DEF VerifyPcs
  <2>3. Tidy => OwnCall(i)'
    BY Zenon, <1>3, <1>8, <2>1, <2>2 DEF OwnCall
  <2> QED BY Zenon, <1>5, <1>8, <2>1, <2>2, <2>3
\* The call is refused.
<1>9. ASSUME NEW c, proc[i].pc \in VerifyPcs \ {"remember", "append"},
             proc'[i].pc = "refused", proc'[i].now = c, proc'[i].seeded = proc[i].seeded,
             \A j \in Procs \ {i} : proc'[j] = proc[j],
             c.file = proc[i].now.file, c.op = proc[i].now.op, c.answered = proc[i].now.answered,
             c.todo \in {<<>>, proc[i].now.todo},
             Tidy /\ c.file.by = "" /\ c.file.key \in Range(History) => ~c.answered
      PROVE  SignInv'
  <2>1. "refused" \notin VerifyPcs \cup ForeignPcs BY DEF VerifyPcs
  <2>2. ASSUME Tidy PROVE OwnCall(i)'
    <3>1. proc[i].now.todo = <<>> BY Zenon, <1>3, <1>9, <2>2 DEF OwnCall
    <3>2. c.todo = <<>> BY Zenon, <1>9, <3>1
    <3>3. <<>> \in Seq(OwnKeys) OBVIOUS
    <3> QED BY Zenon, <1>3, <1>9, <2>1, <2>2, <3>1, <3>2, <3>3 DEF OwnCall
  <2> QED BY Zenon, <1>5, <1>9, <2>1, <2>2
<1>10. ASSUME Finish(i, "refused"), proc[i].pc \in VerifyPcs \ {"remember", "append"},
              Tidy /\ proc[i].now.file.by = "" /\ proc[i].now.file.key \in Range(History)
                => ~proc[i].now.answered
       PROVE  SignInv'
  <2> DEFINE c == [proc[i].now EXCEPT !.copy = None, !.todo = <<>>]
  <2>1. proc[i].now.op = "verify" BY Zenon, <1>10 DEF SealInv, Recorded, Backed
  <2>2. proc' = [proc EXCEPT ![i].pc = "refused", ![i].now = c]
    BY Zenon, <1>2, <1>10, <2>1 DEF Finish
  <2>3. /\ c.todo = <<>> /\ c.file = proc[i].now.file /\ c.op = proc[i].now.op
        /\ c.answered = proc[i].now.answered
    BY <1>2
  <2> HIDE DEF c
  <2>4. /\ proc'[i].pc = "refused" /\ proc'[i].now = c /\ proc'[i].seeded = proc[i].seeded
        /\ \A j \in Procs \ {i} : proc'[j] = proc[j]
    BY <1>2, <2>2
  <2> QED BY Zenon, <1>9, <1>10, <2>3, <2>4

<1>11. CASE signingEdPubTrusted(i)
  <2> DEFINE f == proc[i].now.file
             ours == f.key = Own \/ f.key \in Range(ownPins)
  <2>1. proc[i].pc = "trust" /\ proc[i].pc \in VerifyPcs \ {"remember", "append"}
    BY Zenon, <1>11 DEF VerifyPcs, signingEdPubTrusted, On
  <2>2. CASE Onto(i, "verify") \/ Onto(i, "seed")
    <3>1. {"verify", "seed"} \cap ForeignPcs = {} /\ "verifyPinned" \notin {"verify", "seed"}
      BY DEF ForeignPcs
    <3> QED BY Zenon, <1>8, <2>1, <2>2, <3>1
  <2>3. CASE f.by # "" /\ Onto(i, "foreign")
    <3>1. f.by \in Peers \ {""}
      BY Zenon, <1>3, <2>1, <2>3, SignaturesAssumption DEF Signed
    <3> QED BY Zenon, <1>8, <2>1, <2>3, <3>1
  <2>4. CASE ~ours /\ Finish(i, "refused")
    <3>1. ASSUME Tidy, f.key \in Range(History) PROVE ~proc[i].now.answered
      <4>1. proc[i].now.todo = <<>> BY Zenon, <1>3, <2>1, <3>1 DEF OwnCall
      <4>2. Range(<<>>) = {} BY DEF Range
      <4>3. proc[i].seeded => Range(History) \subseteq Range(ownPins)
        BY Zenon, <1>3, <3>1, <4>1, <4>2 DEF OwnCall
      <4>4. ~proc[i].seeded BY Zenon, <2>4, <3>1, <4>3
      <4> QED BY Zenon, <1>3, <2>1, <3>1, <4>4 DEF OwnCall
    <3> QED BY Zenon, <1>10, <2>1, <2>4, <3>1
  <2> QED BY Zenon, <1>11, <2>2, <2>3, <2>4 DEF signingEdPubTrusted
<1>12. CASE checkForeignSignerOnOwnNode(i)
  <2> DEFINE f == proc[i].now.file
             seen == signPins[f.by]
  <2>1. proc[i].pc = "foreign" /\ proc[i].pc \in VerifyPcs \ {"remember", "append"}
        /\ proc[i].pc \in ForeignPcs
    BY <1>12 DEF VerifyPcs, checkForeignSignerOnOwnNode, On
  <2>2. f.by \in Peers \ {""} BY Zenon, <1>3, <2>1 DEF Signed
  <2>3. CASE seen = f.key /\ Onto(i, "verifyPinned")
    BY Zenon, <1>8, <2>1, <2>2, <2>3
  <2>4. CASE Finish(i, "refused")
    BY Zenon, <1>10, <2>1, <2>2, <2>4
  <2>5. ASSUME NEW fs, NEW pc \in {"verifyFirst", "refused"},
               proc' = [proc EXCEPT ![i].pc = pc, ![i].friendSet = fs]
        PROVE  SignInv'
    <3>1. /\ proc'[i].pc = pc /\ proc'[i].now = proc[i].now /\ proc'[i].seeded = proc[i].seeded
          /\ \A j \in Procs \ {i} : proc'[j] = proc[j]
      BY <1>2, <2>5
    <3>2. CASE pc = "refused"
      BY Zenon, <1>9, <2>1, <2>2, <3>1, <3>2
    <3>3. CASE pc = "verifyFirst"
      <4>1. pc \in VerifyPcs /\ pc \notin {"remember", "append", "refused", "record", "verifyPinned"}
        BY <3>3 DEF VerifyPcs
      <4>2. Tidy => OwnCall(i)' BY Zenon, <1>3, <2>1, <3>1, <4>1 DEF OwnCall
      <4> QED BY Zenon, <1>5, <2>1, <2>2, <3>1, <4>1, <4>2
    <3> QED BY Zenon, <3>2, <3>3
  <2>6. CASE seen = None
    <3>1. PICK fs \in {proc[i].friendSet, friends} :
            IF f.by \in fs
            THEN proc' = [proc EXCEPT ![i].pc = "verifyFirst", ![i].friendSet = fs]
            ELSE proc' = [proc EXCEPT ![i].pc = "refused", ![i].friendSet = fs]
      BY Zenon, <1>12, <2>6 DEF checkForeignSignerOnOwnNode
    <3> QED BY Zenon, <2>5, <3>1
  <2> QED BY Zenon, <1>12, <2>3, <2>4, <2>6 DEF checkForeignSignerOnOwnNode
<1> QED BY Zenon, <1>4, <1>6, <1>7, <1>11, <1>12

\* A step of one process that writes the files, forgets none of their keys, and leaves the
\* rest to the others.
LEMMA FileSigns ==
    ASSUME SignInv, NEW i \in Procs, \A j \in Procs \ {i} : proc'[j] = proc[j],
           SignFiles', Signed(i)', ~raced' => ForeignCall(i)', Tidy' => OwnCall(i)',
           ~raced' => /\ ~raced
                      /\ \A p \in Peers : signPins[p] # None => signPins'[p] = signPins[p],
           Tidy' => Range(ownPins) \subseteq Range(ownPins')
    PROVE  SignInv'
<1>1. Tidy' => Tidy
  BY Zenon DEF Tidy
<1>2. ASSUME NEW j \in Procs, j # i PROVE Signed(j)' /\ (~raced' => ForeignCall(j)') /\ (Tidy' => OwnCall(j)')
  <2>1. /\ Signed(j) /\ (~raced => ForeignCall(j)) /\ (Tidy => OwnCall(j)) /\ proc'[j] = proc[j]
    BY Zenon, <1>2 DEF SignInv
  <2>2. Signed(j)' BY Zenon, <2>1 DEF Signed
  <2>3. ASSUME ~raced' PROVE ForeignCall(j)'
    <3>1. ASSUME proc[j].pc = "verifyPinned" PROVE signPins'[proc[j].now.file.by] = proc[j].now.file.key
      <4>1. proc[j].pc \in ForeignPcs /\ proc[j].pc \in VerifyPcs BY Zenon, <3>1 DEF ForeignPcs, VerifyPcs
      <4>2. proc[j].now.file \in Signatures /\ proc[j].now.file.by \in Peers
        BY Zenon, <2>1, <4>1 DEF Signed
      <4>3. proc[j].now.file.key # None BY Zenon, <4>2, SignaturesAssumption
      <4>4. signPins[proc[j].now.file.by] = proc[j].now.file.key
        BY Zenon, <2>1, <2>3, <3>1 DEF ForeignCall
      <4> QED BY Zenon, <2>3, <4>2, <4>3, <4>4
    <3> QED BY Zenon, <2>1, <2>3, <3>1 DEF ForeignCall
  <2>4. Tidy' => OwnCall(j)' BY Zenon, <1>1, <2>1 DEF OwnCall
  <2> QED BY Zenon, <2>2, <2>3, <2>4
<1>3. \A j \in Procs : Signed(j)' /\ (~raced' => ForeignCall(j)') /\ (Tidy' => OwnCall(j)')
  BY Zenon, <1>2
<1> QED BY Zenon, <1>3 DEF SignInv

\* The steps that write: our own keys, what was accepted, and a peer's first key.
LEMMA FilingSigns ==
    ASSUME SealInv, SignInv, NEW i \in Procs,
           \/ rememberSigningEdPub(i) \/ VerifyFileSignatures(i) \/ loadPeerSigningPkFile(i)
           \/ recordPeerSigningPk(i)
    PROVE  SignInv'
<1>1. DOMAIN proc = Procs /\ DOMAIN proc[i] = ProcFields /\ DOMAIN proc[i].now = CallFields
  BY Zenon DEF SealInv, Shape
<1>2. /\ Signed(i) /\ (~raced => ForeignCall(i)) /\ (Tidy => OwnCall(i))
      /\ DOMAIN signPins = Peers /\ DOMAIN accepted = Peers
      /\ ~raced => \A p \in Peers : accepted[p] \subseteq {signPins[p]} \ {None}
      /\ Tidy => ownPins \in Seq(OwnKeys) /\ IsInjective(ownPins)
  BY Zenon DEF SignInv, SignFiles
<1> USE DEF ProcFields, CallFields
<1>3. CASE rememberSigningEdPub(i)
  <2> DEFINE todo == proc[i].now.todo
             c == [proc[i].now EXCEPT !.copy = None, !.todo = Tail(todo)]
  <2>1. /\ proc[i].pc = "append" /\ UNCHANGED <<signPins, accepted>>
        /\ ownPins' = keepLast(Append(proc[i].now.copy, Head(todo)))
        /\ raced' = (raced \/ proc[i].now.copy # ownPins)
    BY Zenon, <1>3 DEF rememberSigningEdPub, On
  <2>2. proc' = [proc EXCEPT ![i].pc = "remember", ![i].now = c]
    BY Zenon, <1>1, <1>3 DEF rememberSigningEdPub
  <2>3. /\ c.todo = Tail(todo) /\ c.file = proc[i].now.file /\ c.op = proc[i].now.op
        /\ c.answered = proc[i].now.answered
    BY <1>1
  <2> HIDE DEF c
  <2>4. /\ proc'[i].pc = "remember" /\ proc'[i].now = c /\ proc'[i].seeded = proc[i].seeded
        /\ \A j \in Procs \ {i} : proc'[j] = proc[j]
    BY <1>1, <2>2
  <2>5. proc[i].pc \in VerifyPcs /\ "remember" \notin ForeignPcs \cup SealPcs
    BY <2>1 DEF VerifyPcs, SealPcs
  <2>6. Signed(i)' /\ ForeignCall(i)'
    BY Zenon, <1>2, <2>3, <2>4, <2>5 DEF Signed, ForeignCall
  <2>7. ~raced' => ~raced /\ proc[i].now.copy = ownPins BY Zenon, <2>1
  <2>8. ASSUME Tidy' PROVE /\ ownPins' \in Seq(OwnKeys) /\ IsInjective(ownPins')
                           /\ Range(ownPins) \subseteq Range(ownPins') /\ OwnCall(i)'
    <3>1. Tidy /\ proc[i].now.copy = ownPins /\ Len(History) < OwnMax BY Zenon, <2>7, <2>8 DEF Tidy
    <3>2. /\ todo \in Seq(OwnKeys) /\ todo # <<>> /\ Head(todo) \notin Range(ownPins)
          /\ ownPins \in Seq(OwnKeys) /\ IsInjective(ownPins)
      BY Zenon, <1>2, <2>1, <3>1 DEF OwnCall
    <3>3. /\ Head(todo) \in OwnKeys /\ Tail(todo) \in Seq(OwnKeys)
          /\ Range(todo) = {Head(todo)} \cup Range(Tail(todo))
      BY Zenon, <3>2, HeadTail
    <3>4. /\ ownPins' \in Seq(OwnKeys) /\ IsInjective(ownPins')
          /\ Range(ownPins') = Range(ownPins) \cup {Head(todo)}
      BY Zenon, <2>1, <3>1, <3>2, <3>3, Remembered
    <3>5. proc[i].seeded => Range(History) \subseteq Range(ownPins') \cup Range(Tail(todo))
      BY Zenon, <1>2, <3>1, <3>3, <3>4 DEF OwnCall
    <3>6. proc[i].now.answered => proc[i].seeded BY Zenon, <1>2, <2>5, <3>1 DEF OwnCall
    <3>7. OwnCall(i)'
      BY Zenon, <2>3, <2>4, <3>3, <3>5, <3>6 DEF OwnCall
    <3> QED BY Zenon, <3>4, <3>7
  <2>9. SignFiles'
    BY Zenon, <1>2, <2>1, <2>7, <2>8 DEF SignFiles
  <2> QED BY Zenon, <2>1, <2>4, <2>6, <2>7, <2>8, <2>9, FileSigns
<1>4. CASE VerifyFileSignatures(i)
  <2> DEFINE f == proc[i].now.file
  <2>1. /\ proc[i].pc \in {"verify", "verifyPinned", "verifyFirst"}
        /\ UNCHANGED <<signPins, ownPins, raced>>
    BY Zenon, <1>4 DEF VerifyFileSignatures
  <2>2. PICK pc \in {"bad", "done", "commit"} :
          Onto(i, pc) /\ (pc = "commit" => proc[i].pc = "verifyFirst")
    BY <1>4, Zenon DEF VerifyFileSignatures, Onto, On
  <2>3. \/ accepted' = accepted
        \/ /\ proc[i].pc = "verifyPinned"
           /\ accepted' = [accepted EXCEPT ![f.by] = @ \cup {f.key}]
    BY Zenon, <1>4 DEF VerifyFileSignatures, On
  <2>4. /\ proc'[i].pc = pc /\ proc'[i].now = proc[i].now /\ proc'[i].seeded = proc[i].seeded
        /\ \A j \in Procs \ {i} : proc'[j] = proc[j]
    BY <1>1, <2>2 DEF Onto
  <2>5. /\ proc[i].pc \in VerifyPcs \ {"remember", "append"}
        /\ proc[i].pc \in {"verifyPinned", "verifyFirst"} => proc[i].pc \in ForeignPcs
        /\ pc \notin SealPcs \cup {"verifyPinned", "record", "remember", "append", "refused"}
        /\ pc \in VerifyPcs \cup ForeignPcs => pc = "commit"
    BY <2>1 DEF VerifyPcs, SealPcs
  <2>6. Signed(i)' /\ ForeignCall(i)'
    BY Zenon, <1>2, <2>2, <2>4, <2>5 DEF Signed, ForeignCall
  <2>7. Tidy' => OwnCall(i)'
    BY Zenon, <1>2, <2>1, <2>4, <2>5 DEF OwnCall, Tidy
  <2>8. SignFiles'
    <3>1. CASE accepted' = accepted
      BY Zenon, <1>2, <2>1, <3>1 DEF SignFiles, Tidy
    <3>2. CASE proc[i].pc = "verifyPinned" /\ accepted' = [accepted EXCEPT ![f.by] = @ \cup {f.key}]
      <4>1. f.by \in Peers /\ f.key # None
        BY Zenon, <1>2, <2>5, <3>2, SignaturesAssumption DEF Signed
      <4>2. /\ DOMAIN accepted' = Peers
            /\ \A p \in Peers :
                 accepted'[p] \subseteq accepted[p] \cup (IF p = f.by THEN {f.key} ELSE {})
        BY Zenon, <1>2, <3>2, <4>1
      <4>3. ~raced => signPins[f.by] = f.key BY Zenon, <1>2, <3>2 DEF ForeignCall
      <4>4. ~raced => \A p \in Peers : accepted'[p] \subseteq {signPins[p]} \ {None}
        BY Zenon, <1>2, <4>1, <4>2, <4>3
      <4> QED BY Zenon, <1>2, <2>1, <4>2, <4>4 DEF SignFiles, Tidy
    <3> QED BY Zenon, <2>3, <3>1, <3>2
  <2> QED BY Zenon, <2>1, <2>4, <2>6, <2>7, <2>8, FileSigns
<1>5. CASE loadPeerSigningPkFile(i)
  <2> DEFINE f == proc[i].now.file
             c == [proc[i].now EXCEPT !.copy = signPins]
  <2>1. /\ proc[i].pc = "commit" /\ UNCHANGED <<signPins, ownPins, accepted>>
        /\ raced' = (raced \/ signPins[f.by] # None)
    BY Zenon, <1>5 DEF loadPeerSigningPkFile, On
  <2>2. proc' = [proc EXCEPT ![i].pc = "record", ![i].now = c]
    BY <1>1, <1>5 DEF loadPeerSigningPkFile
  <2>3. /\ c.todo = proc[i].now.todo /\ c.file = f /\ c.op = proc[i].now.op
        /\ c.answered = proc[i].now.answered /\ c.copy = signPins
    BY <1>1
  <2> HIDE DEF c
  <2>4. /\ proc'[i].pc = "record" /\ proc'[i].now = c /\ proc'[i].seeded = proc[i].seeded
        /\ \A j \in Procs \ {i} : proc'[j] = proc[j]
    BY <1>1, <2>2
  <2>5. /\ proc[i].pc \in VerifyPcs \ {"remember", "append"} /\ proc[i].pc \in ForeignPcs
        /\ "record" \notin SealPcs
    BY <2>1 DEF VerifyPcs, SealPcs
  <2>6. Signed(i)'
    BY Zenon, <1>2, <2>3, <2>4, <2>5 DEF Signed
  <2>7. ~raced' => ~raced /\ ForeignCall(i)'
    BY Zenon, <2>1, <2>3, <2>4 DEF ForeignCall
  <2>8. Tidy' => Tidy BY Zenon, <2>7 DEF Tidy
  <2>9. Tidy' => OwnCall(i)'
    BY Zenon, <1>2, <2>1, <2>3, <2>4, <2>5, <2>8 DEF OwnCall
  <2>10. SignFiles'
    BY Zenon, <1>2, <2>1, <2>7, <2>8 DEF SignFiles
  <2> QED BY Zenon, <2>1, <2>4, <2>6, <2>7, <2>9, <2>10, FileSigns
<1>6. CASE recordPeerSigningPk(i)
  <2> DEFINE f == proc[i].now.file
             c == [proc[i].now EXCEPT !.copy = None, !.todo = <<>>]
  <2>1. /\ proc[i].pc = "record" /\ ownPins' = ownPins
        /\ signPins' = [proc[i].now.copy EXCEPT ![f.by] = f.key]
        /\ accepted' = [accepted EXCEPT ![f.by] = @ \cup {f.key}]
        /\ raced' = (raced \/ proc[i].now.copy # signPins)
    BY Zenon, <1>6 DEF recordPeerSigningPk, On
  <2>2. proc' = [proc EXCEPT ![i].pc = "done", ![i].now = c]
    BY <1>1, <1>6 DEF recordPeerSigningPk, Finish
  <2>3. c.todo = <<>> BY <1>1
  <2> HIDE DEF c
  <2>4. /\ proc'[i].pc = "done" /\ proc'[i].now = c /\ proc'[i].seeded = proc[i].seeded
        /\ \A j \in Procs \ {i} : proc'[j] = proc[j]
    BY <1>1, <2>2
  <2>5. /\ proc[i].pc \in VerifyPcs \ {"remember", "append"} /\ proc[i].pc \in ForeignPcs
        /\ "done" \notin SealPcs \cup VerifyPcs \cup ForeignPcs
    BY <2>1 DEF VerifyPcs, SealPcs
  <2>6. Signed(i)' /\ ForeignCall(i)'
    BY Zenon, <2>4, <2>5 DEF Signed, ForeignCall
  <2>7. /\ ~raced' => ~raced /\ proc[i].now.copy = signPins /\ signPins[f.by] = None
        /\ Tidy' => Tidy
    BY Zenon, <1>2, <2>1 DEF ForeignCall, Tidy
  <2>8. ASSUME Tidy' PROVE OwnCall(i)'
    <3>1. proc[i].now.todo = <<>> BY Zenon, <1>2, <2>5, <2>7, <2>8 DEF OwnCall
    <3>2. <<>> \in Seq(OwnKeys) OBVIOUS
    <3> QED BY Zenon, <1>2, <2>1, <2>3, <2>4, <2>5, <2>7, <2>8, <3>1, <3>2 DEF OwnCall
  <2>9. f.by \in Peers /\ f.key # None /\ DOMAIN proc[i].now.copy = Peers
    BY Zenon, <1>2, <2>1, <2>5, SignaturesAssumption DEF Signed
  <2>10. DOMAIN signPins' = Peers /\ DOMAIN accepted' = Peers
    BY Zenon, <1>2, <2>1, <2>9
  <2>11. ASSUME ~raced', NEW p \in Peers
         PROVE  /\ accepted'[p] \subseteq {signPins'[p]} \ {None}
                /\ signPins[p] # None => signPins'[p] = signPins[p]
    <3>1. accepted[p] \subseteq {signPins[p]} \ {None} BY Zenon, <1>2, <2>7, <2>11
    <3>2. CASE p = f.by
      <4>1. signPins[p] = None /\ accepted[p] = {} BY Zenon, <2>7, <2>11, <3>1, <3>2
      <4>2. accepted'[p] = accepted[p] \cup {f.key} /\ signPins'[p] = f.key
        BY Zenon, <1>2, <2>1, <2>9, <3>2
      <4> QED BY Zenon, <2>9, <4>1, <4>2
    <3>3. CASE p # f.by
      <4>1. accepted'[p] = accepted[p] /\ signPins'[p] = signPins[p]
        BY Zenon, <1>2, <2>1, <2>7, <2>9, <2>11, <3>3
      <4> QED BY Zenon, <3>1, <4>1
    <3> QED BY Zenon, <3>2, <3>3
  <2>12. SignFiles'
    BY Zenon, <1>2, <2>1, <2>7, <2>10, <2>11 DEF SignFiles
  <2> QED BY Zenon, <2>1, <2>4, <2>6, <2>7, <2>8, <2>11, <2>12, FileSigns
<1> QED BY Zenon, <1>3, <1>4, <1>5, <1>6

LEMMA WorldSigns ==
    ASSUME SealInv, SignInv,
           (\E i \in Procs : Die(i)) \/ Age \/ Publish \/ Unfriend \/ UNCHANGED pvars
    PROVE  SignInv'
<1>1. CASE \E i \in Procs : Die(i)
  <2>1. PICK i \in Procs : proc' = [proc EXCEPT ![i] = [NewProcess EXCEPT !.pc = "dead"]]
    BY Zenon, <1>1 DEF Die
  <2>2. UNCHANGED signing /\ DOMAIN proc = Procs
    BY Zenon, <1>1 DEF Die, SealInv, Shape
  <2>3. proc'[i] = [NewProcess EXCEPT !.pc = "dead"] /\ \A j \in Procs \ {i} : proc'[j] = proc[j]
    BY <2>1, <2>2
  <2>4. /\ proc'[i].pc = "dead" /\ ~proc'[i].seeded /\ proc'[i].now.op # "verify"
        /\ proc'[i].now.todo = <<>>
    BY <2>3 DEF NewProcess, Blank
  <2>5. "dead" \notin VerifyPcs BY DEF VerifyPcs
  <2> QED BY Zenon, <2>2, <2>3, <2>4, <2>5, OtherSigns
<1>2. CASE Age \/ Publish \/ Unfriend \/ UNCHANGED pvars
  <2>1. UNCHANGED <<signPins, ownPins, accepted, raced, proc>>
    BY <1>2 DEF Age, Publish, Unfriend, pvars, signing
  <2> QED BY Zenon, <2>1 DEF SignInv, SignFiles, Signed, ForeignCall, OwnCall, Tidy
<1> QED BY Zenon, <1>1, <1>2

\* checkForeignSignerOnOwnNode, recordPeerSigningPk, rememberSigningEdPub and
\* seedOwnSigningPkHistory: as long as no process overwrites a pin file it has not seen, a
\* peer's files are all accepted under one key, and a former key of our own is refused only
\* when the history did not answer.
THEOREM SignersAreHeld == PSpec => []SignersHold
<1>1. SealInv /\ SignInv /\ [PNext]_pvars => SignInv'
  <2> SUFFICES ASSUME SealInv, SignInv, [PNext]_pvars PROVE SignInv'
    OBVIOUS
  <2>1. CASE \E i \in Procs : Sealing(i)
    BY Zenon, <2>1, SealingSigns
  <2>2. CASE \E i \in Procs : Verifying(i)
    BY Zenon, <2>2, VerifyingSigns, FilingSigns DEF Verifying
  <2>3. CASE (\E i \in Procs : Die(i)) \/ Age \/ Publish \/ Unfriend \/ UNCHANGED pvars
    BY Zenon, <2>3, WorldSigns
  <2> QED BY Zenon, <2>1, <2>2, <2>3 DEF PNext
<1>2. SignInv => SignersHold
  <2> SUFFICES ASSUME SignInv, ~raced PROVE SignersHold
    BY Zenon DEF SignersHold
  <2>1. ASSUME NEW p \in Peers PROVE Cardinality(accepted[p]) <= 1
    <3>1. accepted[p] \subseteq {signPins[p]} BY Zenon DEF SignInv, SignFiles
    <3>2. IsFiniteSet({signPins[p]}) /\ Cardinality({signPins[p]}) = 1 BY Zenon, FS_Singleton
    <3>3. /\ Cardinality(accepted[p]) <= Cardinality({signPins[p]})
      BY Zenon, <3>1, <3>2, FS_Subset
    <3> QED BY <3>2, <3>3
  <2>2. ASSUME NEW i \in Procs, proc[i].pc = "refused", proc[i].now.op = "verify",
               proc[i].now.file.by = "", proc[i].now.file.key \in Range(History),
               Len(History) < OwnMax
        PROVE  ~proc[i].now.answered
    BY Zenon, <2>2 DEF SignInv, Tidy, OwnCall
  <2> QED BY Zenon, <2>1, <2>2 DEF SignersHold, On
<1> QED BY <1>1, <1>2, PInitSigns, PInvariant, PTL DEF PSpec

-----------------------------------------------------------------------------
(* The pin files: what they hold, and the limit of our own keys.            *)

List(l) == l \in Seq(Range(l))
Records(pins) == \A p \in Peers : pins[p] = None \/ DOMAIN pins[p] = {"fp", "anchor"}
Copied(i) ==
    /\ proc[i].pc = "store" => Records(proc[i].now.copy)
    /\ proc[i].pc = "append" => List(proc[i].now.copy)
FilesInv ==
    /\ Records(sealPins) /\ List(ownPins) /\ Len(ownPins) <= OwnMax
    /\ \A i \in Procs : Copied(i)
Around ==
    /\ friends \subseteq Peers /\ published \in [Peers -> Bundles]
    /\ ops \in 0 .. MaxOps /\ changes \in 0 .. MaxChanges
    /\ broke \in BOOLEAN /\ raced \in BOOLEAN

LEMMA ListAppend ==
    ASSUME NEW list, NEW k, List(list)
    PROVE  LET more == Append(list, k) IN
           /\ List(more) /\ Range(more) = Range(list) \cup {k} /\ Len(more) = Len(list) + 1
           /\ Len(list) > 0 => more[1] = Head(list)
<1> DEFINE n == Len(list)
           more == Append(list, k)
           S == Range(list) \cup {k}
<1>1. n \in Nat /\ DOMAIN list = 1 .. n /\ list \in Seq(S)
  BY DEF List
<1>2. /\ more \in Seq(S) /\ Len(more) = n + 1 /\ DOMAIN more = 1 .. n + 1
      /\ more[n + 1] = k /\ \A i \in 1 .. n : more[i] = list[i]
  BY <1>1
<1> HIDE DEF more
<1>3. \A i \in 1 .. n + 1 : i = n + 1 \/ i \in 1 .. n
  BY <1>1
<1>4. \A i \in 1 .. n : i \in 1 .. n + 1
  BY <1>1
<1>5. n + 1 \in 1 .. n + 1
  BY <1>1
<1>6. Range(more) = S
  BY <1>1, <1>2, <1>3, <1>4, <1>5 DEF Range
<1>7. List(more)
  BY <1>2, <1>6 DEF List
<1>8. n > 0 => more[1] = Head(list)
  BY <1>1, <1>2
<1> QED
  BY <1>2, <1>6, <1>7, <1>8 DEF more

\* Beyond the limit the oldest keys go.
LEMMA KeepLast ==
    ASSUME NEW s, List(s)
    PROVE  List(keepLast(s)) /\ Len(keepLast(s)) <= OwnMax
<1>1. Len(s) \in Nat /\ DOMAIN s = 1 .. Len(s) /\ s \in Seq(Range(s)) /\ OwnMax \in Nat \ {0}
  BY OwnMaxAssumption DEF List
<1>2. CASE Len(s) <= OwnMax
  BY <1>1, <1>2 DEF keepLast
<1>3. CASE Len(s) > OwnMax
  <2> DEFINE t == SubSeq(s, Len(s) - OwnMax + 1, Len(s))
  <2>1. t \in Seq(Range(s)) /\ Len(t) = OwnMax
    BY <1>1, <1>3
  <2>2. keepLast(s) = t
    BY <1>3 DEF keepLast
  <2> HIDE DEF t
  <2>3. List(t)
    BY <2>1 DEF List, Range
  <2> QED
    BY <1>1, <2>1, <2>2, <2>3
<1> QED
  BY <1>1, <1>2, <1>3

\* A step of process i after which it has no copy of a file in hand.
Lets(i) == (\A j \in Procs \ {i} : proc'[j] = proc[j]) /\ proc'[i].pc \notin {"store", "append"}

LEMMA LetsGo ==
    ASSUME Shape, NEW i \in Procs, NEW pc, pc \notin {"store", "append"},
           Onto(i, pc) \/ Finish(i, pc) \/ \E c : proc' = [proc EXCEPT ![i].pc = pc, ![i].now = c]
    PROVE  Lets(i)
<1>1. CASE Onto(i, pc)
  BY <1>1 DEF Onto, Shape, Lets
<1>2. CASE \E c : proc' = [proc EXCEPT ![i].pc = pc, ![i].now = c]
  <2>1. PICK c : proc' = [proc EXCEPT ![i].pc = pc, ![i].now = c]
    BY Zenon, <1>2
  <2> QED
    BY <2>1 DEF Shape, ProcFields, Lets
<1>3. CASE Finish(i, pc)
  <2>1. PICK c : proc' = [proc EXCEPT ![i].pc = pc, ![i].now = c]
    BY Zenon, <1>3 DEF Finish
  <2> QED
    BY <2>1 DEF Shape, ProcFields, Lets
<1> QED
  BY Zenon, <1>1, <1>2, <1>3

LEMMA LetsKeeps ==
    ASSUME FilesInv, NEW i \in Procs, Lets(i), Records(sealPins'), List(ownPins'), Len(ownPins') <= OwnMax
    PROVE  FilesInv'
<1>1. ASSUME NEW j \in Procs \ {i} PROVE Copied(j)'
  BY Zenon, <1>1 DEF FilesInv, Copied, Lets
<1>2. Copied(i)'
  BY Zenon DEF Copied, Lets
<1> QED
  BY Zenon, <1>1, <1>2 DEF FilesInv

LEMMA SealingFiles ==
    ASSUME SealInv, FilesInv, NEW i \in Procs, Sealing(i)
    PROVE  FilesInv'
<1> USE DEF On
<1>1. CASE loadPeerSealPkFile(i)
  <2>1. CASE Onto(i, "kept")
    <3>1. "kept" \notin {"store", "append"}
      OBVIOUS
    <3>2. Lets(i)
      BY Zenon, <2>1, <3>1, LetsGo DEF SealInv
    <3>3. UNCHANGED <<sealPins, ownPins>>
      BY Zenon, <1>1 DEF loadPeerSealPkFile, sealing, signing
    <3> QED
      BY Zenon, <3>2, <3>3, LetsKeeps DEF FilesInv
  <2>2. CASE proc' = [proc EXCEPT ![i].pc = "store", ![i].now.copy = sealPins]
    <3>1. /\ proc'[i].pc = "store" /\ proc'[i].now.copy = sealPins
          /\ \A j \in Procs \ {i} : proc'[j] = proc[j]
      BY <2>2 DEF SealInv, Shape
    <3>2. UNCHANGED <<sealPins, ownPins>>
      BY Zenon, <1>1 DEF loadPeerSealPkFile, sealing, signing
    <3>3. Copied(i)' /\ \A j \in Procs \ {i} : Copied(j)'
      BY <3>1 DEF Copied, FilesInv
    <3> QED
      BY Zenon, <3>2, <3>3 DEF FilesInv
  <2> QED
    BY Zenon, <1>1, <2>1, <2>2 DEF loadPeerSealPkFile
<1>2. CASE writePeerSealRecord(i)
  <2>1. ownPins' = ownPins
    BY Zenon, <1>2 DEF writePeerSealRecord, signing
  <2>2. Lets(i)
    <3>1. PICK pc \in {"release", "kept"} : proc' = [proc EXCEPT ![i].pc = pc, ![i].now.copy = None]
      BY Zenon, <1>2 DEF writePeerSealRecord
    <3> QED
      BY <3>1 DEF Lets, SealInv, Shape, ProcFields
  <2>3. Records(sealPins')
    <3>1. CASE sealPins' = sealPins
      BY Zenon, <3>1 DEF FilesInv
    <3>2. CASE sealPins' # sealPins
      <4>1. sealPins' = [proc[i].now.copy EXCEPT ![proc[i].now.peer] =
                            [fp |-> proc[i].now.bundle.fp, anchor |-> proc[i].now.bundle.anchor]]
        BY Zenon, <1>2, <3>2 DEF writePeerSealRecord
      <4>2. Records(proc[i].now.copy) /\ DOMAIN proc[i].now.copy = Peers
        BY Zenon, <1>2 DEF writePeerSealRecord, FilesInv, Copied, SealInv, Recorded, Backed
      <4> QED
        BY <4>1, <4>2 DEF Records
    <3> QED
      BY Zenon, <3>1, <3>2
  <2> QED
    BY Zenon, <2>1, <2>2, <2>3, LetsKeeps DEF FilesInv
<1>3. CASE peerSigningIdentity(i)
  <2>1. Lets(i)
    BY <1>3 DEF peerSigningIdentity, Lets, SealInv, Shape
  <2> QED
    BY Zenon, <1>3, <2>1, LetsKeeps DEF peerSigningIdentity, sealing, signing, FilesInv
<1>4. CASE Sealing(i) /\ ~loadPeerSealPkFile(i) /\ ~writePeerSealRecord(i) /\ ~peerSigningIdentity(i)
  <2>1. UNCHANGED <<sealPins, ownPins>>
    BY Zenon, <1>4 DEF Sealing, withFileLock, lockTimeout, statLock, breakStaleLock, readNonce,
       releaseOwnLock, FetchPeerKeyBundle, runFriendRepin, PropagateNameToShares, Begin,
       PinPeerSealKey, sealStoreFailure, sealing, signing
  <2>2. \E pc \in {"load", "refused", "break", "lock", "unlink", "unlinkKept", "done", "check", "identity"} :
          \/ Onto(i, pc) \/ Finish(i, pc) \/ \E c : proc' = [proc EXCEPT ![i].pc = pc, ![i].now = c]
    BY Zenon, <1>4 DEF Sealing, withFileLock, lockTimeout, statLock, breakStaleLock, readNonce,
       releaseOwnLock, FetchPeerKeyBundle, runFriendRepin, PropagateNameToShares, Begin,
       PinPeerSealKey, sealStoreFailure
  <2>3. Lets(i)
    BY Zenon, <2>2, LetsGo DEF SealInv
  <2> QED
    BY Zenon, <2>1, <2>3, LetsKeeps DEF FilesInv
<1> QED
  BY Zenon, <1>1, <1>2, <1>3, <1>4

LEMMA VerifyingFiles ==
    ASSUME SealInv, FilesInv, NEW i \in Procs, Verifying(i) \/ Die(i)
    PROVE  FilesInv'
<1> USE DEF On
<1>1. CASE loadSigningPkFile(i)
  <2>1. UNCHANGED <<sealPins, ownPins>>
    BY Zenon, <1>1 DEF loadSigningPkFile, sealing, signing
  <2>2. CASE proc' = [proc EXCEPT ![i].pc = "append", ![i].now.copy = ownPins]
    <3>1. /\ proc'[i].pc = "append" /\ proc'[i].now.copy = ownPins
          /\ \A j \in Procs \ {i} : proc'[j] = proc[j]
      BY <2>2 DEF SealInv, Shape
    <3>2. Copied(i)' /\ \A j \in Procs \ {i} : Copied(j)'
      BY <3>1 DEF Copied, FilesInv
    <3> QED
      BY Zenon, <2>1, <3>2 DEF FilesInv
  <2>3. CASE ~(proc' = [proc EXCEPT ![i].pc = "append", ![i].now.copy = ownPins])
    <3>1. CASE Onto(i, "trust")
      <4>1. "trust" \notin {"store", "append"}
        OBVIOUS
      <4>2. Lets(i)
        BY Zenon, <3>1, <4>1, LetsGo DEF SealInv
      <4> QED
        BY Zenon, <2>1, <4>2, LetsKeeps DEF FilesInv
    <3>2. CASE ~Onto(i, "trust")
      <4>1. proc[i].pc = "remember" /\ \E s : proc' = [proc EXCEPT ![i].now.todo = s]
        BY Zenon, <1>1, <2>3, <3>2 DEF loadSigningPkFile
      <4>2. Lets(i)
        BY <4>1 DEF Lets, SealInv, Shape
      <4> QED
        BY Zenon, <2>1, <4>2, LetsKeeps DEF FilesInv
    <3> QED
      BY Zenon, <3>1, <3>2
  <2> QED
    BY Zenon, <2>2, <2>3
<1>2. CASE rememberSigningEdPub(i)
  <2>1. PICK k : ownPins' = keepLast(Append(proc[i].now.copy, k))
    BY Zenon, <1>2 DEF rememberSigningEdPub
  <2>2. List(proc[i].now.copy)
    BY Zenon, <1>2 DEF rememberSigningEdPub, FilesInv, Copied
  <2>3. List(Append(proc[i].now.copy, k))
    BY Zenon, <2>2, ListAppend
  <2>4. List(ownPins') /\ Len(ownPins') <= OwnMax
    BY Zenon, <2>1, <2>3, KeepLast
  <2>5. Lets(i)
    BY <1>2 DEF rememberSigningEdPub, Lets, SealInv, Shape
  <2> QED
    BY Zenon, <1>2, <2>4, <2>5, LetsKeeps DEF rememberSigningEdPub, sealing, FilesInv
<1>3. CASE \/ seedOwnSigningPkHistory(i) \/ checkForeignSignerOnOwnNode(i) \/ VerifyFileSignatures(i)
           \/ loadPeerSigningPkFile(i) \/ Die(i)
  <2>1. UNCHANGED <<sealPins, ownPins>>
    BY Zenon, <1>3 DEF seedOwnSigningPkHistory, checkForeignSignerOnOwnNode, VerifyFileSignatures,
       loadPeerSigningPkFile, Die, sealing, signing
  <2>2. CASE seedOwnSigningPkHistory(i)
    <3>1. PICK got \in BOOLEAN :
           proc' = [proc EXCEPT ![i].pc = "remember", ![i].seeded = @ \/ (~proc[i].seeded /\ got),
                                ![i].now.asked = TRUE, ![i].now.answered = proc[i].seeded \/ got,
                                ![i].now.todo = IF ~proc[i].seeded /\ got THEN History ELSE <<>>]
      BY Zenon, <2>2 DEF seedOwnSigningPkHistory
    <3>a. PICK sd : sd = (proc[i].seeded \/ (~proc[i].seeded /\ got))
      BY Zenon
    <3>b. PICK an : an = (proc[i].seeded \/ got)
      BY Zenon
    <3>c. PICK td : td = IF ~proc[i].seeded /\ got THEN History ELSE <<>>
      BY Zenon
    <3>d. proc' = [proc EXCEPT ![i].pc = "remember", ![i].seeded = sd,
                               ![i].now.asked = TRUE, ![i].now.answered = an, ![i].now.todo = td]
      BY Zenon, <3>1, <3>a, <3>b, <3>c
    <3>2. Lets(i)
      BY <3>d DEF Lets, SealInv, Shape, ProcFields
    <3> QED
      BY Zenon, <2>1, <3>2, LetsKeeps DEF FilesInv
  <2>3. CASE checkForeignSignerOnOwnNode(i)
    <3>1. CASE Onto(i, "verifyPinned") \/ Finish(i, "refused")
      <4>1. "verifyPinned" \notin {"store", "append"} /\ "refused" \notin {"store", "append"}
        OBVIOUS
      <4>2. Lets(i)
        BY Zenon, <3>1, <4>1, LetsGo DEF SealInv
      <4> QED
        BY Zenon, <2>1, <4>2, LetsKeeps DEF FilesInv
    <3>2. CASE \E pc \in {"verifyFirst", "refused"} : \E fs :
                    proc' = [proc EXCEPT ![i].pc = pc, ![i].friendSet = fs]
      <4>1. Lets(i)
        BY <3>2 DEF Lets, SealInv, Shape
      <4> QED
        BY Zenon, <2>1, <4>1, LetsKeeps DEF FilesInv
    <3> QED
      BY Zenon, <2>3, <3>1, <3>2 DEF checkForeignSignerOnOwnNode
  <2>4. CASE VerifyFileSignatures(i)
    <3>1. \E pc \in {"bad", "commit", "done"} : Onto(i, pc)
      BY Zenon, <2>4 DEF VerifyFileSignatures, Onto
    <3> QED
      BY Zenon, <2>1, <3>1, LetsGo, LetsKeeps DEF SealInv, FilesInv
  <2>5. CASE loadPeerSigningPkFile(i)
    <3>1. Lets(i)
      BY <2>5 DEF loadPeerSigningPkFile, Lets, SealInv, Shape
    <3> QED
      BY Zenon, <2>1, <3>1, LetsKeeps DEF FilesInv
  <2>6. CASE Die(i)
    <3>1. Lets(i)
      BY <2>6 DEF Die, Lets, SealInv, Shape, NewProcess
    <3> QED
      BY Zenon, <2>1, <3>1, LetsKeeps DEF FilesInv
  <2> QED
    BY Zenon, <1>3, <2>2, <2>3, <2>4, <2>5, <2>6
<1>4. CASE verifyOwnerSigsReader(i) \/ signingEdPubTrusted(i) \/ recordPeerSigningPk(i)
  <2>1. UNCHANGED <<sealPins, ownPins>>
    BY Zenon, <1>4 DEF verifyOwnerSigsReader, Begin, signingEdPubTrusted, recordPeerSigningPk, sealing, signing
  <2>2. \E pc \in {"remember", "verify", "seed", "refused", "foreign", "done"} :
          \/ Onto(i, pc) \/ Finish(i, pc) \/ \E c : proc' = [proc EXCEPT ![i].pc = pc, ![i].now = c]
    BY Zenon, <1>4 DEF verifyOwnerSigsReader, Begin, signingEdPubTrusted, recordPeerSigningPk
  <2>3. Lets(i)
    BY Zenon, <2>2, LetsGo DEF SealInv
  <2> QED
    BY Zenon, <2>1, <2>3, LetsKeeps DEF FilesInv
<1> QED
  BY Zenon, <1>1, <1>2, <1>3, <1>4 DEF Verifying

\* Friends, key sets and the histories; every operation and every change is counted.
OneMore == ops < MaxOps /\ ops' = ops + 1 /\ UNCHANGED <<friends, published, changes>>
LEMMA CallsAround ==
    ASSUME NEW i \in Procs, Sealing(i) \/ Verifying(i)
    PROVE  OneMore \/ UNCHANGED world
<1>1. CASE \E c, pc : Begin(i, c, pc)
  BY Zenon, <1>1 DEF Begin, OneMore
<1>2. CASE Sealing(i) /\ ~\E c, pc : Begin(i, c, pc)
  BY Zenon, <1>2 DEF Sealing, withFileLock, lockTimeout, statLock, breakStaleLock, readNonce,
     releaseOwnLock, FetchPeerKeyBundle, runFriendRepin, PropagateNameToShares, peerSigningIdentity,
     PinPeerSealKey, sealStoreFailure, loadPeerSealPkFile, writePeerSealRecord
<1>3. CASE Verifying(i) /\ ~\E c, pc : Begin(i, c, pc)
  BY Zenon, <1>3 DEF Verifying, verifyOwnerSigsReader, loadSigningPkFile, rememberSigningEdPub,
     signingEdPubTrusted, seedOwnSigningPkHistory, checkForeignSignerOnOwnNode,
     VerifyFileSignatures, loadPeerSigningPkFile, recordPeerSigningPk
<1> QED
  BY Zenon, <1>1, <1>2, <1>3

LEMMA HistoryTypes ==
    ASSUME broke \in BOOLEAN, raced \in BOOLEAN, [PNext]_pvars
    PROVE  broke' \in BOOLEAN /\ raced' \in BOOLEAN
<1>1. ASSUME NEW i \in Procs, Sealing(i) PROVE broke' \in BOOLEAN /\ raced' = raced
  <2>1. CASE breakStaleLock(i) \/ releaseOwnLock(i)
    BY Zenon, <2>1 DEF breakStaleLock, releaseOwnLock, signing
  <2>2. CASE Sealing(i) /\ ~breakStaleLock(i) /\ ~releaseOwnLock(i)
    <3>1. broke' = broke /\ raced' = raced
      BY Zenon, <2>2 DEF Sealing, withFileLock, lockTimeout, statLock, readNonce,
         FetchPeerKeyBundle, runFriendRepin, PropagateNameToShares, Begin, peerSigningIdentity,
         PinPeerSealKey, sealStoreFailure, loadPeerSealPkFile, writePeerSealRecord, sealing, signing
    <3> QED
      BY Zenon, <3>1
  <2> QED
    BY Zenon, <1>1, <2>1, <2>2
<1>2. ASSUME NEW i \in Procs, Verifying(i) PROVE raced' \in BOOLEAN /\ broke' = broke
  <2>1. CASE rememberSigningEdPub(i) \/ loadPeerSigningPkFile(i) \/ recordPeerSigningPk(i)
    BY Zenon, <2>1 DEF rememberSigningEdPub, loadPeerSigningPkFile, recordPeerSigningPk, sealing
  <2>2. CASE ~(rememberSigningEdPub(i) \/ loadPeerSigningPkFile(i) \/ recordPeerSigningPk(i))
    <3>1. broke' = broke /\ raced' = raced
      BY Zenon, <1>2, <2>2 DEF Verifying, verifyOwnerSigsReader, Begin, loadSigningPkFile,
         signingEdPubTrusted, seedOwnSigningPkHistory, checkForeignSignerOnOwnNode,
         VerifyFileSignatures, sealing, signing
    <3> QED
      BY Zenon, <3>1
  <2> QED
    BY Zenon, <2>1, <2>2
<1>3. CASE (\E i \in Procs : Die(i)) \/ Age \/ Publish \/ Unfriend \/ UNCHANGED pvars
  <2>1. broke' = broke /\ raced' = raced
    BY Zenon, <1>3 DEF Die, Age, Publish, Unfriend, sealing, signing, pvars
  <2> QED
    BY Zenon, <2>1
<1> QED
  BY Zenon, <1>1, <1>2, <1>3 DEF PNext

LEMMA AroundNext ==
    ASSUME Around, [PNext]_pvars
    PROVE  Around'
<1>0. MaxOps \in Nat /\ MaxChanges \in Nat /\ ops \in 0 .. MaxOps /\ changes \in 0 .. MaxChanges
  BY Zenon, BoundsAssumption DEF Around
<1>1. broke' \in BOOLEAN /\ raced' \in BOOLEAN
  BY Zenon, HistoryTypes DEF Around
<1>2. CASE OneMore
  <2>1. ops' \in 0 .. MaxOps
    BY <1>0, <1>2 DEF OneMore
  <2> QED
    BY Zenon, <1>1, <1>2, <2>1 DEF OneMore, Around
<1>3. CASE UNCHANGED world
  BY Zenon, <1>1, <1>3 DEF world, Around
<1>4. CASE Publish \/ Unfriend \/ \E i \in Procs : Die(i)
  <2>1. Change /\ ops' = ops
    BY Zenon, <1>4 DEF Publish, Unfriend, Die
  <2>2. changes' \in 0 .. MaxChanges
    BY <1>0, <2>1 DEF Change
  <2>3. friends' \subseteq Peers /\ published' \in [Peers -> Bundles]
    <3>1. CASE Publish
      <4>1. PICK p \in Peers, b \in Bundles : published' = [published EXCEPT ![p] = b]
        BY Zenon, <3>1 DEF Publish
      <4>2. published' \in [Peers -> Bundles]
        BY <4>1 DEF Around
      <4> QED
        BY Zenon, <3>1, <4>2 DEF Publish, Around
    <3>2. CASE Unfriend
      BY Zenon, <3>2 DEF Unfriend, Around
    <3>3. CASE \E i \in Procs : Die(i)
      BY Zenon, <3>3 DEF Die, Around
    <3> QED
      BY Zenon, <1>4, <3>1, <3>2, <3>3
  <2> QED
    BY Zenon, <1>1, <2>1, <2>2, <2>3 DEF Around
<1>5. CASE Age \/ UNCHANGED pvars
  BY Zenon, <1>3, <1>5 DEF Age, world, pvars
<1> QED
  BY Zenon, <1>2, <1>3, <1>4, <1>5, CallsAround DEF PNext

\* The three pin files hold records of their kind, and signing_pks.json no more of our keys
\* than ownSigningPksMax, whatever processes write them at once, die or break a lock.
THEOREM PinTypes == PSpec => []PTypeOK
<1>1. PInit => FilesInv /\ Around
  <2> SUFFICES ASSUME PInit PROVE FilesInv /\ Around
    OBVIOUS
  <2>1. List(<<>>) /\ Len(<<>>) <= OwnMax
    BY OwnMaxAssumption DEF List
  <2>2. \A i \in Procs : proc[i].pc = "idle"
    BY Zenon DEF PInit, NewProcess
  <2>3. FilesInv
    BY <2>1, <2>2 DEF PInit, FilesInv, Records, Copied
  <2>4. 0 \in 0 .. MaxOps /\ 0 \in 0 .. MaxChanges
    BY BoundsAssumption
  <2>5. Around
    BY Zenon, <2>4 DEF PInit, Around
  <2> QED
    BY Zenon, <2>3, <2>5
<1>2. SealInv /\ FilesInv /\ Around /\ [PNext]_pvars => FilesInv' /\ Around'
  <2> SUFFICES ASSUME SealInv, FilesInv, Around, [PNext]_pvars PROVE FilesInv'
    BY Zenon, AroundNext
  <2>1. CASE Age \/ Publish \/ Unfriend \/ UNCHANGED pvars
    <3>1. UNCHANGED <<sealPins, ownPins, proc>>
      BY Zenon, <2>1 DEF Age, Publish, Unfriend, sealing, signing, pvars
    <3> QED
      BY Zenon, <3>1 DEF FilesInv, Copied
  <2> QED
    BY Zenon, <2>1, SealingFiles, VerifyingFiles DEF PNext
<1>3. SealInv /\ FilesInv /\ Around => PTypeOK
  BY BoundsAssumption DEF SealInv, Shape, FilesInv, Records, Around, PTypeOK
<1> QED
  BY <1>1, <1>2, <1>3, PInvariant, PTL DEF PSpec
=============================================================================
