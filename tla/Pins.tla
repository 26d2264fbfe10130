-------------------------------- MODULE Pins --------------------------------
(***************************************************************************)
(* What an account remembers of other people's and its own keys, in files   *)
(* that several processes (commands, a mount's daemon) read and write       *)
(* whole: peer_seal_pks.json, written under a lock file, and                *)
(* peer_signing_pks.json and signing_pks.json, written without one.  A      *)
(* process seals to a peer, moves a peer's pin or verifies a file's owner   *)
(* signature, one after the other.                                          *)
(***************************************************************************)
EXTENDS Integers, Sequences, FiniteSets, Functions, Absent

CONSTANTS
    Procs,
    Peers,
    Bundles,      \* key sets a peer may publish: [fp, anchor, signed]
    Own,          \* this account's signing key
    History,      \* its former ones, as the signed history on the server lists them
    Signatures,   \* files to verify: [by, key], by = "" for one of our own
    OwnMax,       \* ownSigningPksMax
    MaxOps,       \* bound: things the processes do
    MaxChanges    \* bound: key sets published anew, friends lost, processes that die

Locks == [nonce : Procs \cup {None}, old : BOOLEAN]

ASSUME OwnMaxAssumption == OwnMax \in Nat \ {0}
ASSUME BoundsAssumption == MaxOps \in Nat /\ MaxChanges \in Nat
ASSUME LocksAssumption == None \notin Locks
ASSUME SignaturesAssumption == \A s \in Signatures : s.key # None /\ s.by \in Peers \cup {""}
ASSUME HistoryAssumption == History \in Seq(Range(History))

VARIABLES
    lock,        \* peer_seal_pks.json.lock: whose nonce, and whether it is stale
    sealPins,    \* peer_seal_pks.json: per peer
    signPins,    \* peer_signing_pks.json: per peer
    ownPins,     \* signing_pks.json: the keys it lists
    proc,        \* per process: what it is doing, and what it keeps in memory
    friends,     \* server: who is a friend
    published,   \* server: per peer, the key set it publishes
    ops, changes,
    written,     \* history: per peer, the seal pin written last
    sealPinned,  \* history: per peer, every seal key ever pinned
    accepted,    \* history: per peer, the keys its files were accepted under
    broke,       \* history: a lock was removed from under a live holder
    raced        \* history: a file was overwritten by one who had not seen it

pvars == <<lock, sealPins, signPins, ownPins, proc, friends, published, ops, changes, written,
           sealPinned, accepted, broke, raced>>
sealing == <<lock, sealPins, written, sealPinned, broke>>
signing == <<signPins, ownPins, accepted, raced>>
world == <<friends, published, ops, changes>>

\* ownSigningHistorySeeded, friendSet and peerBundles live as long as the process; the rest
\* is of one call: the bundle to seal to, the file verified, the copy of the store it read,
\* the own keys still to remember, whether the history answered, whether the write succeeded.
Blank == [op |-> "none", peer |-> None, bundle |-> None, file |-> None, copy |-> None,
          todo |-> <<>>, asked |-> FALSE, answered |-> FALSE]
NewProcess == [pc |-> "idle", now |-> Blank, seeded |-> FALSE, friendSet |-> {},
           peerBundles |-> [p \in Peers |-> None]]

On(i, pc) == proc[i].pc = pc
Onto(i, pc) == proc' = [proc EXCEPT ![i].pc = pc]
Finish(i, pc) ==
    proc' = [proc EXCEPT ![i].pc = pc,
                         ![i].now = IF pc = "refused" /\ @.op # "verify" THEN Blank
                                     ELSE [@ EXCEPT !.copy = None, !.todo = <<>>]]
Ended == {"idle", "done", "refused", "bad"}
Begin(i, c, pc) ==
    /\ proc[i].pc \in Ended /\ ops < MaxOps
    /\ ops' = ops + 1
    /\ proc' = [proc EXCEPT ![i].pc = pc, ![i].now = c]
    /\ UNCHANGED <<sealing, signing, friends, published, changes>>

-----------------------------------------------------------------------------
(* The lock file.                                                           *)

Holds(n) == n \in Procs /\ proc[n].pc \in {"load", "store", "release", "kept"}

\* withFileLock: O_CREATE|O_EXCL.
withFileLock_NotExclusive(i) ==
    /\ On(i, "lock")
    /\ lock' = [nonce |-> i, old |-> FALSE]
    /\ Onto(i, "load")
    /\ UNCHANGED <<sealPins, written, sealPinned, broke, signing, world>>
withFileLock(i) ==
    /\ On(i, "lock") /\ lock = None
    /\ lock' = [nonce |-> i, old |-> FALSE]
    /\ Onto(i, "load")
    /\ UNCHANGED <<sealPins, written, sealPinned, broke, signing, world>>

\* After lockWaitTimeout the call fails, and nothing is sealed.
lockTimeout_Proceeds(i) ==
    /\ On(i, "lock") /\ lock # None
    /\ Finish(i, "done")
    /\ UNCHANGED <<sealing, signing, world>>
lockTimeout(i) ==
    /\ On(i, "lock") /\ lock # None
    /\ Finish(i, "refused")
    /\ UNCHANGED <<sealing, signing, world>>

\* breakStaleLock: it looks at the age of the lock,
statLock(i) ==
    /\ On(i, "lock") /\ lock # None /\ lock.old
    /\ Onto(i, "break")
    /\ UNCHANGED <<sealing, signing, world>>

\* and removes the one that is there by then.
breakStaleLock(i) ==
    /\ On(i, "break")
    /\ lock' = None
    /\ broke' = (broke \/ (lock # None /\ Holds(lock.nonce)))
    /\ Onto(i, "lock")
    /\ UNCHANGED <<sealPins, written, sealPinned, signing, world>>

\* releaseOwnLock: it reads whose nonce is in the lock, then removes it.
readNonce(i) ==
    /\ On(i, "release") \/ On(i, "kept")
    /\ IF lock # None /\ lock.nonce = i
       THEN Onto(i, IF On(i, "release") THEN "unlink" ELSE "unlinkKept")
       ELSE Finish(i, IF On(i, "release") THEN "done" ELSE "refused")
    /\ UNCHANGED <<sealing, signing, world>>
releaseOwnLock(i) ==
    /\ On(i, "unlink") \/ On(i, "unlinkKept")
    /\ lock' = None
    /\ broke' = (broke \/ (lock # None /\ lock.nonce # i /\ Holds(lock.nonce)))
    /\ Finish(i, IF On(i, "unlink") THEN "done" ELSE "refused")
    /\ UNCHANGED <<sealPins, written, sealPinned, signing, world>>

\* lockStaleAfter has passed since the lock was made.
Age ==
    /\ lock # None /\ ~lock.old
    /\ lock' = [lock EXCEPT !.old = TRUE]
    /\ UNCHANGED <<sealPins, written, sealPinned, broke, signing, proc, world>>

-----------------------------------------------------------------------------
(* Seal pins.                                                               *)

\* PinPeerSealKeyFromPubkey: the peer's key set as published.
FetchPeerKeyBundle(i) ==
    \E p \in Peers :
        Begin(i, [Blank EXCEPT !.op = "seal", !.peer = p, !.bundle = published[p]], "check")

\* pc fr repin, with the same key set; not confirmed, it ends where an unreadable store does.
runFriendRepin(i) ==
    \E p \in Peers :
        Begin(i, [Blank EXCEPT !.op = "repin", !.peer = p, !.bundle = published[p]], "check")

\* PropagateNameToShares: one recipient of a share after the other, refused ones left out.
\* PinShareRecipientSealKey: the seal key comes with the recipients,
PropagateNameToShares(i) ==
    \E p \in Peers :
        Begin(i, [Blank EXCEPT !.op = "seal", !.peer = p, !.bundle = published[p]], "identity")

\* and the signing identity from this process's memory of the peer, or of the server now,
\* or not at all.  Its signature is over the seal key that was published with it.
peerSigningIdentity(i) ==
    LET p == proc[i].now.peer
        b == proc[i].now.bundle
        known == proc[i].peerBundles[p]
    IN  /\ On(i, "identity")
        /\ \E id \in IF known # None THEN {known} ELSE {None, published[p]} :
             proc' = [proc EXCEPT
                 ![i].pc = "check",
                 ![i].peerBundles[p] = id,
                 ![i].now.bundle = IF id = None THEN [b EXCEPT !.anchor = None, !.signed = FALSE]
                                    ELSE [id EXCEPT !.fp = b.fp, !.signed = @ /\ id.fp = b.fp]]
        /\ UNCHANGED <<sealing, signing, world>>

\* Signed by the identity the pin was taken under.
sealRotationAttributable(rec, b) == rec.anchor # None /\ b.anchor = rec.anchor /\ b.signed

\* PinPeerSealKey, RepinPeerSealKey: decided on the pin as it is now, without the lock.
PinPeerSealKey(i) ==
    LET rec == sealPins[proc[i].now.peer]
        b == proc[i].now.bundle
    IN  /\ On(i, "check")
        /\ \/ rec = None /\ Onto(i, "lock")
           \/ rec # None /\ rec.fp = b.fp
              /\ Finish(i, IF proc[i].now.op = "seal" THEN "done" ELSE "refused")
           \/ rec # None /\ rec.fp # b.fp
              /\ IF proc[i].now.op = "repin" \/ sealRotationAttributable(rec, b)
                 THEN Onto(i, "lock") ELSE Finish(i, "refused")
        /\ UNCHANGED <<sealing, signing, world>>

\* The store cannot be read: nothing is sealed.
sealStoreFailure(i) ==
    /\ On(i, "check")
    /\ Finish(i, "refused")
    /\ UNCHANGED <<sealing, signing, world>>

\* writePeerSealRecord, under the lock: the file is read whole,
loadPeerSealPkFile(i) ==
    /\ On(i, "load")
    /\ \/ proc' = [proc EXCEPT ![i].pc = "store", ![i].now.copy = sealPins]
       \/ Onto(i, "kept")
    /\ UNCHANGED <<sealing, signing, world>>

\* and replaced, one record changed; or the write fails and the file is as it was.
writePeerSealRecord(i) ==
    LET p == proc[i].now.peer
        rec == [fp |-> proc[i].now.bundle.fp, anchor |-> proc[i].now.bundle.anchor]
    IN  /\ On(i, "store")
        /\ \/ /\ sealPins' = [proc[i].now.copy EXCEPT ![p] = rec]
              /\ written' = [written EXCEPT ![p] = rec]
              /\ sealPinned' = [sealPinned EXCEPT ![p] = @ \cup {rec.fp}]
              /\ proc' = [proc EXCEPT ![i].pc = "release", ![i].now.copy = None]
           \/ /\ proc' = [proc EXCEPT ![i].pc = "kept", ![i].now.copy = None]
              /\ UNCHANGED <<sealPins, written, sealPinned>>
        /\ UNCHANGED <<lock, broke, signing, world>>

-----------------------------------------------------------------------------
(* Owner signatures of downloaded files.                                    *)

\* verifyOwnerSigsReader: our own key is remembered first.
verifyOwnerSigsReader(i) ==
    \E f \in Signatures :
        Begin(i, [Blank EXCEPT !.op = "verify", !.file = f, !.todo = <<Own>>], "remember")

\* rememberSigningEdPub: the file is read,
loadSigningPkFile(i) ==
    LET todo == proc[i].now.todo IN
    /\ On(i, "remember")
    /\ \/ todo = <<>> /\ Onto(i, "trust")
       \/ /\ todo # <<>> /\ Head(todo) \in Range(ownPins)
          /\ proc' = [proc EXCEPT ![i].now.todo = Tail(todo)]
       \/ /\ todo # <<>> /\ Head(todo) \notin Range(ownPins)
          /\ proc' = [proc EXCEPT ![i].pc = "append", ![i].now.copy = ownPins]
    /\ UNCHANGED <<sealing, signing, world>>

\* and written with the key at its end; beyond the limit the oldest goes.
keepLast(s) == IF Len(s) > OwnMax THEN SubSeq(s, Len(s) - OwnMax + 1, Len(s)) ELSE s
rememberSigningEdPub(i) ==
    /\ On(i, "append")
    /\ ownPins' = keepLast(Append(proc[i].now.copy, Head(proc[i].now.todo)))
    /\ raced' = (raced \/ proc[i].now.copy # ownPins)
    /\ proc' = [proc EXCEPT ![i].pc = "remember", ![i].now.copy = None, ![i].now.todo = Tail(@)]
    /\ UNCHANGED <<sealing, signPins, accepted, world>>

\* Ours, one we remember, one the server's history may add, or a peer's.
signingEdPubTrusted(i) ==
    LET f == proc[i].now.file
        ours == f.key = Own \/ f.key \in Range(ownPins)
    IN  /\ On(i, "trust")
        /\ \/ ours /\ Onto(i, "verify")
           \/ ~ours /\ ~proc[i].now.asked /\ Onto(i, "seed")
           \/ ~ours /\ proc[i].now.asked
              /\ IF f.by = "" THEN Finish(i, "refused") ELSE Onto(i, "foreign")
        /\ UNCHANGED <<sealing, signing, world>>

\* seedOwnSigningPkHistory: once per process; no answer, and the minute after one, add nothing.
seedOwnSigningPkHistory(i) ==
    /\ On(i, "seed")
    /\ \E got \in BOOLEAN :
         LET asks == ~proc[i].seeded /\ got IN
         proc' = [proc EXCEPT ![i].pc = "remember", ![i].seeded = @ \/ asks,
                              ![i].now.asked = TRUE, ![i].now.answered = proc[i].seeded \/ got,
                              ![i].now.todo = IF asks THEN History ELSE <<>>]
    /\ UNCHANGED <<sealing, signing, world>>

\* checkForeignSignerOnOwnNode: as pinned, or, never seen, of a friend; peerHasFriendEdge
\* answers from its memory or from the server.
checkForeignSignerOnOwnNode_AnyKey(i) ==
    LET f == proc[i].now.file
        seen == signPins[f.by]
    IN  /\ On(i, "foreign")
        /\ \/ /\ seen = None
              /\ \E fs \in {proc[i].friendSet, friends} :
                   IF f.by \in fs
                   THEN proc' = [proc EXCEPT ![i].pc = "verifyFirst", ![i].friendSet = fs]
                   ELSE proc' = [proc EXCEPT ![i].pc = "refused", ![i].friendSet = fs]
           \/ seen # None /\ Onto(i, "verifyPinned")
        /\ UNCHANGED <<sealing, signing, world>>
checkForeignSignerOnOwnNode(i) ==
    LET f == proc[i].now.file
        seen == signPins[f.by]
    IN  /\ On(i, "foreign")
        /\ \/ /\ seen = None
              /\ \E fs \in {proc[i].friendSet, friends} :
                   IF f.by \in fs
                   THEN proc' = [proc EXCEPT ![i].pc = "verifyFirst", ![i].friendSet = fs]
                   ELSE proc' = [proc EXCEPT ![i].pc = "refused", ![i].friendSet = fs]
           \/ seen # None /\ (IF seen = f.key THEN Onto(i, "verifyPinned") ELSE Finish(i, "refused"))
        /\ UNCHANGED <<sealing, signing, world>>

\* The signatures themselves, and commitPeerPin only after them.
VerifyFileSignatures(i) ==
    LET f == proc[i].now.file IN
    /\ proc[i].pc \in {"verify", "verifyPinned", "verifyFirst"}
    /\ \/ /\ proc' = [proc EXCEPT ![i].pc = "bad"]
          /\ UNCHANGED accepted
       \/ /\ Onto(i, IF On(i, "verifyFirst") THEN "commit" ELSE "done")
          /\ accepted' = IF On(i, "verifyPinned") THEN [accepted EXCEPT ![f.by] = @ \cup {f.key}]
                         ELSE accepted
    /\ UNCHANGED <<sealing, signPins, ownPins, raced, world>>

\* recordPeerSigningPk: read whole, and written whole with the peer's key.
loadPeerSigningPkFile(i) ==
    /\ On(i, "commit")
    /\ proc' = [proc EXCEPT ![i].pc = "record", ![i].now.copy = signPins]
    /\ raced' = (raced \/ signPins[proc[i].now.file.by] # None)
    /\ UNCHANGED <<sealing, signPins, ownPins, accepted, world>>
recordPeerSigningPk(i) ==
    LET f == proc[i].now.file IN
    /\ On(i, "record")
    /\ signPins' = [proc[i].now.copy EXCEPT ![f.by] = f.key]
    /\ raced' = (raced \/ proc[i].now.copy # signPins)
    /\ accepted' = [accepted EXCEPT ![f.by] = @ \cup {f.key}]
    /\ Finish(i, "done")
    /\ UNCHANGED <<sealing, ownPins, world>>

-----------------------------------------------------------------------------
(* The world: a peer publishes another key set, a friendship ends, a        *)
(* process dies where it stands.                                            *)

Change == changes < MaxChanges /\ changes' = changes + 1
Publish ==
    /\ Change
    /\ \E p \in Peers, b \in Bundles : b # published[p] /\ published' = [published EXCEPT ![p] = b]
    /\ UNCHANGED <<sealing, signing, proc, friends, ops>>
Unfriend ==
    /\ Change
    /\ \E p \in friends : friends' = friends \ {p}
    /\ UNCHANGED <<sealing, signing, proc, published, ops>>
Die(i) ==
    /\ Change /\ proc[i].pc \notin Ended \cup {"dead"}
    /\ proc' = [proc EXCEPT ![i] = [NewProcess EXCEPT !.pc = "dead"]]
    /\ UNCHANGED <<sealing, signing, friends, published, ops>>

\* A lock may be left of a process that died earlier.
PInit ==
    /\ lock \in {None, [nonce |-> None, old |-> FALSE]}
    /\ sealPins = [p \in Peers |-> None]
    /\ signPins = [p \in Peers |-> None]
    /\ ownPins = <<>>
    /\ proc = [i \in Procs |-> NewProcess]
    /\ friends = Peers
    /\ published \in [Peers -> Bundles]
    /\ ops = 0 /\ changes = 0
    /\ written = sealPins
    /\ sealPinned = [p \in Peers |-> {}]
    /\ accepted = [p \in Peers |-> {}]
    /\ broke = FALSE /\ raced = FALSE

Sealing(i) ==
    \/ withFileLock(i) \/ lockTimeout(i) \/ statLock(i) \/ breakStaleLock(i)
    \/ readNonce(i) \/ releaseOwnLock(i)
    \/ FetchPeerKeyBundle(i) \/ runFriendRepin(i) \/ PropagateNameToShares(i)
    \/ peerSigningIdentity(i)
    \/ PinPeerSealKey(i) \/ sealStoreFailure(i) \/ loadPeerSealPkFile(i) \/ writePeerSealRecord(i)
Verifying(i) ==
    \/ verifyOwnerSigsReader(i) \/ loadSigningPkFile(i) \/ rememberSigningEdPub(i)
    \/ signingEdPubTrusted(i) \/ seedOwnSigningPkHistory(i) \/ checkForeignSignerOnOwnNode(i)
    \/ VerifyFileSignatures(i) \/ loadPeerSigningPkFile(i) \/ recordPeerSigningPk(i)

PNext ==
    \/ \E i \in Procs : Sealing(i) \/ Verifying(i) \/ Die(i)
    \/ Age \/ Publish \/ Unfriend

PSpec == PInit /\ [][PNext]_pvars

-----------------------------------------------------------------------------
(* Properties.                                                              *)

\* Type correctness of the three stores (peer_seal_pin.go, peer_signing_pin.go,
\* signing_pin.go): signing_pks.json lists no more keys than ownSigningPksMax.
PTypeOK ==
    /\ lock \in Locks \cup {None}
    /\ \A p \in Peers : sealPins[p] = None \/ DOMAIN sealPins[p] = {"fp", "anchor"}
    /\ Len(ownPins) <= OwnMax
    /\ friends \subseteq Peers /\ published \in [Peers -> Bundles]
    /\ broke \in BOOLEAN /\ raced \in BOOLEAN
    /\ ops <= MaxOps /\ changes <= MaxChanges

\* writePeerSealRecord under withFileLock loses no update: the file holds, for every peer,
\* the pin written for it last, whatever processes write, wait, give up and die, unless a
\* stale lock was taken from a process that still wrote.
PinsKept == broke \/ sealPins = written

\* PinPeerSealKey lets a call seal only to a key that was pinned for the peer: no time-out
\* of the lock, unreadable store or failed write ends in a seal.
SealedWasPinned ==
    \A i \in Procs :
        LET c == proc[i].now IN
        On(i, "done") /\ c.op = "seal" => c.bundle.fp \in sealPinned[c.peer]

\* As long as no process overwrites a pin file it has not seen, files accepted as a peer's
\* (checkForeignSignerOnOwnNode) all carry one key, and a file signed with a former key of
\* our own that the history lists is refused only when the history did not answer
\* (seedOwnSigningPkHistory, rememberSigningEdPub).
SignersHold ==
    raced \/
    /\ \A p \in Peers : Cardinality(accepted[p]) <= 1
    /\ \A i \in Procs :
         LET c == proc[i].now IN
         (/\ On(i, "refused") /\ c.op = "verify" /\ c.file.by = ""
          /\ c.file.key \in Range(History) /\ Len(History) < OwnMax) => ~c.answered

=============================================================================
