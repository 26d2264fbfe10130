------------------------------- MODULE TeeKeys -------------------------------
(***************************************************************************)
(* The scanner's keys.  A session seals every upload to the enclave key      *)
(* the server attests to, if the account's pin allows it, and keeps that    *)
(* key; uploads share one probe of the server, and an upload that the       *)
(* server cannot open asks whether its seal went stale.  Downloads check    *)
(* the enclave's signing key against the same pin file.  `pc te` moves the  *)
(* pin, from this process or from another one.                              *)
(***************************************************************************)
EXTENDS Integers, Sequences, FiniteSets, Functions, Absent

CONSTANTS
    Uploads,      \* threads, each with one upload
    Downloads,    \* threads, each with one file the enclave signed
    Offers,       \* the attestations the server may answer with
    OldPins,      \* what the pin file may hold at the start
    RetiredLimit, \* teeRetiredPkLimit
    MaxEvents     \* bound: rotations, `pc te` commands, expiries and logouts, together

ASSUME RetiredAssumption == RetiredLimit \in Nat \ {0}
ASSUME UploadsAssumption == None \notin Uploads
ASSUME EventsAssumption == MaxEvents \in Nat
\* A file some earlier process wrote: it retires a key only for another one.
ASSUME OldPinsAssumption ==
    \A p \in OldPins :
        /\ DOMAIN p = {"readable", "posture", "sign", "retired"}
        /\ p.retired \in Seq(Range(p.retired)) /\ Len(p.retired) <= RetiredLimit
        /\ p.sign \notin Range(p.retired) /\ (p.sign = None => p.retired = <<>>)

VARIABLES
    offer,      \* server: what it attests to
    pin,        \* tee_signing_pks.json, this account's record
    owner,      \* signingPinOwner() # "": an account's keys are configured
    set,        \* Session.teeEnclaveKeySet
    call,       \* Session.teeKeysFetch: the thread that probes
    epoch,      \* Session.teeKeysEpoch
    verdict,    \* Session.teeEnclaveKeyRefusal and teeScannerDisabledByServer
    recent,     \* a stale seal was checked within teeStaleRecheckGap
    up,         \* per upload: where it is
    down,       \* per download: where it is
    attested,   \* teeSigningAtt
    throttled,  \* before teeSigningAttNextTry
    te,         \* the `pc te` command
    events,     \* bounded by MaxEvents
    pinned,     \* history: every sealing key the file has held
    moved,      \* history: the file was written after the memos were last forgotten
    signers,    \* history: signing keys pinned and neither forgotten nor evicted
    overtaken   \* history: a first contact was recorded over a pin it had not seen

kvars == <<offer, pin, owner, set, call, epoch, verdict, recent, up, down, attested,
           throttled, te, events, pinned, moved, signers, overtaken>>

keyState == <<set, call, epoch, verdict, recent>>
memos == <<attested, throttled>>
history == <<pinned, moved, signers, overtaken>>

\* An upload: why it fetches the key set, whose probe it waits on, the answer it saw, the
\* posture it checked it against, what the fetch gave, what the file is sealed to.
Idle == [pc |-> "fetch", why |-> "seal", on |-> None, seen |-> None, saw |-> None, got |-> None,
         sealed |-> None, epoch |-> 0, refused |-> FALSE, resealed |-> FALSE]

-----------------------------------------------------------------------------
(* Attestations and postures.                                               *)

Key(p) == [x |-> p.x, ky |-> p.ky]

\* postureFor: a malformed key is no posture; without a quote the mode is "none".
Wellformed(a) == a.x # None /\ a.ky # None
postureFor(a) == [mode |-> IF a.sgx THEN "epid" ELSE "none",
                  meas |-> IF a.sgx THEN a.meas ELSE None, x |-> a.x, ky |-> a.ky]

ASSUME PostureAssumption == \A a \in Offers : postureFor(a) # None

\* The server vouches for what it offers.
Vouched(a) == a.status # "untrusted" /\ (a.sgx => a.status = "trusted")

\* teeAttestationAnswerable
teeAttestationAnswerable(a) == a.enabled /\ a.available /\ Vouched(a) /\ a.sign # None

\* The switch of checkTeeAttestationPosture: what a pinned posture lets through.
Matches_X25519(old, new) ==
    old.mode = new.mode /\ (new.mode = "epid" => new.meas = old.meas) /\ new.x = old.x
Matches(old, new) ==
    /\ old.mode = new.mode
    /\ new.mode = "epid" => new.meas = old.meas
    /\ new.x = old.x
    /\ old.ky \in {None, new.ky}

\* checkTeeAttestationPosture: the answer may be used; and it is to be recorded.
checkTeeAttestationPosture(a) ==
    /\ Vouched(a) /\ Wellformed(a)
    /\ owner => pin.readable /\ (pin.posture # None => Matches(pin.posture, postureFor(a)))
ToRecord == owner => pin.posture = None \/ pin.posture.ky = None

\* teeKeySetMatchesPin
teeKeySetMatchesPin(k) ==
    owner /\ pin.readable /\ pin.posture # None /\ Key(pin.posture) = k

-----------------------------------------------------------------------------
(* The key set: one probe at a time.                                        *)

To(t, pc) == up' = [up EXCEPT ![t].pc = pc]
Over(t, pc) == up' = [up EXCEPT ![t] = [Idle EXCEPT !.pc = pc, !.sealed = up[t].sealed]]

\* FetchTeeEnclaveKeySet up to the probe: the set it has, another's probe, or its own.
FetchTeeEnclaveKeySet(t) ==
    /\ up[t].pc = "fetch"
    /\ \/ /\ set # None
          /\ up' = [up EXCEPT ![t].pc = "got", ![t].got = set]
          /\ UNCHANGED call
       \/ /\ set = None /\ call # None
          /\ up' = [up EXCEPT ![t].pc = "wait", ![t].on = call]
          /\ UNCHANGED call
       \/ /\ set = None /\ call = None
          /\ up' = [up EXCEPT ![t].pc = "probe", ![t].epoch = epoch]
          /\ call' = t
    /\ UNCHANGED <<offer, pin, owner, set, epoch, verdict, recent, down, memos, te, events, history>>

\* wait: the caller's context ends first.
wait(t) ==
    /\ up[t].pc = "wait"
    /\ up' = [up EXCEPT ![t].pc = "got", ![t].on = None, ![t].got = None]
    /\ UNCHANGED <<offer, pin, owner, keyState, down, memos, te, events, history>>

\* FetchTeeAttestation: an answer, or none after its retries.
FetchTeeAttestation(t) ==
    /\ up[t].pc = "probe"
    /\ \E a \in {offer, None} : up' = [up EXCEPT ![t].pc = "answered", ![t].seen = a]
    /\ UNCHANGED <<offer, pin, owner, keyState, down, memos, te, events, history>>

\* The rest of probeTeeEnclaveKeySet up to commit().
probeTeeEnclaveKeySet(t) ==
    LET a == up[t].seen
        offered == a # None /\ a.available
        ok == offered /\ checkTeeAttestationPosture(a)
    IN  /\ up[t].pc = "answered"
        /\ up' = [up EXCEPT ![t].pc = IF ok /\ ToRecord THEN "record" ELSE "probed",
                            ![t].saw = pin.posture,
                            ![t].got = IF ok THEN Key(a) ELSE None,
                            ![t].refused = offered /\ ~ok]
        /\ UNCHANGED <<offer, pin, owner, keyState, down, memos, te, events, history>>

\* commit(), recordTeeAttestationPosture: over whatever the file holds by now.
recordTeeAttestationPosture(t) ==
    LET p == postureFor(up[t].seen)
        over == pin.posture \notin {up[t].saw, p}
    IN  /\ up[t].pc = "record"
        /\ To(t, "probed")
        /\ IF owner /\ pin.readable
           THEN /\ pin' = [pin EXCEPT !.posture = p]
                /\ pinned' = pinned \cup {Key(p)}
                /\ moved' = (moved \/ over)
                /\ overtaken' = (overtaken \/ over)
           ELSE UNCHANGED <<pin, pinned, moved, overtaken>>
        /\ UNCHANGED <<offer, owner, keyState, down, memos, te, events, signers>>

\* FetchTeeEnclaveKeySet after the probe: an answer from before a repin is dropped, and
\* close(call.done) hands what is left to every waiter.
Returned_AnyEpoch(t) == up[t].got
Returned(t) == IF epoch = up[t].epoch THEN up[t].got ELSE None
Woken_IfCurrent(t) == {w \in Uploads : up[w].pc = "wait" /\ up[w].on = t /\ call = t}
Woken(t) == {w \in Uploads : up[w].pc = "wait" /\ up[w].on = t}
settleFetch(t) ==
    /\ up[t].pc = "probed"
    /\ call' = IF call = t THEN None ELSE call
    /\ set' = IF Returned(t) # None THEN Returned(t) ELSE set
    /\ verdict' = IF epoch # up[t].epoch THEN verdict
                  ELSE [refused |-> up[t].refused,
                        disabled |-> IF up[t].seen # None THEN ~up[t].seen.enabled
                                     ELSE verdict.disabled]
    /\ up' = [u \in Uploads |->
                IF u \in Woken(t) \cup {t}
                THEN [up[u] EXCEPT !.pc = "got", !.on = None, !.seen = None, !.saw = None,
                                   !.epoch = 0, !.refused = FALSE, !.got = Returned(t)]
                ELSE up[u]]
    /\ UNCHANGED <<offer, pin, owner, epoch, recent, down, memos, te, events, history>>

-----------------------------------------------------------------------------
(* An upload: seal, send, and once more if the seal went stale.             *)

\* EncryptForUpload once it has the key set: none is an error unless the deployment runs no
\* scanner.  (The session has its public key at hand, so it fetches in any case.)
EncryptForUpload(t) ==
    /\ up[t].pc = "got" /\ up[t].why = "seal"
    /\ IF up[t].got = None /\ ~verdict.disabled THEN Over(t, "failed")
       ELSE up' = [up EXCEPT ![t].pc = "sent", ![t].sealed = up[t].got, ![t].got = None]
    /\ UNCHANGED <<offer, pin, owner, keyState, down, memos, te, events, history>>

\* The server's answer: stored, or MayBeStaleTeeSeal (once).
Answered(t) ==
    /\ up[t].pc = "sent"
    /\ \/ Over(t, "done")
       \/ IF up[t].resealed THEN Over(t, "failed") ELSE To(t, "stale")
    /\ UNCHANGED <<offer, pin, owner, keyState, down, memos, te, events, history>>

\* TeeSealWentStale: within the gap it takes what a check before it brought, or waits
\* for it; otherwise it drops the set and fetches.
TeeSealWentStale(t) ==
    /\ up[t].pc = "stale"
    /\ up' = [up EXCEPT ![t].why = "stale", ![t].got = IF recent THEN set ELSE None,
                        ![t].on = IF recent /\ set = None THEN call ELSE None,
                        ![t].pc = CASE ~recent -> "fetch"
                                    [] recent /\ set = None /\ call # None -> "wait"
                                    [] OTHER -> "got"]
    /\ recent' = TRUE
    /\ set' = IF recent THEN set ELSE None
    /\ UNCHANGED <<offer, pin, owner, call, epoch, verdict, down, memos, te, events, history>>

\* staleSealVerdict: only to a key the pin holds now, and not to the same one again.
Fresh(t) == up[t].got # None /\ teeKeySetMatchesPin(up[t].got) /\ up[t].got # up[t].sealed
staleSealVerdict(t) ==
    /\ up[t].pc = "got" /\ up[t].why = "stale"
    /\ IF Fresh(t)
       THEN up' = [up EXCEPT ![t].pc = "fetch", ![t].why = "seal", ![t].got = None,
                             ![t].resealed = TRUE]
       ELSE Over(t, "failed")
    /\ UNCHANGED <<offer, pin, owner, keyState, down, memos, te, events, history>>

-----------------------------------------------------------------------------
(* Downloads.                                                               *)

\* accepts
accepts(k) == k = pin.sign \/ k \in Range(pin.retired)

\* checkTeeSigningPks: the pin decides; without one, what the server attests to.
checkTeeSigningPks(d) ==
    /\ down[d].pc = "idle"
    /\ \E k \in {a.sign : a \in Offers} \ {None} :
         down' = [down EXCEPT ![d] = [key |-> k, pc |->
                    CASE owner /\ ~pin.readable -> "refused"
                      [] owner /\ pin.readable /\ pin.sign # None ->
                           IF accepts(k) THEN "verified" ELSE "refused"
                      [] OTHER -> "unpinned"]]
    /\ UNCHANGED <<offer, pin, owner, keyState, up, memos, te, events, history>>

\* attestedTeeSigningPk, fetchTeeSigningPk, under teeSigningAttMu.
attestedTeeSigningPk(d) ==
    /\ down[d].pc = "unpinned"
    /\ \E a \in {offer, None} :
         attested' = IF attested # None \/ throttled THEN attested
                     ELSE IF a # None /\ teeAttestationAnswerable(a) THEN a.sign ELSE None
    /\ throttled' = (throttled \/ attested = None)
    /\ down' = [down EXCEPT ![d].pc = IF attested' = down[d].key THEN "verify" ELSE "refused"]
    /\ UNCHANGED <<offer, pin, owner, keyState, up, te, events, history>>

\* verifyTEESigsReader, then commitPin(), recordTeeSigningPk.
recordTeeSigningPk(d) ==
    LET k == down[d].key IN
    /\ down[d].pc = "verify"
    /\ down' = [down EXCEPT ![d].pc = "verified"]
    /\ IF owner /\ pin.readable
       THEN /\ pin' = [pin EXCEPT !.sign = k]
            /\ signers' = signers \cup {k}
            /\ overtaken' = (overtaken \/ pin.sign \notin {None, k})
       ELSE UNCHANGED <<pin, signers, overtaken>>
    /\ UNCHANGED <<offer, owner, keyState, up, memos, te, events, pinned, moved>>

\* VerifyTEEFileSignatures fails: no pin.
badSignature(d) ==
    /\ down[d].pc = "verify"
    /\ down' = [down EXCEPT ![d].pc = "refused"]
    /\ UNCHANGED <<offer, pin, owner, keyState, up, memos, te, events, history>>

-----------------------------------------------------------------------------
(* `pc te`.                                                                 *)

\* runTeeRepin, OfferedTeeSigningPk: what the server offers is shown.
OfferedTeeSigningPk ==
    /\ te = None /\ owner /\ events < MaxEvents
    /\ teeAttestationAnswerable(offer) /\ Wellformed(offer)
    /\ te' = [sign |-> offer.sign, posture |-> postureFor(offer), forget |-> FALSE]
    /\ events' = events + 1
    /\ UNCHANGED <<offer, pin, owner, keyState, up, down, memos, history>>

\* It is not confirmed, or is pinned already, or the file cannot be set aside.
declined ==
    /\ te # None /\ ~te.forget
    /\ te' = None
    /\ UNCHANGED <<offer, pin, owner, keyState, up, down, memos, events, history>>

\* RepinTeeSigningPk: an unreadable file is set aside; the old signing key is retired, the
\* oldest ones beyond the limit go.
dropRetired(list, k) ==
    LET kept[i \in 0 .. Len(list)] ==
          IF i = 0 THEN <<>>
          ELSE IF list[i] # k THEN Append(kept[i - 1], list[i]) ELSE kept[i - 1]
    IN  kept[Len(list)]
keepNewest_All(list) == list
keepNewest(list) ==
    IF Len(list) > RetiredLimit THEN SubSeq(list, Len(list) - RetiredLimit + 1, Len(list)) ELSE list
Retire_NewKey(rec, new) ==
    IF rec.sign = new THEN rec.retired ELSE keepNewest(dropRetired(rec.retired, new))
Retire(rec, new) ==
    IF rec.sign = new THEN rec.retired
    ELSE keepNewest(dropRetired(IF rec.sign = None THEN rec.retired
                                ELSE Append(dropRetired(rec.retired, rec.sign), rec.sign), new))
Empty == [readable |-> TRUE, posture |-> None, sign |-> None, retired |-> <<>>]
RepinTeeSigningPk ==
    LET rec == IF pin.readable THEN pin ELSE Empty
        kept == Retire(rec, te.sign)
        evicted == IF Len(rec.retired) = RetiredLimit /\ te.sign \notin Range(rec.retired) \cup {rec.sign}
                      /\ rec.sign # None
                   THEN {Head(rec.retired)} ELSE {}
    IN  /\ te # None /\ ~te.forget /\ owner
        /\ ~(rec.sign = te.sign /\ rec.posture = te.posture)
        /\ pin' = [rec EXCEPT !.retired = kept, !.sign = te.sign, !.posture = te.posture]
        /\ pinned' = pinned \cup {Key(te.posture)}
        /\ signers' = (IF pin.readable THEN signers \ evicted ELSE {}) \cup {te.sign}
        /\ moved' = TRUE
        /\ te' \in {None, [te EXCEPT !.forget = TRUE]}
        /\ UNCHANGED <<offer, owner, keyState, up, down, memos, events, overtaken>>

\* forgetTeeAttestationMemos, when the repin is this process's own.
forgetTeeAttestationMemos ==
    /\ te # None /\ te.forget
    /\ te' = None
    /\ attested' = None /\ throttled' = FALSE
    /\ set' = None /\ call' = None
    /\ verdict' = [verdict EXCEPT !.refused = FALSE]
    /\ epoch' = epoch + 1
    /\ moved' = FALSE
    /\ UNCHANGED <<offer, pin, owner, recent, up, down, events, pinned, signers, overtaken>>

\* runTeeForget, ForgetRetiredTeeSigningPk
ForgetRetiredTeeSigningPk ==
    /\ te = None /\ owner /\ events < MaxEvents /\ pin.readable
    /\ \E k \in Range(pin.retired) :
         /\ pin' = [pin EXCEPT !.retired = dropRetired(@, k)]
         /\ signers' = signers \ {k}
    /\ events' = events + 1
    /\ UNCHANGED <<offer, owner, keyState, up, down, memos, te, pinned, moved, overtaken>>

-----------------------------------------------------------------------------
(* The server, time, and the specification.                                 *)

\* External: the deployment changes what it attests to.
Rotate ==
    /\ events < MaxEvents
    /\ offer' \in Offers \ {offer}
    /\ events' = events + 1
    /\ UNCHANGED <<pin, owner, keyState, up, down, memos, te, history>>

\* teeStaleRecheckGap, teeSigningAttThrottle
Elapse ==
    /\ events < MaxEvents
    /\ recent \/ throttled
    /\ recent' = FALSE /\ throttled' = FALSE
    /\ events' = events + 1
    /\ UNCHANGED <<offer, pin, owner, set, call, epoch, verdict, up, down, attested, te, history>>

\* The account's keys leave the configuration (config.Clear).
Logout ==
    /\ owner /\ events < MaxEvents
    /\ owner' = FALSE
    /\ events' = events + 1
    /\ UNCHANGED <<offer, pin, keyState, up, down, memos, te, history>>

\* A thread may have nothing to do.
KInit ==
    /\ offer \in Offers
    /\ pin \in OldPins /\ owner = TRUE
    /\ set = None /\ call = None /\ epoch = 0 /\ recent = FALSE
    /\ verdict = [refused |-> FALSE, disabled |-> FALSE]
    /\ up \in [Uploads -> {Idle, [Idle EXCEPT !.pc = "done"]}]
    /\ down \in [Downloads -> {[pc |-> p, key |-> None] : p \in {"idle", "verified"}}]
    /\ attested = None /\ throttled = FALSE
    /\ te = None /\ events = 0
    /\ pinned = IF pin.posture = None THEN {} ELSE {Key(pin.posture)}
    /\ signers = IF pin.readable THEN ({pin.sign} \ {None}) \cup Range(pin.retired) ELSE {}
    /\ moved = FALSE /\ overtaken = FALSE

UploadStep(t) ==
    \/ FetchTeeEnclaveKeySet(t) \/ FetchTeeAttestation(t)
    \/ probeTeeEnclaveKeySet(t) \/ recordTeeAttestationPosture(t) \/ settleFetch(t)
    \/ EncryptForUpload(t) \/ Answered(t) \/ TeeSealWentStale(t) \/ staleSealVerdict(t)
DownloadStep(d) ==
    \/ checkTeeSigningPks(d) \/ attestedTeeSigningPk(d) \/ recordTeeSigningPk(d) \/ badSignature(d)

KNext ==
    \/ \E t \in Uploads : UploadStep(t) \/ wait(t)
    \/ \E d \in Downloads : DownloadStep(d)
    \/ OfferedTeeSigningPk \/ declined \/ RepinTeeSigningPk \/ forgetTeeAttestationMemos
    \/ ForgetRetiredTeeSigningPk
    \/ Rotate \/ Elapse \/ Logout

KSpec == KInit /\ [][KNext]_kvars

-----------------------------------------------------------------------------
(* Properties.                                                              *)

\* The pin file, the session and its threads have the values the code gives them, and the
\* retired keys stay within their limit.
KTypeOK ==
    /\ call \in Uploads \cup {None} /\ epoch \in 0..MaxEvents
    /\ Len(pin.retired) <= RetiredLimit /\ (overtaken \/ pin.sign \notin Range(pin.retired))
    /\ \A t \in Uploads : up[t].on \in Uploads \cup {None}

\* A file's key is only ever sealed to an enclave key that this account's pin file has
\* held: not to one the server offers and the pin refuses, whoever probed, waited or
\* resealed, as long as the account's keys are configured.
SealedToPinned ==
    owner => \A t \in Uploads : up[t].sealed \in pinned \cup {None}

\* After a repin has dropped what the session remembered, and until someone else writes
\* the pin, the session remembers no other key than the pinned one, although a probe that
\* began before the repin may end after it (tee_key_cache_test.go,
\* TestARepinDuringAProbeDiscardsItsAnswer).
CacheFollowsPin == (owner /\ ~moved /\ set # None) => teeKeySetMatchesPin(set)

\* A file signed by a key that was pinned once stays readable over every later repin, until
\* the key is forgotten by command or is the oldest beyond the limit (runTeeRepin: "files it
\* signed still verify"); a first contact recorded over a newer pin is the exception.
SignersKept == overtaken \/ (pin.readable => \A k \in signers : accepts(k))

\* An upload that waits for a key set waits on a thread that still probes and will wake it,
\* although a repin drops that probe from the session and another takes its place
\* (FetchTeeEnclaveKeySet closes call.done on every path).
WaitersHaveProber ==
    \A t \in Uploads : up[t].pc = "wait" =>
        up[t].on # None /\ up[up[t].on].pc \in {"probe", "answered", "record", "probed"}
=============================================================================
