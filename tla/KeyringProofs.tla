---------------------------- MODULE KeyringProofs ----------------------------
(***************************************************************************)
(* The scanner's keys, for any number of uploads, attestations and pins,    *)
(* and any list of retired signing keys.                                    *)
(* The account's keys, their agent and the device key that unwraps them,    *)
(* for any number of accounts, hosts, agents, commands and mishaps.         *)
(***************************************************************************)
EXTENDS Keyring, TeeKeys, WellFoundedInduction, TLAPS

-----------------------------------------------------------------------------
(* The scanner's keys.                                                      *)

Probing == {"probe", "answered", "record", "probed"}
UpFields == DOMAIN Idle
PinFields == {"readable", "posture", "sign", "retired"}

\* What the proof needs of the types.
KShape ==
    /\ DOMAIN up = Uploads /\ \A t \in Uploads : DOMAIN up[t] = UpFields
    /\ DOMAIN pin = PinFields /\ offer \in Offers
    /\ te # None => DOMAIN te = {"sign", "posture", "forget"}

\* The probe of the session, and the probe every waiter waits on, is under way.
Prober(t) == t \in Uploads /\ up[t].pc \in Probing
Woke(t) == up[t].pc = "wait" => Prober(up[t].on)
Probed == (call # None => Prober(call)) /\ \A t \in Uploads : Woke(t)

\* What the session and its uploads hold was pinned; an answer that is to be recorded was
\* checked against a record without a Kyber key.
Allowed(t) ==
    /\ up[t].pc \in {"got", "probed"} => up[t].got \in pinned \cup {None}
    /\ up[t].sealed \in pinned \cup {None}
    /\ up[t].pc \in {"record", "probed"} /\ up[t].got # None => up[t].got.ky # None
    /\ up[t].pc = "answered" => up[t].seen \in Offers \cup {None}
    /\ up[t].pc = "record" =>
         /\ pin.readable /\ up[t].seen \in Offers /\ up[t].got = Key(up[t].seen)
         /\ up[t].saw # None => up[t].saw.ky = None
Sealable ==
    owner => /\ pin.posture # None => Key(pin.posture) \in pinned
             /\ set # None => set \in pinned /\ set.ky # None
             /\ \A t \in Uploads : Allowed(t)

\* What the session remembers, or a probe of this epoch is about to give it, is the key
\* of the pin, until the pin is moved by somebody else.
Current(t) ==
    /\ up[t].pc \in Probing => up[t].epoch \in 0 .. epoch
    /\ owner /\ ~moved /\ up[t].pc = "probed" /\ up[t].epoch = epoch /\ up[t].got # None
         => teeKeySetMatchesPin(up[t].got)
Cached ==
    /\ epoch \in Nat
    /\ CacheFollowsPin
    /\ \A t \in Uploads : Current(t)

KInv == KShape /\ Probed /\ Sealable /\ Cached

LEMMA KInitInv == KInit => KInv
<1> SUFFICES ASSUME KInit PROVE KInv
  OBVIOUS
<1>1. \A t \in Uploads : up[t] \in {Idle, [Idle EXCEPT !.pc = "done"]} /\ DOMAIN up[t] = UpFields
  BY ZenonT(30) DEF KInit, UpFields, Idle
<1>2. \A t \in Uploads : up[t].pc \in {"fetch", "done"} /\ up[t].sealed = None
  BY <1>1 DEF Idle
<1>3. KShape
  BY <1>1, OldPinsAssumption DEF KInit, KShape, PinFields
<1>4. Probed /\ Sealable
  BY <1>2 DEF KInit, Probed, Woke, Prober, Probing, Sealable, Allowed
<1>5. Cached
  BY <1>2 DEF KInit, Cached, CacheFollowsPin, Current, Probing
<1> QED
  BY <1>3, <1>4, <1>5 DEF KInv

\* A step of one upload that writes neither the pin nor the session.
LEMMA OneUploadInv ==
    ASSUME KInv, NEW t \in Uploads,
           UNCHANGED <<offer, pin, owner, epoch, te, pinned, moved>>,
           DOMAIN up' = Uploads, \A u \in Uploads \ {t} : up'[u] = up[u],
           DOMAIN up'[t] = UpFields,
           Prober(t) => Prober(t)',
           call' \in {call, t}, call' = t => Prober(t)' \/ call = t,
           set' \in {set, None},
           Woke(t)', owner => Allowed(t)', Current(t)'
    PROVE  KInv'
<1>1. KShape'
  BY DEF KInv, KShape
<1>2. \A u : Prober(u) => Prober(u)'
  BY DEF Prober
<1>3. \A u \in Uploads \ {t} : Woke(u)'
  BY <1>2 DEF KInv, Probed, Woke
<1>4. Probed'
  BY <1>2, <1>3 DEF KInv, Probed
<1>5. Sealable'
  BY DEF KInv, Sealable, Allowed
<1>6. Cached'
  BY DEF KInv, Cached, CacheFollowsPin, Current, teeKeySetMatchesPin
<1> QED
  BY <1>1, <1>4, <1>5, <1>6 DEF KInv

USE DEF UpFields

\* The uploads' own steps.
LEMMA FetchInv ==
    ASSUME KInv, NEW t \in Uploads,
           FetchTeeEnclaveKeySet(t) \/ wait(t) \/ FetchTeeAttestation(t)
    PROVE  KInv'
<1> USE DEF Probing, Prober
<1>1. UNCHANGED <<offer, pin, owner, epoch, set, te, pinned, moved>>
  BY DEF FetchTeeEnclaveKeySet, wait, FetchTeeAttestation, keyState, history
<1>2. DOMAIN up' = Uploads /\ (\A u \in Uploads \ {t} : up'[u] = up[u]) /\ DOMAIN up'[t] = UpFields
  BY DEF FetchTeeEnclaveKeySet, wait, FetchTeeAttestation, KInv, KShape
<1>3. CASE FetchTeeEnclaveKeySet(t)
  <2>1. up'[t].sealed = up[t].sealed /\ up[t].pc = "fetch"
    BY <1>3 DEF FetchTeeEnclaveKeySet, KInv, KShape, Idle
  <2>2. CASE set # None
    <3>1. up'[t].pc = "got" /\ up'[t].got = set /\ call' = call
      BY <1>3, <2>2 DEF FetchTeeEnclaveKeySet, KInv, KShape, Idle
    <3> QED
      BY <1>1, <1>2, <2>1, <2>2, <3>1, OneUploadInv DEF KInv, Sealable, Allowed, Current, Woke
  <2>3. CASE set = None /\ call # None
    <3>1. up'[t].pc = "wait" /\ up'[t].on = call /\ call' = call
      BY <1>3, <2>3 DEF FetchTeeEnclaveKeySet, KInv, KShape, Idle
    <3>2. Prober(call) /\ call # t
      BY <2>1, <2>3 DEF KInv, Probed
    <3>3. Woke(t)'
      BY <1>2, <3>1, <3>2 DEF Woke
    <3> QED
      BY Zenon, <1>1, <1>2, <2>1, <3>1, <3>3, OneUploadInv DEF KInv, Sealable, Allowed, Current
  <2>4. CASE set = None /\ call = None
    <3>1. up'[t].pc = "probe" /\ up'[t].epoch = epoch /\ call' = t
      BY <1>3, <2>4 DEF FetchTeeEnclaveKeySet, KInv, KShape, Idle
    <3>2. Current(t)'
      BY <1>1, <3>1 DEF Current, KInv, Cached
    <3> QED
      BY <1>1, <1>2, <2>1, <3>1, <3>2, OneUploadInv DEF KInv, Sealable, Allowed, Woke
  <2> QED
    BY <2>2, <2>3, <2>4
<1>4. CASE wait(t)
  <2>1. up'[t].sealed = up[t].sealed /\ up[t].pc = "wait" /\ call' = call
    BY <1>4 DEF wait, KInv, KShape, Idle, keyState
  <2>2. up'[t].pc = "got" /\ up'[t].got = None
    BY <1>4 DEF wait, KInv, KShape, Idle
  <2> QED
    BY <1>1, <1>2, <2>1, <2>2, OneUploadInv DEF KInv, Sealable, Allowed, Current, Woke
<1>5. CASE FetchTeeAttestation(t)
  <2>1. up'[t].sealed = up[t].sealed /\ up[t].pc = "probe" /\ call' = call
    BY <1>5 DEF FetchTeeAttestation, KInv, KShape, Idle, keyState
  <2>2. /\ up'[t].pc = "answered" /\ up'[t].epoch = up[t].epoch
        /\ up'[t].seen \in Offers \cup {None}
    BY <1>5 DEF FetchTeeAttestation, KInv, KShape, Idle
  <2>3. Current(t)'
    BY <1>1, <2>1, <2>2 DEF Current, KInv, Cached
  <2> QED
    BY <1>1, <1>2, <2>1, <2>2, <2>3, OneUploadInv DEF KInv, Sealable, Allowed, Woke
<1> QED
  BY <1>3, <1>4, <1>5

LEMMA ProbeInv ==
    ASSUME KInv, NEW t \in Uploads, probeTeeEnclaveKeySet(t)
    PROVE  KInv'
<1> USE DEF Probing, Prober
<1> DEFINE a == up[t].seen
           ok == a # None /\ a.available /\ checkTeeAttestationPosture(a)
<1>1. UNCHANGED <<offer, pin, owner, epoch, set, call, te, pinned, moved>>
  BY DEF probeTeeEnclaveKeySet, keyState, history
<1>2. DOMAIN up' = Uploads /\ (\A u \in Uploads \ {t} : up'[u] = up[u]) /\ DOMAIN up'[t] = UpFields
  BY DEF probeTeeEnclaveKeySet, KInv, KShape
<1>3. /\ up'[t].sealed = up[t].sealed /\ up[t].pc = "answered"
      /\ up'[t].seen = a /\ up'[t].saw = pin.posture /\ up'[t].epoch = up[t].epoch
  BY SMTT(30) DEF probeTeeEnclaveKeySet, KInv, KShape, Idle
<1>4. /\ up'[t].pc = IF ok /\ ToRecord THEN "record" ELSE "probed"
      /\ up'[t].got = IF ok THEN Key(a) ELSE None
  BY DEF probeTeeEnclaveKeySet, KInv, KShape, Idle
<1>5. owner /\ ok => pin.readable /\ Key(a).ky # None /\ a \in Offers
  BY Zenon, <1>3 DEF KInv, Sealable, Allowed, checkTeeAttestationPosture, Wellformed, Key
<1>6. owner /\ ok /\ ~ToRecord => teeKeySetMatchesPin(Key(a))
  BY DEF checkTeeAttestationPosture, ToRecord, Matches, postureFor, Key, teeKeySetMatchesPin
<1> HIDE DEF ok
<1>7. owner => Allowed(t)'
  BY <1>1, <1>3, <1>4, <1>5, <1>6 DEF Allowed, ToRecord, teeKeySetMatchesPin, KInv, Sealable
<1>8. Current(t)'
  <2>1. up'[t].epoch \in 0 .. epoch
    BY <1>3 DEF KInv, Cached, Current
  <2> QED
    BY <1>1, <1>4, <1>6, <2>1 DEF Current, teeKeySetMatchesPin
<1> QED
  BY <1>1, <1>2, <1>3, <1>4, <1>7, <1>8, OneUploadInv DEF Woke

LEMMA OverFields ==
    ASSUME KShape, NEW t \in Uploads, NEW pc, Over(t, pc)
    PROVE  up'[t].pc = pc /\ up'[t].sealed = up[t].sealed
<1>1. up'[t] = [Idle EXCEPT !.pc = pc, !.sealed = up[t].sealed]
  BY DEF Over, KShape
<1> QED
  BY <1>1 DEF Idle

LEMMA EncryptInv ==
    ASSUME KInv, NEW t \in Uploads,
           EncryptForUpload(t) \/ Answered(t) \/ TeeSealWentStale(t) \/ staleSealVerdict(t)
    PROVE  KInv'
<1> USE DEF Probing, Prober
<1>1. UNCHANGED <<offer, pin, owner, epoch, call, te, pinned, moved>> /\ set' \in {set, None}
  BY DEF EncryptForUpload, Answered, TeeSealWentStale, staleSealVerdict, keyState, history
<1>2. DOMAIN up' = Uploads /\ (\A u \in Uploads \ {t} : up'[u] = up[u])
  BY DEF EncryptForUpload, Answered, TeeSealWentStale, staleSealVerdict, KInv, KShape, Over, To
<1>3. DOMAIN up'[t] = UpFields
  BY ZenonT(60) DEF EncryptForUpload, Answered, TeeSealWentStale, staleSealVerdict, KInv, KShape,
     Over, To, Idle
<1>4. up[t].pc \in {"got", "sent", "stale"}
  BY DEF EncryptForUpload, Answered, TeeSealWentStale, staleSealVerdict
<1>5. CASE EncryptForUpload(t)
  <2>1. /\ up'[t].pc \in {"failed", "sent"} /\ up[t].pc = "got"
        /\ up'[t].sealed \in {up[t].sealed, up[t].got}
    <3>1. CASE Over(t, "failed")
      BY <1>5, <3>1, OverFields DEF EncryptForUpload, KInv
    <3>2. CASE up' = [up EXCEPT ![t].pc = "sent", ![t].sealed = up[t].got, ![t].got = None]
      BY <1>5, <3>2 DEF EncryptForUpload, KInv, KShape, Idle
    <3> QED
      BY <1>5, <3>1, <3>2 DEF EncryptForUpload
  <2> QED
    BY <1>1, <1>2, <1>3, <2>1, OneUploadInv DEF KInv, Sealable, Allowed, Current, Woke
<1>6. CASE Answered(t) \/ staleSealVerdict(t)
  <2>1. up'[t].pc \in {"done", "failed", "stale", "fetch"} /\ up'[t].sealed = up[t].sealed
    <3>1. CASE \E pc \in {"done", "failed"} : Over(t, pc)
      BY <3>1, OverFields DEF KInv
    <3>2. CASE To(t, "stale")
      BY <3>2 DEF To, KInv, KShape, Idle
    <3>3. CASE up' = [up EXCEPT ![t].pc = "fetch", ![t].why = "seal", ![t].got = None,
                                ![t].resealed = TRUE]
      BY <3>3 DEF KInv, KShape, Idle
    <3> QED
      BY <1>6, <3>1, <3>2, <3>3 DEF Answered, staleSealVerdict
  <2> QED
    BY <1>1, <1>2, <1>3, <1>4, <2>1, OneUploadInv DEF KInv, Sealable, Allowed, Current, Woke
<1>7. CASE TeeSealWentStale(t)
  <2>1. up'[t].sealed = up[t].sealed /\ up[t].pc = "stale" /\ up'[t].got \in {set, None}
    BY <1>7 DEF TeeSealWentStale, KInv, KShape, Idle
  <2>2. up'[t].pc \in {"fetch", "got"} \/ (up'[t].pc = "wait" /\ up'[t].on = call /\ call # None)
    BY <1>7 DEF TeeSealWentStale, KInv, KShape, Idle
  <2>3. Woke(t)'
    BY <1>2, <2>1, <2>2 DEF Woke, KInv, Probed
  <2> QED
    BY <1>1, <1>2, <1>3, <2>1, <2>2, <2>3, OneUploadInv DEF KInv, Sealable, Allowed, Current
<1> QED
  BY <1>5, <1>6, <1>7

\* The first contact is recorded: over the record it was checked against, or its own;
\* over any other it counts as a move of the pin.
LEMMA RecordInv ==
    ASSUME KInv, NEW t \in Uploads, recordTeeAttestationPosture(t)
    PROVE  KInv'
<1> DEFINE p == postureFor(up[t].seen)
           over == pin.posture \notin {up[t].saw, p}
<1>1. UNCHANGED <<offer, owner, epoch, set, call, te>>
  BY DEF recordTeeAttestationPosture, keyState, history
<1>2. /\ DOMAIN up' = Uploads /\ (\A u \in Uploads \ {t} : up'[u] = up[u])
      /\ DOMAIN up'[t] = UpFields
  BY DEF recordTeeAttestationPosture, KInv, KShape, To
<1>3. /\ up[t].pc = "record" /\ up'[t].pc = "probed" /\ up'[t].on = up[t].on
      /\ up'[t].got = up[t].got /\ up'[t].epoch = up[t].epoch /\ up'[t].sealed = up[t].sealed
  BY DEF recordTeeAttestationPosture, KInv, KShape, To, Idle
<1>4. Probed'
  <2>1. \A u : Prober(u) => Prober(u)'
    BY <1>2, <1>3 DEF Prober, Probing
  <2> QED
    BY <1>1, <1>2, <1>3, <2>1 DEF KInv, Probed, Woke
<1>5. \A u \in Uploads : up'[u].pc \in Probing => up'[u].epoch \in 0 .. epoch
  BY <1>2, <1>3 DEF KInv, Cached, Current, Probing
<1>6. CASE owner /\ pin.readable
  <2>1. /\ pin' = [pin EXCEPT !.posture = p] /\ pinned' = pinned \cup {Key(p)}
        /\ moved' = (moved \/ over)
    BY <1>6 DEF recordTeeAttestationPosture
  <2>2. DOMAIN pin' = PinFields /\ pin'.posture = p /\ pin'.readable = pin.readable
    BY <2>1 DEF KInv, KShape, PinFields
  <2>3. KShape'
    BY <1>1, <1>2, <2>2 DEF KInv, KShape
  <2>4. Key(p) = Key(up[t].seen) /\ Key(p) = up[t].got
    BY <1>3, <1>6 DEF Key, postureFor, KInv, Sealable, Allowed
  <2>5. Sealable'
    <3>1. Allowed(t)'
      BY <1>3, <1>6, <2>1, <2>4 DEF KInv, Sealable, Allowed
    <3>2. \A u \in Uploads \ {t} : Allowed(u)'
      BY <1>2, <1>6, <2>1, <2>2 DEF KInv, Sealable, Allowed
    <3> QED
      BY <1>1, <1>6, <2>1, <2>2, <3>1, <3>2 DEF KInv, Sealable
  <2>6. ASSUME ~moved', NEW k, k # None, k.ky # None, teeKeySetMatchesPin(k)
        PROVE  teeKeySetMatchesPin(k)'
    <3>1. pin.posture # None /\ pin.posture.ky # None
      BY <2>6 DEF teeKeySetMatchesPin, Key
    <3>2. pin.posture # up[t].saw
      BY <1>3, <1>6, <3>1 DEF KInv, Sealable, Allowed
    <3>3. pin.posture = p
      BY Zenon, <2>1, <2>6, <3>2
    <3> QED
      BY <1>1, <2>2, <2>6, <3>3 DEF teeKeySetMatchesPin
  <2>7. (up[t].got # None => teeKeySetMatchesPin(up[t].got))'
    <3>1. p # None
      BY <1>3, <1>6, PostureAssumption DEF KInv, Sealable, Allowed
    <3> QED
      BY <1>1, <1>3, <1>6, <2>2, <2>4, <3>1 DEF teeKeySetMatchesPin
  <2>8. Cached'
    <3>1. CacheFollowsPin'
      BY Zenon, <1>1, <1>6, <2>1, <2>6 DEF KInv, Sealable, Cached, CacheFollowsPin
    <3>2. Current(t)'
      BY <1>1, <1>5, <2>7 DEF Current
    <3>3. \A u \in Uploads \ {t} : Current(u)'
      BY Zenon, <1>1, <1>2, <1>5, <1>6, <2>1, <2>6 DEF KInv, Sealable, Allowed, Cached, Current
    <3> QED
      BY <1>1, <3>1, <3>2, <3>3 DEF KInv, Cached
  <2> QED
    BY <1>4, <2>3, <2>5, <2>8 DEF KInv
<1>7. CASE ~(owner /\ pin.readable)
  <2>1. UNCHANGED <<pin, pinned, moved>>
    BY <1>7 DEF recordTeeAttestationPosture
  <2>2. ~owner
    BY <1>3, <1>7 DEF KInv, Sealable, Allowed
  <2> QED
    BY <1>1, <1>2, <1>4, <1>5, <2>1, <2>2 DEF KInv, KShape, Sealable, Cached, CacheFollowsPin, Current
<1> QED
  BY <1>6, <1>7

\* The probe ends: its waiters have its answer, and an answer of an earlier epoch is none.
LEMMA SettleInv ==
    ASSUME KInv, NEW t \in Uploads, settleFetch(t)
    PROVE  KInv'
<1> DEFINE r == Returned(t)
           W == Woken(t) \cup {t}
<1>1. UNCHANGED <<offer, pin, owner, epoch, te, pinned, moved>> /\ up[t].pc = "probed"
  BY Zenon DEF settleFetch, history
<1>2. /\ call' = IF call = t THEN None ELSE call
      /\ set' = IF r # None THEN r ELSE set
  BY Zenon DEF settleFetch
<1>3. DOMAIN up' = Uploads /\ \A u \in Uploads \ W : up'[u] = up[u]
  BY Zenon DEF settleFetch
<1>4. \A u \in Uploads : u \in W =>
        /\ DOMAIN up'[u] = UpFields
        /\ up'[u].pc = "got" /\ up'[u].got = r /\ up'[u].sealed = up[u].sealed
  BY Zenon DEF settleFetch, KInv, KShape, Idle
<1>5. \A u \in W : u = t \/ (up[u].pc = "wait" /\ up[u].on = t)
  BY DEF Woken
<1>6. \A u \in Uploads \ W : u # t /\ ~(up[u].pc = "wait" /\ up[u].on = t)
  BY DEF Woken
<1>7. /\ owner => r \in pinned \cup {None} /\ (r # None => r.ky # None)
      /\ owner /\ ~moved /\ r # None => teeKeySetMatchesPin(r)
  BY <1>1 DEF Returned, KInv, Sealable, Allowed, Cached, Current
<1> HIDE DEF r, W
<1>8. KShape'
  BY <1>1, <1>3, <1>4 DEF KInv, KShape
<1>9. \A u : Prober(u) /\ u # t => Prober(u)'
  BY <1>3, <1>4, <1>5 DEF Prober, Probing
<1>10. Probed'
  <2>1. call' # None => Prober(call)'
    BY <1>2, <1>9 DEF KInv, Probed
  <2>2. ASSUME NEW u \in Uploads PROVE Woke(u)'
    <3>1. CASE u \in W
      BY <1>4, <3>1 DEF Woke
    <3>2. CASE u \notin W
      BY <1>3, <1>6, <1>9, <3>2 DEF Woke, KInv, Probed
    <3> QED
      BY <3>1, <3>2
  <2> QED
    BY <2>1, <2>2 DEF Probed
<1>11. Sealable'
  <2>1. ASSUME owner, NEW u \in Uploads PROVE Allowed(u)'
    <3>1. CASE u \in W
      BY <1>1, <1>4, <1>7, <2>1, <3>1 DEF Allowed, KInv, Sealable
    <3>2. CASE u \notin W
      <4>1. Allowed(u) /\ up'[u] = up[u]
        BY Zenon, <1>1, <1>3, <2>1, <3>2 DEF KInv, Sealable
      <4> QED
        BY Zenon, <1>1, <4>1 DEF Allowed
    <3> QED
      BY <3>1, <3>2
  <2> QED
    BY <1>1, <1>2, <1>7, <2>1 DEF KInv, Sealable
<1>12. Cached'
  <2>1. ASSUME NEW u \in Uploads PROVE Current(u)'
    <3>1. CASE u \in W
      BY <1>4, <3>1 DEF Current, Probing
    <3>2. CASE u \notin W
      BY <1>1, <1>3, <3>2 DEF Current, KInv, Cached, teeKeySetMatchesPin
    <3> QED
      BY <3>1, <3>2
  <2>2. CacheFollowsPin'
    BY <1>1, <1>2, <1>7 DEF CacheFollowsPin, KInv, Cached, teeKeySetMatchesPin
  <2> QED
    BY <1>1, <2>1, <2>2 DEF KInv, Cached
<1> QED
  BY <1>8, <1>10, <1>11, <1>12 DEF KInv

\* Nothing here reads the downloads, the signing keys or the command's progress.
LEMMA SignerInv ==
    ASSUME KInv, UNCHANGED <<set, call, epoch, up, pinned, moved>>,
           owner' => owner, offer' \in Offers, DOMAIN pin' = PinFields,
           pin'.readable = pin.readable, pin'.posture = pin.posture,
           te' # None => DOMAIN te' = {"sign", "posture", "forget"}
    PROVE  KInv'
<1>1. KShape'
  BY DEF KInv, KShape
<1>2. Probed'
  BY DEF KInv, Probed, Woke, Prober
<1>3. Sealable'
  BY DEF KInv, Sealable, Allowed
<1>4. Cached'
  BY DEF KInv, Cached, CacheFollowsPin, Current, teeKeySetMatchesPin
<1> QED
  BY <1>1, <1>2, <1>3, <1>4 DEF KInv

LEMMA DownloadInv ==
    ASSUME KInv, NEW d \in Downloads, DownloadStep(d)
    PROVE  KInv'
<1>1. UNCHANGED <<offer, owner, set, call, epoch, up, te, pinned, moved>>
  BY DEF DownloadStep, checkTeeSigningPks, attestedTeeSigningPk, recordTeeSigningPk, badSignature,
         keyState, history
<1>2. pin' = pin \/ pin' = [pin EXCEPT !.sign = down[d].key]
  BY DEF DownloadStep, checkTeeSigningPks, attestedTeeSigningPk, recordTeeSigningPk, badSignature
<1> QED
  BY <1>1, <1>2, SignerInv DEF KInv, KShape, PinFields

\* `pc te`: a repin moves the pin; the memos are forgotten with the epoch.
LEMMA CommandInv ==
    ASSUME KInv,
           \/ OfferedTeeSigningPk \/ declined \/ RepinTeeSigningPk \/ forgetTeeAttestationMemos
           \/ ForgetRetiredTeeSigningPk
    PROVE  KInv'
<1>1. CASE OfferedTeeSigningPk \/ declined \/ ForgetRetiredTeeSigningPk
  <2>1. UNCHANGED <<offer, owner, set, call, epoch, up, pinned, moved>>
    BY <1>1 DEF OfferedTeeSigningPk, declined, ForgetRetiredTeeSigningPk, keyState, history
  <2>2. te' # None => DOMAIN te' = {"sign", "posture", "forget"}
    BY <1>1 DEF OfferedTeeSigningPk, declined, ForgetRetiredTeeSigningPk, KInv, KShape
  <2>3. DOMAIN pin' = PinFields /\ pin'.readable = pin.readable /\ pin'.posture = pin.posture
    BY <1>1 DEF OfferedTeeSigningPk, declined, ForgetRetiredTeeSigningPk, KInv, KShape, PinFields
  <2> QED
    BY <2>1, <2>2, <2>3, SignerInv DEF KInv, KShape
<1>2. CASE RepinTeeSigningPk
  <2> DEFINE rec == IF pin.readable THEN pin ELSE Empty
  <2>1. UNCHANGED <<offer, owner, set, call, epoch, up>> /\ moved' = TRUE
    BY <1>2 DEF RepinTeeSigningPk, keyState
  <2>2. DOMAIN rec = PinFields /\ rec.readable = TRUE
    BY DEF KInv, KShape, PinFields, Empty
  <2>3. /\ pin' = [rec EXCEPT !.retired = Retire(rec, te.sign), !.sign = te.sign, !.posture = te.posture]
        /\ pinned' = pinned \cup {Key(te.posture)}
        /\ te' \in {None, [te EXCEPT !.forget = TRUE]} /\ te # None
    BY <1>2 DEF RepinTeeSigningPk
  <2> HIDE DEF rec
  <2>4. DOMAIN pin' = PinFields /\ pin'.readable = TRUE /\ pin'.posture = te.posture
    BY <2>2, <2>3 DEF PinFields
  <2>5. KShape'
    BY <2>1, <2>3, <2>4 DEF KInv, KShape
  <2>6. Probed'
    BY <2>1 DEF KInv, Probed, Woke, Prober
  <2>7. Sealable'
    BY <2>1, <2>3, <2>4 DEF KInv, Sealable, Allowed
  <2>8. Cached'
    BY <2>1 DEF KInv, Cached, CacheFollowsPin, Current
  <2> QED
    BY <2>5, <2>6, <2>7, <2>8 DEF KInv
<1>3. CASE forgetTeeAttestationMemos
  <2>1. UNCHANGED <<offer, pin, owner, up, pinned>> /\ set' = None /\ call' = None /\ te' = None
    BY <1>3 DEF forgetTeeAttestationMemos
  <2>2. epoch' = epoch + 1
    BY <1>3 DEF forgetTeeAttestationMemos
  <2>3. KShape'
    BY <2>1 DEF KInv, KShape
  <2>4. Probed'
    BY <2>1 DEF KInv, Probed, Woke, Prober
  <2>5. Sealable'
    BY <2>1 DEF KInv, Sealable, Allowed
  <2>6. Cached'
    <3>1. CacheFollowsPin'
      BY Zenon, <2>1 DEF CacheFollowsPin
    <3>2. epoch \in Nat /\ epoch' \in Nat
      BY <2>2 DEF KInv, Cached
    <3>3. ASSUME NEW t \in Uploads PROVE Current(t)'
      <4>1. up'[t] = up[t] /\ (up[t].pc \in Probing => up[t].epoch \in 0 .. epoch)
        BY Zenon, <2>1 DEF KInv, Cached, Current
      <4>2. up[t].pc \in Probing => up[t].epoch \in 0 .. epoch' /\ up[t].epoch # epoch'
        BY <2>2, <3>2, <4>1
      <4> QED
        BY Zenon, <4>1, <4>2 DEF Current, Probing
    <3> QED
      BY Zenon, <3>1, <3>2, <3>3 DEF Cached
  <2> QED
    BY <2>3, <2>4, <2>5, <2>6 DEF KInv
<1> QED
  BY <1>1, <1>2, <1>3

\* KInv is an inductive invariant of a session and its pin, whatever the server attests to
\* and whatever `pc te` does meanwhile.
THEOREM KInvariant == KSpec => []KInv
<1>1. KInv /\ [KNext]_kvars => KInv'
  <2> SUFFICES ASSUME KInv, [KNext]_kvars PROVE KInv'
    OBVIOUS
  <2>1. CASE \E t \in Uploads : UploadStep(t) \/ wait(t)
    BY <2>1, FetchInv, ProbeInv, RecordInv, SettleInv, EncryptInv DEF UploadStep
  <2>2. CASE \E d \in Downloads : DownloadStep(d)
    BY <2>2, DownloadInv
  <2>3. CASE \/ OfferedTeeSigningPk \/ declined \/ RepinTeeSigningPk \/ forgetTeeAttestationMemos
             \/ ForgetRetiredTeeSigningPk
    BY <2>3, CommandInv
  <2>4. CASE Rotate \/ Elapse \/ Logout \/ UNCHANGED kvars
    <3>1. UNCHANGED <<pin, set, call, epoch, up, te, pinned, moved>> /\ (owner' => owner)
      BY <2>4 DEF Rotate, Elapse, Logout, kvars, keyState, history
    <3>2. offer' \in Offers
      BY <2>4 DEF Rotate, Elapse, Logout, kvars, KInv, KShape
    <3> QED
      BY <3>1, <3>2, SignerInv DEF KInv, KShape
  <2> QED
    BY <2>1, <2>2, <2>3, <2>4 DEF KNext
<1> QED
  BY <1>1, KInitInv, PTL DEF KSpec

\* EncryptForUpload seals only to a key that the account's pin file has held, whoever
\* probed, waited, recorded a first contact or sealed again.
THEOREM SealsToPinned == KSpec => []SealedToPinned
<1>1. KInv => SealedToPinned
  BY DEF KInv, Sealable, Allowed, SealedToPinned
<1> QED
  BY <1>1, KInvariant, PTL

\* A probe that began before a repin leaves nothing in the session after it: what the
\* session remembers is the pinned key until the pin moves again.
THEOREM CacheIsPinned == KSpec => []CacheFollowsPin
<1>1. KInv => CacheFollowsPin
  BY DEF KInv, Cached
<1> QED
  BY <1>1, KInvariant, PTL

\* Every upload that waits in FetchTeeEnclaveKeySet waits on a probe that is under way.
THEOREM NobodyWaitsInVain == KSpec => []WaitersHaveProber
<1>1. KInv => WaitersHaveProber
  BY UploadsAssumption DEF KInv, Probed, Woke, Prober, Probing, WaitersHaveProber
<1> QED
  BY <1>1, KInvariant, PTL

HIDE DEF UpFields

-----------------------------------------------------------------------------
(* The retired signing keys of the scanner: the lists.                      *)

\* Every set of natural numbers has a least one: what induction over the list uses.
LEMMA LeastNat ==
    ASSUME NEW T, T \subseteq Nat, T # {}
    PROVE  \E n \in T : \A m \in T : n <= m
<1> DEFINE R == OpToRel(<, Nat)
<1>1. IsWellFoundedOn(R, Nat)
  BY NatLessThanWellFounded
<1>2. \A m, n \in Nat : m < n => <<m, n>> \in R
  BY DEF OpToRel
<1> HIDE DEF R
<1>3. PICK n \in T : \A m \in T : ~ (<<m, n>> \in R)
  BY <1>1, WFMin
<1>4. \A m \in T : n <= m
  <2> TAKE m \in T
  <2>1. m \in Nat /\ n \in Nat /\ ~ (m < n)
    BY <1>2, <1>3
  <2> QED
    BY <2>1
<1> QED
  BY <1>4

\* f is the loop of dropRetired over the first n entries.
Filters(f, n, list, k) ==
    f = [i \in 0 .. n |-> IF i = 0 THEN <<>>
                          ELSE IF list[i] # k THEN Append(f[i - 1], list[i]) ELSE f[i - 1]]

\* The loop has a result for every length.
LEMMA FilterExists ==
    ASSUME NEW list, NEW k, NEW len \in Nat
    PROVE  \E f : Filters(f, len, list, k)
<1> DEFINE T == {n \in Nat : ~ \E f : Filters(f, n, list, k)}
<1> SUFFICES ASSUME T # {} PROVE FALSE
  OBVIOUS
<1>1. PICK n \in T : \A m \in T : n <= m
  BY LeastNat
<1>2. CASE n = 0
  <2>1. Filters([i \in 0 .. 0 |-> <<>>], 0, list, k)
    BY DEF Filters
  <2> QED
    BY Zenon, <1>1, <1>2, <2>1
<1>3. CASE n # 0
  <2>1. n - 1 \in Nat /\ n - 1 \notin T
    BY <1>1, <1>3
  <2>2. PICK f : Filters(f, n - 1, list, k)
    BY Zenon, <2>1
  <2> DEFINE last == IF list[n] # k THEN Append(f[n - 1], list[n]) ELSE f[n - 1]
             g == [i \in 0 .. n |-> IF i = n THEN last ELSE f[i]]
  <2>3. Filters(g, n, list, k)
    <3>0. n \in Nat /\ n # 0
      BY <1>1, <1>3
    <3> HIDE DEF last
    <3>1. g[n] = last /\ \A i \in 0 .. n : i # n => g[i] = f[i]
      BY <3>0
    <3>2. \A i \in 0 .. n - 1 : f[i] = IF i = 0 THEN <<>>
                          ELSE IF list[i] # k THEN Append(f[i - 1], list[i]) ELSE f[i - 1]
      BY <2>2, <3>0 DEF Filters
    <3>3. \A i \in 0 .. n : i # n => g[i] = IF i = 0 THEN <<>>
                          ELSE IF list[i] # k THEN Append(g[i - 1], list[i]) ELSE g[i - 1]
      <4> TAKE i \in 0 .. n
      <4> HAVE i # n
      <4>1. i \in 0 .. n - 1 /\ (i # 0 => i - 1 \in 0 .. n /\ i - 1 # n)
        BY <3>0
      <4> HIDE DEF g
      <4> QED
        BY <4>1, <3>1, <3>2
    <3>4. g[n] = IF list[n] # k THEN Append(g[n - 1], list[n]) ELSE g[n - 1]
      <4>1. n - 1 \in 0 .. n /\ n - 1 # n
        BY <3>0
      <4> HIDE DEF g
      <4> QED
        BY <4>1, <3>1 DEF last
    <3>5. g = [i \in 0 .. n |-> g[i]]
      OBVIOUS
    <3> HIDE DEF g
    <3>6. \A i \in 0 .. n : g[i] = IF i = 0 THEN <<>>
                          ELSE IF list[i] # k THEN Append(g[i - 1], list[i]) ELSE g[i - 1]
      BY <3>0, <3>3, <3>4
    <3> QED
      BY <3>5, <3>6 DEF Filters
  <2> QED
    BY Zenon, <1>1, <2>3
<1> QED
  BY Zenon, <1>2, <1>3

\* dropRetired is the loop's result.
LEMMA DropIs ==
    ASSUME NEW list, NEW k, Len(list) \in Nat
    PROVE  \E f : Filters(f, Len(list), list, k) /\ dropRetired(list, k) = f[Len(list)]
<1> DEFINE kept == CHOOSE f : Filters(f, Len(list), list, k)
<1>1. Filters(kept, Len(list), list, k)
  BY FilterExists
<1>2. dropRetired(list, k) = kept[Len(list)]
  BY DEF dropRetired, Filters
<1> QED
  BY <1>1, <1>2

\* What the first n entries of a list leave.
Left(got, n, list, k) ==
    /\ got \in Seq({list[j] : j \in 1 .. n} \ {k}) /\ Len(got) <= n
    /\ \A j \in 1 .. n : list[j] # k => \E h \in 1 .. Len(got) : got[h] = list[j]
    /\ (\E j \in 1 .. n : list[j] = k) \/ (Len(got) = n /\ \A j \in 1 .. n : got[j] = list[j])
    /\ (\E j \in 1 .. n : list[j] = k) => Len(got) < n

\* One more entry.
LEMMA LeftNext ==
    ASSUME NEW list, NEW k, NEW n \in Nat, n # 0, NEW got, Left(got, n - 1, list, k)
    PROVE  Left(IF list[n] # k THEN Append(got, list[n]) ELSE got, n, list, k)
<1> DEFINE Old == {list[j] : j \in 1 .. n - 1} \ {k}
           New == {list[j] : j \in 1 .. n} \ {k}
           Was == \E j \in 1 .. n - 1 : list[j] = k
<1>1. got \in Seq(Old) /\ Len(got) \in Nat /\ Len(got) <= n - 1
  BY DEF Left
<1>2. got \in Seq(New)
  BY <1>1
<1>3. \A j \in 1 .. n : j = n \/ j \in 1 .. n - 1
  OBVIOUS
<1>4. \A j \in 1 .. n - 1 : list[j] # k => \E h \in 1 .. Len(got) : got[h] = list[j]
  BY DEF Left
<1>5. Was \/ (Len(got) = n - 1 /\ \A j \in 1 .. n - 1 : got[j] = list[j])
  BY DEF Left
<1>6. Was => Len(got) < n - 1
  BY DEF Left
<1>7. CASE list[n] # k
  <2> DEFINE more == Append(got, list[n])
  <2>1. list[n] \in New
    BY <1>7
  <2>2. more \in Seq(New) /\ Len(more) = Len(got) + 1 /\ more[Len(got) + 1] = list[n]
    BY <1>2, <2>1
  <2>3. \A h \in 1 .. Len(got) : h \in 1 .. Len(more) /\ more[h] = got[h]
    BY <1>1, <1>2, <2>1
  <2>4. (\E j \in 1 .. n : list[j] = k) <=> Was
    BY <1>3, <1>7
  <2> HIDE DEF more
  <2>5. \A j \in 1 .. n : list[j] # k => \E h \in 1 .. Len(more) : more[h] = list[j]
    BY <1>1, <1>3, <1>4, <2>2, <2>3
  <2>6. Was \/ (Len(more) = n /\ \A j \in 1 .. n : more[j] = list[j])
    <3> SUFFICES ASSUME ~Was PROVE Len(more) = n /\ \A j \in 1 .. n : more[j] = list[j]
      BY Zenon
    <3>1. Len(got) = n - 1 /\ \A j \in 1 .. n - 1 : got[j] = list[j]
      BY Zenon, <1>5
    <3>2. Len(more) = n /\ more[n] = list[n]
      BY <1>1, <2>2, <3>1
    <3>3. \A j \in 1 .. n - 1 : more[j] = list[j]
      BY <2>3, <3>1
    <3> QED
      BY <1>1, <3>2, <3>3
  <2>7. Len(more) <= n /\ (Was => Len(more) < n)
    BY <1>1, <1>6, <2>2
  <2>8. Left(more, n, list, k)
    BY Zenon, <2>2, <2>4, <2>5, <2>6, <2>7 DEF Left
  <2> QED
    BY Zenon, <1>7, <2>8 DEF more
<1>8. CASE list[n] = k
  <2>1. \E j \in 1 .. n : list[j] = k
    BY <1>8
  <2>2. Len(got) < n /\ Len(got) <= n
    BY <1>1
  <2>3. \A j \in 1 .. n : list[j] # k => \E h \in 1 .. Len(got) : got[h] = list[j]
    BY <1>3, <1>4, <1>8
  <2> QED
    BY Zenon, <1>2, <1>8, <2>1, <2>2, <2>3 DEF Left
<1> QED
  BY Zenon, <1>7, <1>8

\* The whole list.
LEMMA LeftAll ==
    ASSUME NEW list, NEW k, NEW len \in Nat, NEW f, Filters(f, len, list, k)
    PROVE  Left(f[len], len, list, k)
<1> DEFINE T == {n \in 0 .. len : ~ Left(f[n], n, list, k)}
<1> SUFFICES ASSUME T # {} PROVE FALSE
  OBVIOUS
<1>1. T \subseteq Nat
  OBVIOUS
<1>2. PICK n \in T : \A m \in T : n <= m
  BY Zenon, <1>1, LeastNat
<1>3. CASE n = 0
  <2>1. f[0] = <<>>
    BY DEF Filters
  <2>2. Left(<<>>, 0, list, k)
    <3>1. \A j : j \notin 1 .. 0
      OBVIOUS
    <3>2. \A S : <<>> \in Seq(S)
      OBVIOUS
    <3>3. Len(<<>>) = 0 /\ 0 <= 0
      OBVIOUS
    <3> QED
      BY Zenon, <3>1, <3>2, <3>3 DEF Left
  <2> QED
    BY Zenon, <1>2, <1>3, <2>1, <2>2
<1>4. CASE n # 0
  <2>1. n \in Nat /\ n \in 0 .. len /\ n - 1 \in 0 .. len /\ n - 1 \notin T
    BY <1>2, <1>4
  <2>2. Left(f[n - 1], n - 1, list, k)
    BY <2>1
  <2>3. f[n] = IF list[n] # k THEN Append(f[n - 1], list[n]) ELSE f[n - 1]
    BY <1>4, <2>1 DEF Filters
  <2>4. Left(f[n], n, list, k)
    BY <1>4, <2>1, <2>2, <2>3, LeftNext
  <2> QED
    BY Zenon, <1>2, <2>4
<1> QED
  BY Zenon, <1>3, <1>4

\* A finite list of keys.
List(l) == l \in Seq(Range(l))
\* dropRetired takes every occurrence of a key out of a list, and nothing else.
LEMMA DropRetired ==
    ASSUME NEW list, NEW k, List(list)
    PROVE  LET rest == dropRetired(list, k) IN
           /\ List(rest) /\ Range(rest) = Range(list) \ {k} /\ Len(rest) <= Len(list)
           /\ IF k \in Range(list) THEN Len(rest) < Len(list) ELSE rest = list
<1> DEFINE rest == dropRetired(list, k)
           n == Len(list)
<1>1. n \in Nat /\ DOMAIN list = 1 .. n /\ list \in Seq(Range(list))
  BY DEF List
<1>2. Left(rest, n, list, k)
  BY <1>1, DropIs, LeftAll
<1> HIDE DEF rest
<1>3. Range(list) = {list[j] : j \in 1 .. n}
  BY Zenon, <1>1 DEF Range
<1>4. rest \in Seq(Range(list) \ {k}) /\ Len(rest) \in Nat /\ DOMAIN rest = 1 .. Len(rest)
  BY <1>2, <1>3 DEF Left
<1>5. Range(rest) = {rest[j] : j \in 1 .. Len(rest)}
  BY Zenon, <1>4 DEF Range
<1>6. Range(rest) \subseteq Range(list) \ {k}
  BY <1>4, <1>5
<1>7. Range(list) \ {k} \subseteq Range(rest)
  <2> SUFFICES ASSUME NEW j \in 1 .. n, list[j] # k PROVE list[j] \in Range(rest)
    BY <1>3
  <2> QED
    BY <1>2, <1>5 DEF Left
<1>8. List(rest)
  BY <1>4, <1>5 DEF List
<1>9. CASE k \in Range(list)
  <2>1. \E j \in 1 .. n : list[j] = k
    BY <1>3, <1>9
  <2>2. Len(rest) < n
    BY <1>2, <2>1 DEF Left
  <2> QED
    BY <1>1, <1>4, <1>6, <1>7, <1>8, <1>9, <2>2 DEF rest
<1>10. CASE k \notin Range(list)
  <2>1. ~ \E j \in 1 .. n : list[j] = k
    BY <1>3, <1>10
  <2>2. Len(rest) = n /\ \A j \in 1 .. n : rest[j] = list[j]
    BY <1>2, <2>1 DEF Left
  <2>3. rest = list
    BY <1>1, <1>4, <2>2
  <2> QED
    BY <1>1, <1>6, <1>7, <1>8, <1>10, <2>2, <2>3 DEF rest
<1> QED
  BY <1>9, <1>10

-----------------------------------------------------------------------------
(* The retired signing keys of the scanner: the pin file.                   *)

\* The pin file's record of signing keys.  The key in use is not among the retired ones, and
\* a file without one has none to retire; as long as no first contact overtook a pin, every
\* key pinned and not forgotten since is one of them.
KeysOfPin ==
    /\ pin.sign \notin Range(pin.retired) /\ (pin.sign = None => pin.retired = <<>>)
    /\ pin.readable => signers \subseteq ({pin.sign} \ {None}) \cup Range(pin.retired)
Filed ==
    /\ DOMAIN pin = {"readable", "posture", "sign", "retired"}
    /\ List(pin.retired) /\ Len(pin.retired) <= RetiredLimit
    /\ overtaken \/ KeysOfPin
\* A key that is about to be pinned is one.
Checking(d) ==
    /\ DOMAIN down[d] = {"pc", "key"}
    /\ down[d].pc \in {"unpinned", "verify"} => down[d].key # None
Offered == te # None => DOMAIN te = {"sign", "posture", "forget"} /\ te.sign # None
RetiredInv ==
    /\ Filed
    /\ DOMAIN down = Downloads /\ \A d \in Downloads : Checking(d)
    /\ Offered

LEMMA KInitRetired == KInit => RetiredInv
<1> SUFFICES ASSUME KInit PROVE RetiredInv
  OBVIOUS
<1>1. pin \in OldPins /\ te = None
  BY DEF KInit
<1>2. Filed
  <2>1. signers = IF pin.readable THEN ({pin.sign} \ {None}) \cup Range(pin.retired) ELSE {}
    BY DEF KInit
  <2> QED
    BY <1>1, <2>1, OldPinsAssumption DEF Filed, KeysOfPin, List
<1>3. DOMAIN down = Downloads /\ \A d \in Downloads : Checking(d)
  <2>1. down \in [Downloads -> {[pc |-> p, key |-> None] : p \in {"idle", "verified"}}]
    BY DEF KInit
  <2>2. ASSUME NEW d \in Downloads PROVE Checking(d)
    <3>1. PICK p \in {"idle", "verified"} : down[d] = [pc |-> p, key |-> None]
      BY <2>1
    <3> QED
      BY <3>1 DEF Checking
  <2> QED
    BY <2>1, <2>2
<1> QED
  BY <1>1, <1>2, <1>3 DEF RetiredInv, Offered

\* keepNewest keeps the list within the limit, and drops at most its first key when it is
\* one too long.
LEMMA KeepNewest ==
    ASSUME NEW list, List(list)
    PROVE  LET kept == keepNewest(list) IN
           /\ List(kept) /\ Len(kept) <= RetiredLimit /\ Range(kept) \subseteq Range(list)
           /\ Len(list) <= RetiredLimit => kept = list
           /\ Len(list) = RetiredLimit + 1 => Range(list) \ {list[1]} \subseteq Range(kept)
<1> DEFINE n == Len(list)
           kept == keepNewest(list)
<1>1. n \in Nat /\ DOMAIN list = 1 .. n /\ list \in Seq(Range(list))
  BY DEF List
<1>2. RetiredLimit \in Nat /\ RetiredLimit # 0
  BY RetiredAssumption
<1>3. CASE n <= RetiredLimit
  <2>1. kept = list
    BY <1>1, <1>2, <1>3 DEF keepNewest
  <2> QED
    BY <1>1, <1>2, <1>3, <2>1
<1>4. CASE n > RetiredLimit
  <2> DEFINE first == n - RetiredLimit + 1
  <2>1. kept = SubSeq(list, first, n)
    BY <1>1, <1>2, <1>4 DEF keepNewest
  <2>2. first \in 1 .. n /\ n - first + 1 = RetiredLimit
    BY <1>1, <1>2, <1>4
  <2>3. /\ kept \in Seq(Range(list)) /\ Len(kept) = RetiredLimit
        /\ \A i \in 1 .. RetiredLimit : kept[i] = list[first + i - 1]
    <3> HIDE DEF first
    <3>1. first \in 1 .. n + 1 /\ n \in first - 1 .. n /\ n \in 0 .. n
      BY <1>1, <1>2, <2>2
    <3>2. SubSeq(list, first, n) \in Seq(Range(list)) /\ Len(SubSeq(list, first, n)) = RetiredLimit
      BY <1>1, <1>2, <2>2, <3>1
    <3>3. \A i \in 1 .. RetiredLimit : SubSeq(list, first, n)[i] = list[first + i - 1]
      BY <1>1, <1>2, <2>2, <3>1
    <3> QED
      BY Zenon, <2>1, <3>2, <3>3
  <2> HIDE DEF kept
  <2>4. DOMAIN kept = 1 .. RetiredLimit
    BY <2>3
  <2>5. Range(kept) = {kept[i] : i \in 1 .. RetiredLimit}
    BY <2>4 DEF Range
  <2>6. List(kept) /\ Range(kept) \subseteq Range(list)
    BY <2>3, <2>4, <2>5 DEF List
  <2>7. ASSUME n = RetiredLimit + 1 PROVE Range(list) \ {list[1]} \subseteq Range(kept)
    <3> SUFFICES ASSUME NEW j \in 1 .. n, list[j] # list[1] PROVE list[j] \in Range(kept)
      BY <1>1 DEF Range
    <3>1. j # 1 /\ first = 2
      BY <1>2, <2>7
    <3>2. j - 1 \in 1 .. RetiredLimit /\ first + (j - 1) - 1 = j
      BY <1>2, <2>7, <3>1
    <3> HIDE DEF first
    <3> QED
      BY <2>3, <2>5, <3>2
  <2>8. ~(n <= RetiredLimit) /\ Len(kept) <= RetiredLimit
    BY <1>1, <1>2, <1>4, <2>3
  <2> QED
    BY <2>6, <2>7, <2>8 DEF kept
<1>5. n <= RetiredLimit \/ n > RetiredLimit
  BY <1>1, <1>2
<1> QED
  BY Zenon, <1>3, <1>4, <1>5

LEMMA ListAppend ==
    ASSUME NEW list, NEW k, List(list)
    PROVE  LET more == Append(list, k) IN
           /\ List(more) /\ Range(more) = Range(list) \cup {k} /\ Len(more) = Len(list) + 1
           /\ Len(list) > 0 => more[1] = Head(list)
<1> DEFINE n == Len(list)
           more == Append(list, k)
           S == Range(list) \cup {k}
<1>1. n \in Nat /\ DOMAIN list = 1 .. n /\ list \in Seq(S)
  BY DEF List
<1>2. /\ more \in Seq(S) /\ Len(more) = n + 1 /\ DOMAIN more = 1 .. n + 1
      /\ more[n + 1] = k /\ \A i \in 1 .. n : more[i] = list[i]
  BY <1>1
<1> HIDE DEF more
<1>3. \A i \in 1 .. n + 1 : i = n + 1 \/ i \in 1 .. n
  BY <1>1
<1>4. \A i \in 1 .. n : i \in 1 .. n + 1
  BY <1>1
<1>5. n + 1 \in 1 .. n + 1
  BY <1>1
<1>6. Range(more) = S
  BY <1>1, <1>2, <1>3, <1>4, <1>5 DEF Range
<1>7. List(more)
  BY <1>2, <1>6 DEF List
<1>8. n > 0 => more[1] = Head(list)
  BY <1>1, <1>2
<1> QED
  BY <1>2, <1>6, <1>7, <1>8 DEF more

\* Retire keeps the key in use until now and every retired one, except for the key that comes
\* into use again and, when the list was full of others, the oldest.
LEMMA Retires ==
    ASSUME NEW rec, NEW new, List(rec.retired), Len(rec.retired) <= RetiredLimit,
           rec.sign # new
    PROVE  LET kept == Retire(rec, new)
               evicted == IF Len(rec.retired) = RetiredLimit
                             /\ new \notin Range(rec.retired) \cup {rec.sign} /\ rec.sign # None
                          THEN {Head(rec.retired)} ELSE {}
           IN  /\ List(kept) /\ Len(kept) <= RetiredLimit /\ new \notin Range(kept)
               /\ rec.sign \notin Range(rec.retired) /\ (rec.sign = None => rec.retired = <<>>)
                    => (({rec.sign} \ {None}) \cup Range(rec.retired)) \ evicted
                         \subseteq Range(kept) \cup {new}
<1> DEFINE old == rec.retired
           n == Len(old)
           all == IF rec.sign = None THEN old ELSE Append(dropRetired(old, rec.sign), rec.sign)
           rest == dropRetired(all, new)
           kept == Retire(rec, new)
           evicted == IF n = RetiredLimit /\ new \notin Range(old) \cup {rec.sign} /\ rec.sign # None
                      THEN {Head(old)} ELSE {}
<1>1. n \in Nat /\ DOMAIN old = 1 .. n /\ old \in Seq(Range(old)) /\ RetiredLimit \in Nat \ {0}
  BY RetiredAssumption DEF List
<1>2. List(all)
  <2>1. CASE rec.sign = None
    BY <2>1
  <2>2. CASE rec.sign # None
    <3>1. List(dropRetired(old, rec.sign))
      BY DropRetired
    <3> QED
      BY <2>2, <3>1, ListAppend
  <2> QED
    BY <2>1, <2>2
<1>3. kept = keepNewest(rest)
  BY DEF Retire
<1> HIDE DEF all, rest, kept
<1>4. /\ List(rest) /\ Range(rest) = Range(all) \ {new} /\ Len(rest) <= Len(all)
      /\ IF new \in Range(all) THEN Len(rest) < Len(all) ELSE rest = all
  BY <1>2, DropRetired DEF rest
<1>5. List(kept) /\ Len(kept) <= RetiredLimit /\ Range(kept) \subseteq Range(rest)
  BY <1>3, <1>4, KeepNewest
<1>6. new \notin Range(kept)
  BY <1>4, <1>5
<1>7. ASSUME rec.sign \notin Range(old), rec.sign = None => old = <<>>
      PROVE  (({rec.sign} \ {None}) \cup Range(old)) \ evicted \subseteq Range(kept) \cup {new}
  <2>1. CASE rec.sign = None
    <3>1. Range(old) = {}
      BY <1>7, <2>1 DEF Range
    <3> QED
      BY <2>1, <3>1
  <2>2. CASE rec.sign # None
    <3>1. all = Append(old, rec.sign)
      BY <1>7, <2>2, DropRetired DEF all
    <3>2. Range(all) = Range(old) \cup {rec.sign} /\ Len(all) = n + 1 /\ (n > 0 => all[1] = Head(old))
      BY <3>1, ListAppend
    <3>3. CASE Len(rest) <= RetiredLimit
      <4>1. kept = rest
        BY <1>3, <1>4, <3>3, KeepNewest
      <4> QED
        BY <1>4, <3>2, <4>1
    <3>4. CASE Len(rest) > RetiredLimit
      <4>1. Len(rest) \in Nat
        BY <1>4 DEF List
      <4>2. Len(rest) = RetiredLimit + 1 /\ n = RetiredLimit /\ Len(rest) = Len(all)
        BY <1>1, <1>4, <3>2, <3>4, <4>1
      <4>3. new \notin Range(all) /\ rest = all
        <5>1. ~(Len(rest) < Len(all))
          BY <4>1, <4>2
        <5> QED
          BY Zenon, <1>4, <5>1
      <4>4. evicted = {all[1]}
        BY <1>1, <2>2, <3>2, <4>2, <4>3
      <4>5. Range(all) \ {all[1]} \subseteq Range(kept)
        BY <1>2, <1>3, <4>2, <4>3, KeepNewest
      <4> HIDE DEF evicted
      <4> QED
        BY <3>2, <4>4, <4>5
    <3>5. Len(rest) <= RetiredLimit \/ Len(rest) > RetiredLimit
      BY <1>1, <1>4 DEF List
    <3> QED
      BY Zenon, <3>3, <3>4, <3>5
  <2> QED
    BY <2>1, <2>2
<1> QED
  BY Zenon, <1>5, <1>6, <1>7 DEF kept

\* Steps that leave the pin file's signing keys alone.
LEMMA PinnedAsBefore ==
    ASSUME RetiredInv, signers' = signers, overtaken => overtaken',
           \/ UNCHANGED pin
           \/ \E p : pin' = [pin EXCEPT !.posture = p]
    PROVE  Filed'
  BY DEF RetiredInv, Filed, KeysOfPin, List

\* The uploads: only the posture of the pin is theirs.
LEMMA UploadRetired ==
    ASSUME RetiredInv, NEW t \in Uploads, UploadStep(t) \/ wait(t)
    PROVE  RetiredInv'
<1>1. UNCHANGED <<down, te>>
  BY DEF UploadStep, FetchTeeEnclaveKeySet, wait, FetchTeeAttestation, probeTeeEnclaveKeySet,
         recordTeeAttestationPosture, settleFetch, EncryptForUpload, Answered, TeeSealWentStale,
         staleSealVerdict
<1>2. Filed'
  <2>1. CASE recordTeeAttestationPosture(t)
    <3>1. CASE owner /\ pin.readable
      <4>1. /\ pin' = [pin EXCEPT !.posture = postureFor(up[t].seen)] /\ signers' = signers
            /\ overtaken' = (overtaken \/ pin.posture \notin {up[t].saw, postureFor(up[t].seen)})
        BY <2>1, <3>1 DEF recordTeeAttestationPosture
      <4>2. \E p : pin' = [pin EXCEPT !.posture = p]
        BY Zenon, <4>1
      <4> QED
        BY Zenon, <4>1, <4>2, PinnedAsBefore
    <3>2. CASE ~(owner /\ pin.readable)
      <4>1. UNCHANGED <<pin, signers, overtaken>>
        BY <2>1, <3>2 DEF recordTeeAttestationPosture
      <4> QED
        BY <4>1, PinnedAsBefore
    <3> QED
      BY Zenon, <3>1, <3>2
  <2>2. CASE ~recordTeeAttestationPosture(t)
    <3>1. UNCHANGED <<pin, signers, overtaken>>
      BY <2>2 DEF UploadStep, FetchTeeEnclaveKeySet, wait, FetchTeeAttestation,
         probeTeeEnclaveKeySet, settleFetch, EncryptForUpload, Answered, TeeSealWentStale,
         staleSealVerdict, history
    <3> QED
      BY <3>1, PinnedAsBefore
  <2> QED
    BY <2>1, <2>2
<1> QED
  BY <1>1, <1>2 DEF RetiredInv, Checking, Offered

\* The downloads: a first contact gives the file its signing key.
LEMMA DownloadRetired ==
    ASSUME RetiredInv, NEW d \in Downloads, DownloadStep(d)
    PROVE  RetiredInv'
<1>1. te' = te
  BY DEF DownloadStep, checkTeeSigningPks, attestedTeeSigningPk, recordTeeSigningPk, badSignature
<1>2. DOMAIN down = Downloads /\ DOMAIN down[d] = {"pc", "key"}
  BY DEF RetiredInv, Checking
<1>3. /\ DOMAIN down' = Downloads /\ \A e \in Downloads \ {d} : down'[e] = down[e]
      /\ DOMAIN down'[d] = {"pc", "key"}
  BY <1>2 DEF DownloadStep, checkTeeSigningPks, attestedTeeSigningPk, recordTeeSigningPk,
              badSignature
<1>4. Checking(d)'
  <2>1. CASE checkTeeSigningPks(d)
    <3>1. PICK k \in {a.sign : a \in Offers} \ {None} : down'[d].key = k
      BY <1>2, <2>1 DEF checkTeeSigningPks
    <3> QED
      BY <1>3, <3>1 DEF Checking
  <2>2. CASE attestedTeeSigningPk(d)
    <3>1. down[d].pc = "unpinned" /\ down'[d].key = down[d].key
      BY <1>2, <2>2 DEF attestedTeeSigningPk
    <3> QED
      BY <1>3, <3>1 DEF RetiredInv, Checking
  <2>3. CASE recordTeeSigningPk(d) \/ badSignature(d)
    <3>1. down'[d].pc \in {"verified", "refused"}
      BY <1>2, <2>3 DEF recordTeeSigningPk, badSignature
    <3> QED
      BY <1>3, <3>1 DEF Checking
  <2> QED
    BY <2>1, <2>2, <2>3 DEF DownloadStep
<1>5. Filed'
  <2>1. CASE recordTeeSigningPk(d) /\ owner /\ pin.readable
    <3> DEFINE k == down[d].key
    <3>1. /\ pin' = [pin EXCEPT !.sign = k] /\ signers' = signers \cup {k}
          /\ overtaken' = (overtaken \/ pin.sign \notin {None, k}) /\ down[d].pc = "verify"
      BY <2>1 DEF recordTeeSigningPk
    <3>2. k # None
      BY <3>1 DEF RetiredInv, Checking
    <3>3. DOMAIN pin = {"readable", "posture", "sign", "retired"}
      BY DEF RetiredInv, Filed
    <3>4. /\ DOMAIN pin' = {"readable", "posture", "sign", "retired"}
          /\ pin'.sign = k /\ pin'.retired = pin.retired /\ pin'.readable = pin.readable
      BY <3>1, <3>3
    <3> HIDE DEF k
    <3>5. List(pin.retired)' /\ Len(pin.retired)' <= RetiredLimit
      BY <3>4 DEF RetiredInv, Filed, List
    <3>6. ASSUME ~overtaken' PROVE KeysOfPin'
      <4>1. KeysOfPin /\ pin.sign \in {None, k}
        BY <3>1, <3>6 DEF RetiredInv, Filed
      <4>2. CASE pin.sign = None
        <5>1. pin.retired = <<>> /\ Range(pin.retired) = {}
          BY <4>1, <4>2 DEF KeysOfPin, Range
        <5> QED
          BY <2>1, <3>1, <3>2, <3>4, <4>1, <4>2, <5>1 DEF KeysOfPin, Range
      <4>3. CASE pin.sign = k
        BY <2>1, <3>1, <3>2, <3>4, <4>1, <4>3 DEF KeysOfPin, Range
      <4> QED
        BY <4>1, <4>2, <4>3
    <3> QED
      BY <3>4, <3>5, <3>6 DEF Filed
  <2>2. CASE ~(recordTeeSigningPk(d) /\ owner /\ pin.readable)
    <3>1. UNCHANGED <<pin, signers, overtaken>>
      BY <2>2 DEF DownloadStep, checkTeeSigningPks, attestedTeeSigningPk, recordTeeSigningPk,
                  badSignature, history
    <3> QED
      BY <3>1, PinnedAsBefore
  <2> QED
    BY <2>1, <2>2
<1>6. Offered'
  BY <1>1 DEF RetiredInv, Offered
<1>7. \A e \in Downloads \ {d} : Checking(e)'
  BY <1>3 DEF RetiredInv, Checking
<1> QED
  BY <1>3, <1>4, <1>5, <1>6, <1>7 DEF RetiredInv

\* A repin retires the key in use.
LEMMA RepinRetired ==
    ASSUME RetiredInv, RepinTeeSigningPk
    PROVE  RetiredInv'
<1> DEFINE rec == IF pin.readable THEN pin ELSE Empty
           new == te.sign
           kept == Retire(rec, new)
           evicted == IF Len(rec.retired) = RetiredLimit /\ new \notin Range(rec.retired) \cup {rec.sign}
                         /\ rec.sign # None
                      THEN {Head(rec.retired)} ELSE {}
<1>1. /\ te # None /\ overtaken' = overtaken /\ down' = down
      /\ pin' = [rec EXCEPT !.retired = kept, !.sign = new, !.posture = te.posture]
      /\ signers' = (IF pin.readable THEN signers \ evicted ELSE {}) \cup {new}
      /\ te' \in {None, [te EXCEPT !.forget = TRUE]}
  BY DEF RepinTeeSigningPk
<1>2. DOMAIN te = {"sign", "posture", "forget"} /\ new # None
  BY <1>1 DEF RetiredInv, Offered
<1>3. Offered'
  BY <1>1, <1>2 DEF Offered
<1>4. /\ DOMAIN rec = {"readable", "posture", "sign", "retired"}
      /\ List(rec.retired) /\ Len(rec.retired) <= RetiredLimit
  <2>1. CASE pin.readable
    BY <2>1 DEF RetiredInv, Filed
  <2>2. CASE ~pin.readable
    <3>1. rec = Empty /\ Empty.retired = <<>>
      BY <2>2 DEF Empty
    <3>2. DOMAIN Empty = {"readable", "posture", "sign", "retired"}
      BY DEF Empty
    <3>3. List(<<>>) /\ Len(<<>>) <= RetiredLimit
      BY RetiredAssumption DEF List
    <3> QED
      BY <3>1, <3>2, <3>3
  <2> QED
    BY <2>1, <2>2
<1>5. overtaken \/ (/\ rec.sign \notin Range(rec.retired) /\ (rec.sign = None => rec.retired = <<>>)
                    /\ pin.readable => signers \subseteq ({rec.sign} \ {None}) \cup Range(rec.retired))
  <2>1. CASE pin.readable
    BY <2>1 DEF RetiredInv, Filed, KeysOfPin
  <2>2. CASE ~pin.readable
    <3>1. rec = Empty /\ Empty.retired = <<>>
      BY <2>2 DEF Empty
    <3>2. Range(<<>>) = {}
      BY DEF Range
    <3> QED
      BY Zenon, <2>2, <3>1, <3>2
  <2> QED
    BY Zenon, <2>1, <2>2
<1> HIDE DEF rec, kept
<1>6. /\ DOMAIN pin' = {"readable", "posture", "sign", "retired"}
      /\ pin'.sign = new /\ pin'.retired = kept
  BY <1>1, <1>4
<1>7. /\ List(kept) /\ Len(kept) <= RetiredLimit
      /\ overtaken \/ (/\ new \notin Range(kept)
                       /\ pin.readable => signers \ evicted \subseteq Range(kept) \cup {new})
  <2>1. CASE rec.sign = new
    <3>1. kept = rec.retired
      BY <2>1 DEF kept, Retire
    <3> QED
      BY <1>4, <1>5, <2>1, <3>1
  <2>2. CASE rec.sign # new
    <3>1. /\ List(kept) /\ Len(kept) <= RetiredLimit /\ new \notin Range(kept)
          /\ rec.sign \notin Range(rec.retired) /\ (rec.sign = None => rec.retired = <<>>)
                    => (({rec.sign} \ {None}) \cup Range(rec.retired)) \ evicted
                         \subseteq Range(kept) \cup {new}
      BY Zenon, <1>4, <2>2, Retires DEF kept
    <3> HIDE DEF evicted
    <3> QED
      BY <1>5, <3>1
  <2> QED
    BY <2>1, <2>2
<1> HIDE DEF evicted
<1>8. Filed'
  <2>1. List(pin.retired)' /\ Len(pin.retired)' <= RetiredLimit
    BY <1>6, <1>7 DEF List
  <2>2. ASSUME ~overtaken PROVE KeysOfPin'
    <3>1. pin'.sign # None /\ new \notin Range(pin'.retired)
      BY <1>2, <1>6, <1>7, <2>2
    <3>2. signers' \subseteq {new} \cup Range(kept)
      BY <1>1, <1>7, <2>2
    <3> QED
      BY <1>2, <1>6, <3>1, <3>2 DEF KeysOfPin, Range
  <2> QED
    BY <1>1, <1>6, <2>1, <2>2 DEF Filed
<1>9. DOMAIN down' = Downloads /\ \A d \in Downloads : Checking(d)'
  BY <1>1 DEF RetiredInv, Checking
<1> QED
  BY <1>3, <1>8, <1>9 DEF RetiredInv

\* A retired key is forgotten by command, and the rest.
LEMMA ForgetRetired ==
    ASSUME RetiredInv, ForgetRetiredTeeSigningPk
    PROVE  RetiredInv'
<1>1. PICK k \in Range(pin.retired) :
        /\ pin' = [pin EXCEPT !.retired = dropRetired(pin.retired, k)]
        /\ signers' = signers \ {k} /\ pin.readable
        /\ UNCHANGED <<down, te, overtaken>>
  BY DEF ForgetRetiredTeeSigningPk
<1> DEFINE rest == dropRetired(pin.retired, k)
<1>2. List(pin.retired) /\ Len(pin.retired) <= RetiredLimit
  BY DEF RetiredInv, Filed
<1>3. List(rest) /\ Range(rest) = Range(pin.retired) \ {k} /\ Len(rest) <= Len(pin.retired)
  BY <1>2, DropRetired
<1> HIDE DEF rest
<1>4. /\ DOMAIN pin' = {"readable", "posture", "sign", "retired"}
      /\ pin'.sign = pin.sign /\ pin'.readable = pin.readable /\ pin'.retired = rest
  BY <1>1 DEF RetiredInv, Filed, rest
<1>5. Len(rest) <= RetiredLimit
  BY <1>2, <1>3, RetiredAssumption DEF List
<1>6. ASSUME ~overtaken PROVE KeysOfPin'
  <2>1. KeysOfPin /\ pin.retired # <<>>
    BY <1>1, <1>6 DEF RetiredInv, Filed, Range
  <2>2. pin'.sign \notin Range(pin'.retired) /\ pin'.sign # None
    BY <1>3, <1>4, <2>1 DEF KeysOfPin
  <2>3. signers' \subseteq ({pin'.sign} \ {None}) \cup Range(pin'.retired)
    BY <1>1, <1>3, <1>4, <2>1 DEF KeysOfPin
  <2> QED
    BY <2>2, <2>3 DEF KeysOfPin, Range
<1>7. Filed'
  BY <1>1, <1>3, <1>4, <1>5, <1>6 DEF Filed, List, Range
<1> QED
  BY <1>1, <1>7 DEF RetiredInv, Checking, Offered

LEMMA OtherRetired ==
    ASSUME RetiredInv,
           \/ OfferedTeeSigningPk \/ declined \/ forgetTeeAttestationMemos
           \/ Rotate \/ Elapse \/ Logout \/ UNCHANGED kvars
    PROVE  RetiredInv'
<1>1. UNCHANGED <<pin, down, signers, overtaken>>
  BY DEF OfferedTeeSigningPk, declined, forgetTeeAttestationMemos, Rotate, Elapse, Logout, kvars,
         history
<1>2. Offered'
  BY DEF RetiredInv, Offered, OfferedTeeSigningPk, declined, forgetTeeAttestationMemos, Rotate,
         Elapse, Logout, kvars, teeAttestationAnswerable
<1>3. Filed'
  BY <1>1, PinnedAsBefore
<1> QED
  BY <1>1, <1>2, <1>3 DEF RetiredInv, Checking

\* The pin file keeps every signing key that was pinned, in use or retired (RetiredInv).
THEOREM RetiredInvariant == KSpec => []RetiredInv
<1>1. RetiredInv /\ [KNext]_kvars => RetiredInv'
  BY Zenon, UploadRetired, DownloadRetired, RepinRetired, ForgetRetired, OtherRetired DEF KNext
<1> QED
  BY <1>1, KInitRetired, PTL DEF KSpec

\* For any number of threads, any attestations, old pin files and limit, a file that a pinned
\* key signed stays readable over every repin, until the key is forgotten by command or is
\* the oldest beyond the limit; unless a first contact was recorded over a newer pin
\* (RepinTeeSigningPk, dropRetired, recordTeeSigningPk).
THEOREM SignedStaysReadable == KSpec => []SignersKept
<1>1. RetiredInv => SignersKept
  BY DEF RetiredInv, Filed, KeysOfPin, SignersKept, accepts
<1> QED
  BY <1>1, RetiredInvariant, PTL

\* What the proof of the types needs beside it: every forgetting of the memos has a command
\* of its own, which counts as an event.
Counted ==
    /\ epoch \in Nat /\ events \in 0 .. MaxEvents
    /\ epoch + (IF te = None THEN 0 ELSE 1) <= events
Threads ==
    /\ DOMAIN up = Uploads /\ call \in Uploads \cup {None}
    /\ \A t \in Uploads : DOMAIN up[t] = DOMAIN Idle /\ up[t].on \in Uploads \cup {None}

LEMMA CountedNext ==
    ASSUME Counted, [KNext]_kvars
    PROVE  Counted'
<1> USE EventsAssumption DEF Counted
<1>1. CASE \E t \in Uploads : UploadStep(t) \/ wait(t)
  <2>0. PICK t \in Uploads : UploadStep(t) \/ wait(t)
    BY Zenon, <1>1
  <2>1. CASE \/ FetchTeeEnclaveKeySet(t) \/ wait(t) \/ FetchTeeAttestation(t)
             \/ probeTeeEnclaveKeySet(t) \/ recordTeeAttestationPosture(t) \/ settleFetch(t)
    <3>1. UNCHANGED <<epoch, events, te>>
      BY Zenon, <2>1 DEF FetchTeeEnclaveKeySet, wait, FetchTeeAttestation,
         probeTeeEnclaveKeySet, recordTeeAttestationPosture, settleFetch, keyState
    <3> QED
      BY Zenon, <3>1
  <2>2. CASE EncryptForUpload(t) \/ Answered(t) \/ TeeSealWentStale(t) \/ staleSealVerdict(t)
    <3>1. UNCHANGED <<epoch, events, te>>
      BY Zenon, <2>2 DEF EncryptForUpload, Answered, TeeSealWentStale, staleSealVerdict, keyState
    <3> QED
      BY Zenon, <3>1
  <2> QED
    BY Zenon, <2>0, <2>1, <2>2 DEF UploadStep
<1>2. CASE \E d \in Downloads : DownloadStep(d)
  <2>1. UNCHANGED <<epoch, events, te>>
    BY Zenon, <1>2 DEF DownloadStep, checkTeeSigningPks, attestedTeeSigningPk,
       recordTeeSigningPk, badSignature, keyState
  <2> QED
    BY Zenon, <2>1
<1>3. CASE OfferedTeeSigningPk
  <2>1. te = None /\ events < MaxEvents /\ events' = events + 1 /\ epoch' = epoch
    BY <1>3 DEF OfferedTeeSigningPk, keyState
  <2> QED
    BY <2>1
<1>4. CASE declined \/ RepinTeeSigningPk
  <2>1. te # None /\ events' = events /\ epoch' = epoch
    BY Zenon, <1>4 DEF declined, RepinTeeSigningPk, keyState
  <2> QED
    BY <2>1
<1>5. CASE forgetTeeAttestationMemos
  <2>1. te # None /\ te' = None /\ events' = events /\ epoch' = epoch + 1
    BY Zenon, <1>5 DEF forgetTeeAttestationMemos
  <2> QED
    BY <2>1
<1>6. CASE ForgetRetiredTeeSigningPk \/ Rotate \/ Elapse \/ Logout
  <2>1. te' = te /\ events < MaxEvents /\ events' = events + 1 /\ epoch' = epoch
    BY Zenon, <1>6 DEF ForgetRetiredTeeSigningPk, Rotate, Elapse, Logout, keyState
  <2> QED
    BY <2>1
<1>7. CASE UNCHANGED kvars
  BY <1>7 DEF kvars
<1> QED
  BY Zenon, <1>1, <1>2, <1>3, <1>4, <1>5, <1>6, <1>7 DEF KNext

LEMMA ThreadsNext ==
    ASSUME Threads, [KNext]_kvars
    PROVE  Threads'
<1>1. CASE \E t \in Uploads : UploadStep(t) \/ wait(t)
  <2>0. PICK t \in Uploads : UploadStep(t) \/ wait(t)
    BY <1>1
  <2>1. call' \in Uploads \cup {None}
    BY Zenon, <2>0 DEF Threads, UploadStep, FetchTeeEnclaveKeySet, wait, FetchTeeAttestation,
       probeTeeEnclaveKeySet, recordTeeAttestationPosture, settleFetch, EncryptForUpload,
       Answered, TeeSealWentStale, staleSealVerdict, keyState
  <2>2. CASE settleFetch(t)
    <3>1. DOMAIN up' = Uploads
      BY <2>2 DEF settleFetch
    <3>2. ASSUME NEW u \in Uploads
          PROVE  DOMAIN up'[u] = DOMAIN up[u] /\ up'[u].on \in {up[u].on, None}
      BY <2>2 DEF settleFetch, Threads, Idle
    <3> QED
      BY <2>1, <3>1, <3>2 DEF Threads
  <2>3. CASE ~settleFetch(t)
    <3>1. DOMAIN up' = Uploads /\ \A u \in Uploads \ {t} : up'[u] = up[u]
      BY <2>0, <2>3 DEF Threads, UploadStep, FetchTeeEnclaveKeySet, wait, FetchTeeAttestation,
         probeTeeEnclaveKeySet, recordTeeAttestationPosture, EncryptForUpload,
         Answered, TeeSealWentStale, staleSealVerdict, To, Over
    <3>2. DOMAIN up'[t] = DOMAIN Idle /\ up'[t].on \in {up[t].on, call, None}
      <4> USE DEF Threads, Idle
      <4>0. CASE FetchTeeEnclaveKeySet(t)
        BY <4>0 DEF FetchTeeEnclaveKeySet
      <4>1. CASE wait(t) \/ FetchTeeAttestation(t)
        BY <4>1 DEF wait, FetchTeeAttestation
      <4>2. CASE probeTeeEnclaveKeySet(t)
        BY <4>2 DEF probeTeeEnclaveKeySet, To
      <4>8. CASE recordTeeAttestationPosture(t)
        BY <4>8 DEF recordTeeAttestationPosture, To
      <4>3. CASE \E pc : Over(t, pc)
        BY <4>3 DEF Over
      <4>4. CASE EncryptForUpload(t)
        <5>1. CASE up[t].got = None /\ ~verdict.disabled
          BY Zenon, <4>3, <4>4, <5>1 DEF EncryptForUpload
        <5>2. CASE ~(up[t].got = None /\ ~verdict.disabled)
          BY <4>4, <5>2 DEF EncryptForUpload
        <5> QED
          BY Zenon, <5>1, <5>2
      <4>5. CASE Answered(t)
        <5>1. CASE \E pc : To(t, pc)
          BY <5>1 DEF To
        <5> QED
          BY Zenon, <4>3, <4>5, <5>1 DEF Answered
      <4>6. CASE TeeSealWentStale(t)
        BY <4>6 DEF TeeSealWentStale
      <4>7. CASE staleSealVerdict(t)
        <5>1. CASE Fresh(t)
          BY <4>7, <5>1 DEF staleSealVerdict
        <5> QED
          BY Zenon, <4>3, <4>7, <5>1 DEF staleSealVerdict
      <4> QED
        BY Zenon, <2>0, <2>3, <4>0, <4>1, <4>2, <4>4, <4>5, <4>6, <4>7, <4>8
           DEF UploadStep
    <3> QED
      BY <2>1, <3>1, <3>2 DEF Threads
  <2> QED
    BY <2>2, <2>3
<1>2. CASE ~ \E t \in Uploads : UploadStep(t) \/ wait(t)
  <2>1. up' = up /\ call' \in {call, None}
    BY Zenon, <1>2 DEF KNext, DownloadStep, checkTeeSigningPks, attestedTeeSigningPk,
       recordTeeSigningPk, badSignature, OfferedTeeSigningPk, declined, RepinTeeSigningPk,
       forgetTeeAttestationMemos, ForgetRetiredTeeSigningPk, Rotate, Elapse, Logout, keyState, kvars
  <2> QED
    BY <2>1 DEF Threads
<1> QED
  BY <1>1, <1>2

\* The scanner's keys have the values the code gives them: the retired keys stay within
\* teeRetiredPkLimit, and the key in use is not among them (keepNewest in RepinTeeSigningPk).
THEOREM ScannerTypes == KSpec => []KTypeOK
<1>1. KInit => Counted /\ Threads
  <2> SUFFICES ASSUME KInit PROVE Counted /\ Threads
    OBVIOUS
  <2>1. \A t \in Uploads : up[t] \in {Idle, [Idle EXCEPT !.pc = "done"]}
    BY DEF KInit
  <2>2. \A t \in Uploads : DOMAIN up[t] = DOMAIN Idle /\ up[t].on = None
    BY <2>1 DEF Idle
  <2>3. Counted
    BY EventsAssumption DEF KInit, Counted
  <2>4. DOMAIN up = Uploads /\ call = None
    BY DEF KInit
  <2> QED
    BY <2>2, <2>3, <2>4 DEF Threads
<1>2. RetiredInv /\ Counted /\ Threads => KTypeOK
  <2> SUFFICES ASSUME RetiredInv, Counted, Threads PROVE KTypeOK
    OBVIOUS
  <2>1. epoch \in 0 .. MaxEvents
    BY EventsAssumption DEF Counted
  <2> QED
    BY <2>1 DEF RetiredInv, Filed, KeysOfPin, Threads, KTypeOK
<1> QED
  BY <1>1, <1>2, CountedNext, ThreadsNext, RetiredInvariant, PTL DEF KSpec
-----------------------------------------------------------------------------
(* The account's keys: the inductive invariant.                             *)

Stages == {"none", "spawned", "serving", "told", "closed", "removed", "wiped"}
AgentType == [at : Stages, acct : Maybe, sign : Maybe, due : BOOLEAN]

\* The types of the stores, the agents and the command.
RTypes ==
    /\ disk \in Configs /\ disk.api = None
    /\ chain \in [Hosts -> [api : Maybe, dev : Nat]]
    /\ agentFile \in Agents \cup {None}
    /\ agents \in [Agents -> AgentType]
    /\ cmd \in Sessions \cup {None}
    /\ wraps \in Nat /\ locked \in BOOLEAN /\ torn \in BOOLEAN

\* The command's copy of the configuration is the configuration, but for the endpoint it is
\* changing.
CopyHolds ==
    cmd # None =>
      /\ cmd.cfg.keys = disk.keys /\ cmd.cfg.wrap = disk.wrap
      /\ cmd.pc # "carry" => cmd.cfg.host = disk.host

\* Where the device key is that unwraps the keys of the configuration.
DeviceKeyKept ==
    /\ (cmd # None /\ cmd.pc = "wrapped") => chain[disk.host].dev = wraps
    /\ (cmd # None /\ cmd.pc = "carry" /\ ~torn /\ disk.wrap # 0) => cmd.dev = disk.wrap
    /\ (~torn /\ disk.wrap # 0 /\ (cmd # None => cmd.pc \notin {"wrapped", "unlink", "carry"}))
         => chain[disk.host].dev = disk.wrap

\* An agent that has not started yet is the one its command waits for.
Spawning ==
    /\ \A a \in Agents : agents[a].at = "spawned" =>
         /\ cmd # None /\ cmd.pc = "await" /\ agentFile = None /\ ~locked
         /\ \A b \in Agents : agents[b].at = "spawned" => b = a
    /\ locked => agentFile = None
    /\ (cmd # None /\ cmd.pc \in {"spawn", "clear", "unlink"}) => agentFile = None

\* Without an API key there is no agent to ask, and a login has none until it starts one.
LoggedOut ==
    /\ chain[disk.host].api = None =>
         /\ agentFile = None
         /\ cmd # None => <<cmd.name, cmd.pc>> \in {<<"li", "start">>, <<"li", "granted">>,
                                                    <<"lo", "unlink">>}
    /\ cmd # None => (cmd.name = "li" \/ cmd.cfg.api # None)
    /\ (cmd # None /\ cmd.name = "li" /\ cmd.pc # "await") => agentFile = None

\* The agent that can be asked, and the one that is starting, hold keys of the configuration.
OfConfig(a) == agents[a].acct \in {None, disk.keys} /\ agents[a].sign \in {None, disk.keys}
AgentsMatch ==
    /\ agentFile # None => OfConfig(agentFile)
    /\ \A a \in Agents : agents[a].at = "spawned" => OfConfig(a)
    /\ cmd # None =>
         /\ cmd.pub = cmd.priv /\ cmd.pub \in {None, disk.keys} /\ cmd.sign \in {None, cmd.pub}
         /\ cmd.pc \in {"start", "granted", "setup", "wrapped", "signing"} =>
              cmd.pub = None /\ cmd.sign = None

KeysInv == RTypes /\ CopyHolds /\ DeviceKeyKept

LEMMA RInitBase == RInit => KeysInv
<1> SUFFICES ASSUME RInit PROVE KeysInv
  OBVIOUS
<1>1. disk \in Configs /\ disk.api = None /\ disk.wrap = 0
  BY HostAssumption DEF RInit, NoConfig, Configs, Maybe
<1>2. chain \in [Hosts -> [api : Maybe, dev : Nat]]
  BY DEF RInit, NoSecrets, Maybe
<1>3. \A b \in BOOLEAN : [at |-> "none", acct |-> None, sign |-> None, due |-> b] \in AgentType
  BY DEF AgentType, Stages, Maybe
<1>4. agents \in [Agents -> AgentType]
  BY Zenon, <1>3 DEF RInit, NoAgent
<1>5. wraps \in Nat /\ locked \in BOOLEAN /\ torn \in BOOLEAN /\ cmd = None /\ agentFile = None
  BY DEF RInit
<1> QED
  BY Zenon, <1>1, <1>2, <1>4, <1>5 DEF KeysInv, RTypes, CopyHolds, DeviceKeyKept

\* An agent's own steps change the agents and their file only.
LEMMA AgentEdits ==
    ASSUME RTypes, NEW a \in Agents
    PROVE  /\ \A s \in Stages : [agents[a] EXCEPT !.at = s] \in AgentType
           /\ \A b \in BOOLEAN : [agents[a] EXCEPT !.due = b] \in AgentType
           /\ [NoAgent EXCEPT !.at = "wiped"] \in AgentType
<1>1. agents[a] \in AgentType
  BY DEF RTypes
<1>2. \A s \in Stages : [agents[a] EXCEPT !.at = s] \in AgentType
  BY <1>1 DEF AgentType
<1>3. \A b \in BOOLEAN : [agents[a] EXCEPT !.due = b] \in AgentType
  BY <1>1 DEF AgentType
<1>4. \A b \in BOOLEAN : [[at |-> "none", acct |-> None, sign |-> None, due |-> b] EXCEPT !.at = "wiped"] \in AgentType
  BY DEF AgentType, Stages, Maybe
<1>5. [NoAgent EXCEPT !.at = "wiped"] \in AgentType
  BY Zenon, <1>4 DEF NoAgent
<1> QED
  BY Zenon, <1>2, <1>3, <1>5

LEMMA AgentBase ==
    ASSUME KeysInv, NEW a \in Agents, AgentStep(a) \/ Kill(a)
    PROVE  KeysInv'
<1>1. UNCHANGED <<disk, chain, wraps, cmd, locked, torn>>
  BY Zenon DEF AgentStep, Serve, Expire, closeListener, removeFile, wipe, Kill, stores
<1>2. agentFile' \in Agents \cup {None}
  BY Zenon DEF AgentStep, Serve, Expire, closeListener, removeFile, wipe, Kill, RemoveAgentFile, KeysInv, RTypes
<1>3. agents' \in [Agents -> AgentType]
  <2>0. agents \in [Agents -> AgentType] /\ RTypes
    BY Zenon DEF KeysInv, RTypes
  <2>1. {"serving", "closed", "removed"} \subseteq Stages
    BY DEF Stages
  <2>2. PICK r \in AgentType : agents' = [agents EXCEPT ![a] = r]
    <3>1. CASE Serve(a) BY <3>1, <2>0, <2>1, AgentEdits DEF Serve
    <3>2. CASE Expire(a) BY Zenon, <3>2, <2>0, <2>1, AgentEdits DEF Expire
    <3>3. CASE closeListener(a) BY <3>3, <2>0, <2>1, AgentEdits DEF closeListener
    <3>4. CASE removeFile(a) BY <3>4, <2>0, <2>1, AgentEdits DEF removeFile
    <3>5. CASE wipe(a) \/ Kill(a) BY Zenon, <3>5, <2>0, AgentEdits DEF wipe, Kill
    <3> QED BY Zenon, <3>1, <3>2, <3>3, <3>4, <3>5 DEF AgentStep
  <2> QED BY Zenon, <2>0, <2>2
<1> QED BY Zenon, <1>1, <1>2, <1>3 DEF KeysInv, RTypes, CopyHolds, DeviceKeyKept

LEMMA StartBase ==
    ASSUME KeysInv, Start
    PROVE  KeysInv'
<1>1. Load \in Configs /\ Load.keys = disk.keys /\ Load.wrap = disk.wrap /\ Load.host = disk.host
  BY DEF Load, KeysInv, RTypes, Configs
<1>2. PICK name \in Names, who \in Accounts : cmd' = Command(name, who, Load)
  BY DEF Start
<1>3. /\ cmd' \in Sessions /\ cmd'.pc = "start" /\ cmd'.cfg = Load
  <2> HIDE DEF Load
  <2> QED BY <1>1, <1>2 DEF Command, Sessions, Pcs, Maybe
<1>4. UNCHANGED <<stores, agentFile, agents, locked, torn>> /\ cmd = None
  BY DEF Start
<1> QED BY <1>1, <1>3, <1>4 DEF KeysInv, RTypes, CopyHolds, DeviceKeyKept, stores

Midway == {"wrapped", "unlink", "carry"}

\* A step of the command to another place in it.
LEMMA GotoFacts ==
    ASSUME cmd \in Sessions, NEW p \in Pcs, cmd' = [cmd EXCEPT !.pc = p]
    PROVE  /\ cmd' \in Sessions /\ cmd'.pc = p /\ cmd'.cfg = cmd.cfg /\ cmd'.name = cmd.name
           /\ cmd'.pub = cmd.pub /\ cmd'.priv = cmd.priv /\ cmd'.sign = cmd.sign
  BY DEF Sessions

LEMMA SessionFacts ==
    ASSUME RTypes, cmd # None
    PROVE  cmd \in Sessions /\ cmd.cfg \in Configs /\ cmd.who \in Accounts /\ cmd.pc \in Pcs
  BY DEF RTypes, Sessions

\* A step that writes neither the configuration nor the keychain, outside the places where
\* these two disagree.
Quiet ==
    /\ UNCHANGED <<disk, chain, wraps, torn>>
    /\ cmd # None /\ cmd.pc \notin Midway
    /\ agentFile' \in Agents \cup {None} /\ agents' \in [Agents -> AgentType] /\ locked' \in BOOLEAN
    /\ cmd' = None \/ (cmd' \in Sessions /\ cmd'.cfg = cmd.cfg /\ cmd'.pc \notin Midway)

LEMMA QuietBase ==
    ASSUME KeysInv, Quiet
    PROVE  KeysInv'
  BY Zenon DEF KeysInv, RTypes, CopyHolds, DeviceKeyKept, Quiet, Midway

LEMMA AskedFile == RTypes => AfterAsking \in Agents \cup {None}
  BY Zenon DEF RTypes, AfterAsking, Answers

LEMMA LoginQuiet ==
    ASSUME KeysInv, pollDeviceToken \/ noKeySetup
    PROVE  Quiet
<1>1. RTypes /\ cmd # None /\ cmd.pc \in {"start", "setup"}
  BY Zenon DEF KeysInv, pollDeviceToken, noKeySetup, Is
<1>2. UNCHANGED <<disk, chain, wraps, torn, agentFile, agents, locked>>
  BY Zenon DEF pollDeviceToken, noKeySetup, stores
<1>3. cmd' = None \/ (\E p \in {"granted", "pair"} : cmd' = [cmd EXCEPT !.pc = p])
  BY Zenon DEF pollDeviceToken, noKeySetup, Goto, Exit
<1>4. {"granted", "pair"} \subseteq Pcs \ Midway /\ {"start", "setup"} \cap Midway = {}
  BY DEF Pcs, Midway
<1>5. cmd' = None \/ (cmd' \in Sessions /\ cmd'.cfg = cmd.cfg /\ cmd'.pc \notin Midway)
  BY <1>1, <1>3, <1>4, SessionFacts, GotoFacts
<1> QED BY <1>1, <1>2, <1>4, <1>5 DEF Quiet, RTypes

LEMMA IsRunningQuiet ==
    ASSUME KeysInv, IsRunning
    PROVE  Quiet
<1>1. RTypes /\ cmd # None /\ cmd.pc = "start"
  BY Zenon DEF KeysInv, IsRunning
<1>2. UNCHANGED <<disk, chain, wraps, torn, agents, locked>> /\ agentFile' = AfterAsking
  BY Zenon DEF IsRunning, stores
<1>3. cmd' = None \/ (\E p \in {"stop", "pair"} : cmd' = [cmd EXCEPT !.pc = p])
  BY DEF IsRunning
<1>4. {"stop", "pair"} \subseteq Pcs \ Midway /\ "start" \notin Midway
  BY DEF Pcs, Midway
<1>5. cmd' = None \/ (cmd' \in Sessions /\ cmd'.cfg = cmd.cfg /\ cmd'.pc \notin Midway)
  BY <1>1, <1>3, <1>4, SessionFacts, GotoFacts
<1> QED BY <1>1, <1>2, <1>4, <1>5, AskedFile DEF Quiet, RTypes

\* keyPairLocked, as the rest of the command sees it.
LEMMA PairFacts ==
    ASSUME KeysInv, keyPairLocked
    PROVE  /\ cmd # None /\ cmd.pc \in {"pair", "start"}
           /\ UNCHANGED <<disk, chain, wraps, torn, agents, locked>>
           /\ agentFile' \in {agentFile, None}
           /\ \/ cmd' = None
              \/ /\ cmd' \in Sessions /\ cmd'.cfg = cmd.cfg /\ cmd'.name = cmd.name
                 /\ cmd'.pc \in {"used", "stop"}
                 /\ cmd'.pub = cmd.cfg.keys
                 /\ cmd'.priv \in {RequestKeys.priv, cmd.cfg.keys} \ {None}
                 /\ cmd'.sign \in {None, RequestKeys.sign, cmd.cfg.keys}
<1>1. RTypes /\ cmd # None /\ cmd.pc \in {"pair", "start"}
  BY Zenon DEF KeysInv, keyPairLocked, Is
<1>2. UNCHANGED <<disk, chain, wraps, torn, agents, locked>>
  BY Zenon DEF keyPairLocked, stores
<1>3. agentFile' \in {agentFile, None}
  BY Zenon DEF keyPairLocked, AfterAsking
<1>4. RequestKeys.priv \in Maybe /\ RequestKeys.sign \in Maybe
  <2>1. CASE Answers
    <3>1. agents[agentFile] \in AgentType
      BY Zenon, <1>1, <2>1 DEF Answers, RTypes
    <3> QED BY <2>1, <3>1 DEF RequestKeys, response, AgentType
  <2>2. CASE ~Answers
    BY <2>2 DEF RequestKeys, Maybe
  <2> QED BY <2>1, <2>2
<1> DEFINE agent == RequestKeys.priv # None
           priv == IF agent THEN RequestKeys.priv ELSE FromConfig
           sign == IF agent THEN hydrateSigningFromAgent ELSE hydrateSigningFromConfigWithPDK
           pc == IF cmd.name = "use" THEN "used" ELSE "stop"
<1>5. priv \in {RequestKeys.priv, cmd.cfg.keys, None}
  BY Zenon DEF FromConfig
<1>6. sign \in {None, RequestKeys.sign, cmd.cfg.keys}
  BY Zenon DEF hydrateSigningFromAgent, hydrateSigningFromConfigWithPDK
<1>7. pc \in {"used", "stop"}
  BY Zenon
<1>8. cmd' = None \/ (priv # None /\ cmd' = [cmd EXCEPT !.pub = cmd.cfg.keys, !.priv = priv, !.sign = sign, !.pc = pc])
  BY Zenon DEF keyPairLocked, Exit
<1>9. cmd \in Sessions /\ cmd.cfg.keys \in Maybe
  BY <1>1, SessionFacts DEF Configs
<1> HIDE DEF agent, priv, sign, pc
<1>10. priv \in Maybe /\ sign \in Maybe
  BY Zenon, <1>4, <1>5, <1>6, <1>9 DEF Maybe
<1>11. ASSUME cmd' = [cmd EXCEPT !.pub = cmd.cfg.keys, !.priv = priv, !.sign = sign, !.pc = pc]
       PROVE  /\ cmd' \in Sessions /\ cmd'.cfg = cmd.cfg /\ cmd'.name = cmd.name /\ cmd'.pc = pc
              /\ cmd'.pub = cmd.cfg.keys /\ cmd'.priv = priv /\ cmd'.sign = sign
  <2>1. pc \in Pcs
    BY <1>7 DEF Pcs
  <2> QED BY <1>9, <1>10, <1>11, <2>1 DEF Sessions
<1> QED BY Zenon, <1>1, <1>2, <1>3, <1>5, <1>6, <1>7, <1>8, <1>11

LEMMA PairQuiet ==
    ASSUME KeysInv, keyPairLocked
    PROVE  Quiet
<1>1. {"pair", "start", "used", "stop"} \cap Midway = {}
  BY DEF Midway
<1> QED BY Zenon, <1>1, PairFacts DEF Quiet, KeysInv, RTypes

LEMMA UseQuiet ==
    ASSUME KeysInv, signingKeysLocked \/ ClearCachedKey
    PROVE  Quiet
<1>1. RTypes /\ cmd # None /\ cmd.pc \in {"used", "signs"}
  BY Zenon DEF KeysInv, signingKeysLocked, ClearCachedKey, Is
<1>2. UNCHANGED <<disk, chain, wraps, torn, agentFile, agents, locked>>
  BY Zenon DEF signingKeysLocked, ClearCachedKey, stores
<1>3. cmd' = None \/ cmd' = [cmd EXCEPT !.pc = "signs"]
  BY Zenon DEF signingKeysLocked, ClearCachedKey, Goto, Exit
<1>4. "signs" \in Pcs \ Midway /\ {"used", "signs"} \cap Midway = {}
  BY DEF Pcs, Midway
<1>5. cmd' = None \/ (cmd' \in Sessions /\ cmd'.cfg = cmd.cfg /\ cmd'.pc \notin Midway)
  BY Zenon, <1>1, <1>3, <1>4, SessionFacts, GotoFacts
<1> QED BY Zenon, <1>1, <1>2, <1>4, <1>5 DEF Quiet, RTypes

\* stopAgent and stopLost, as the rest of the command sees them.
LEMMA StopFacts ==
    ASSUME RTypes, stopAgent \/ stopLost
    PROVE  /\ cmd # None /\ cmd.pc \in {"stop", "start"} /\ UNCHANGED <<disk, chain, wraps, torn>>
           /\ agentFile' = None /\ locked' \in BOOLEAN
           /\ agents' = agents \/ (Answers /\ agents' = Tell(agentFile))
           /\ \/ cmd' = None
              \/ /\ cmd' \in Sessions /\ cmd'.cfg = cmd.cfg /\ cmd'.name = cmd.name
                 /\ cmd'.pc \in {"clear", "spawn"}
                 /\ cmd'.pub = cmd.pub /\ cmd'.priv = cmd.priv /\ cmd'.sign = cmd.sign
<1>1. cmd # None /\ cmd.pc \in {"stop", "start"}
  BY Zenon DEF stopAgent, stopLost, Is
<1>2. UNCHANGED <<disk, chain, wraps, torn>> /\ agentFile' = None
  BY Zenon DEF stopAgent, stopLost, Shutdown, RemoveAgentFile, stores
<1>3. locked' \in BOOLEAN
  BY Zenon DEF stopAgent, stopLost, RTypes
<1>4. agents' = agents \/ (Answers /\ agents' = Tell(agentFile))
  BY Zenon DEF stopAgent, stopLost, Shutdown
<1>5. cmd' = None \/ (\E p \in {"clear", "spawn"} : cmd' = [cmd EXCEPT !.pc = p])
  BY DEF stopAgent, stopLost
<1>6. {"clear", "spawn"} \subseteq Pcs
  BY DEF Pcs
<1>7. \/ cmd' = None
      \/ /\ cmd' \in Sessions /\ cmd'.cfg = cmd.cfg /\ cmd'.name = cmd.name
         /\ cmd'.pc \in {"clear", "spawn"}
         /\ cmd'.pub = cmd.pub /\ cmd'.priv = cmd.priv /\ cmd'.sign = cmd.sign
  BY <1>1, <1>5, <1>6, SessionFacts, GotoFacts
<1> QED BY Zenon, <1>1, <1>2, <1>3, <1>4, <1>7

LEMMA StopQuiet ==
    ASSUME KeysInv, stopAgent \/ stopLost
    PROVE  Quiet
<1>1. {"stop", "start", "clear", "spawn"} \cap Midway = {} /\ "told" \in Stages
  BY DEF Midway, Stages
<1>2. agents' \in [Agents -> AgentType]
  <2>1. CASE agents' = agents
    BY Zenon, <2>1 DEF KeysInv, RTypes
  <2>2. CASE Answers /\ agents' = Tell(agentFile)
    <3>1. agentFile \in Agents /\ RTypes /\ agents \in [Agents -> AgentType]
      BY Zenon, <2>2 DEF Answers, KeysInv, RTypes
    <3>2. [agents[agentFile] EXCEPT !.at = "told"] \in AgentType
      BY Zenon, <1>1, <3>1, AgentEdits
    <3>3. agents' = [agents EXCEPT ![agentFile] = [agents[agentFile] EXCEPT !.at = "told"]]
      BY <2>2, <3>1 DEF Tell
    <3> QED BY Zenon, <3>1, <3>2, <3>3
  <2> QED BY Zenon, <2>1, <2>2, StopFacts DEF KeysInv
<1> QED BY Zenon, <1>1, <1>2, StopFacts DEF Quiet, KeysInv

\* SpawnBackground, as the rest of the command sees it.
LEMMA SpawnFacts ==
    ASSUME RTypes, SpawnBackground
    PROVE  /\ cmd # None /\ cmd.pc = "spawn" /\ UNCHANGED <<disk, chain, wraps, torn, agentFile>>
           /\ \/ cmd' = None /\ UNCHANGED <<agents, locked>>
              \/ /\ cmd' \in Sessions /\ cmd'.cfg = cmd.cfg /\ cmd'.name = cmd.name
                 /\ cmd'.pc = "await"
                 /\ cmd'.pub = cmd.pub /\ cmd'.priv = cmd.priv /\ cmd'.sign = cmd.sign
                 /\ locked' = FALSE
                 /\ \E a \in Agents : \E r \in AgentType :
                      /\ agents' = [agents EXCEPT ![a] = r]
                      /\ r.at = "spawned" /\ r.acct = cmd.priv /\ r.sign = cmd.sign
<1>1. cmd # None /\ cmd.pc = "spawn" /\ UNCHANGED <<disk, chain, wraps, torn, agentFile>>
  BY Zenon DEF SpawnBackground, stores
<1>2. CASE Free = {}
  BY Zenon, <1>1, <1>2 DEF SpawnBackground, Exit
<1>3. CASE Free # {}
  <2> DEFINE a == CHOOSE x \in Free : TRUE
             new(b) == [at |-> "spawned", acct |-> cmd.priv, sign |-> cmd.sign, due |-> b]
  <2>1. a \in Agents
    <3>1. a \in Free BY Zenon, <1>3
    <3> QED BY Zenon, <3>1 DEF Free
  <2>2. \A b \in BOOLEAN : /\ new(b) \in AgentType
                           /\ new(b).at = "spawned" /\ new(b).acct = cmd.priv /\ new(b).sign = cmd.sign
    <3>1. cmd.priv \in Maybe /\ cmd.sign \in Maybe
      BY <1>1, SessionFacts DEF Sessions
    <3> QED BY <3>1 DEF AgentType, Stages
  <2>3. agents' = [agents EXCEPT ![a] = new(FALSE)] /\ cmd' = [cmd EXCEPT !.pc = "await"] /\ locked' = FALSE
    BY Zenon, <1>3 DEF SpawnBackground, Goto
  <2>4. "await" \in Pcs
    BY DEF Pcs
  <2>5. /\ cmd' \in Sessions /\ cmd'.cfg = cmd.cfg /\ cmd'.name = cmd.name /\ cmd'.pc = "await"
        /\ cmd'.pub = cmd.pub /\ cmd'.priv = cmd.priv /\ cmd'.sign = cmd.sign
    BY Zenon, <1>1, <2>3, <2>4, SessionFacts, GotoFacts
  <2> HIDE DEF a, new
  <2> QED BY Zenon, <1>1, <2>1, <2>2, <2>3, <2>5
<1> QED BY Zenon, <1>2, <1>3

LEMMA SpawnQuiet ==
    ASSUME KeysInv, SpawnBackground
    PROVE  Quiet
<1>1. {"spawn", "await"} \cap Midway = {}
  BY DEF Midway
<1>2. agents \in [Agents -> AgentType] /\ RTypes
  BY Zenon DEF KeysInv, RTypes
<1>3. agents' \in [Agents -> AgentType]
  BY <1>2, SpawnFacts
<1>4. locked' \in BOOLEAN /\ agentFile' \in Agents \cup {None}
  BY Zenon, <1>2, SpawnFacts DEF RTypes
<1> QED BY Zenon, <1>1, <1>2, <1>3, <1>4, SpawnFacts DEF Quiet

LEMMA AwaitQuiet ==
    ASSUME KeysInv, StartAgentForKeys
    PROVE  Quiet
<1>1. cmd # None /\ cmd.pc = "await" /\ UNCHANGED <<disk, chain, wraps, torn, agents, locked>>
  BY Zenon DEF StartAgentForKeys, stores
<1>2. cmd' = None /\ agentFile' = AfterAsking
  BY Zenon DEF StartAgentForKeys, Exit
<1>3. "await" \notin Midway
  BY DEF Midway
<1> QED BY Zenon, <1>1, <1>2, <1>3, AskedFile DEF Quiet, KeysInv, RTypes

SecretType == [api : Maybe, dev : Nat]

\* Save touches no device key, and the API key of the copy's host only.
LEMMA SaveFacts ==
    ASSUME RTypes, NEW c \in Configs, Save(c)
    PROVE  /\ disk' \in Configs /\ disk'.api = None
           /\ disk'.keys = c.keys /\ disk'.sign = c.sign /\ disk'.wrap = c.wrap /\ disk'.host = c.host
           /\ chain' \in [Hosts -> SecretType]
           /\ \A h \in Hosts : chain'[h].dev = chain[h].dev
           /\ chain'[c.host].api = IF c.api = None THEN chain[c.host].api ELSE c.api
<1>0. chain \in [Hosts -> SecretType] /\ c.host \in Hosts /\ c.api \in Maybe
  BY DEF RTypes, Configs, SecretType
<1>1. /\ disk' \in Configs /\ disk'.api = None
      /\ disk'.keys = c.keys /\ disk'.sign = c.sign /\ disk'.wrap = c.wrap /\ disk'.host = c.host
  BY DEF Save, Configs, Maybe
<1>2. CASE c.api = None
  BY Zenon, <1>0, <1>1, <1>2 DEF Save
<1>3. CASE c.api # None
  <2>1. chain' = [chain EXCEPT ![c.host].api = c.api]
    BY Zenon, <1>3 DEF Save
  <2>2. chain' \in [Hosts -> SecretType] /\ \A h \in Hosts : chain'[h].dev = chain[h].dev
    BY <1>0, <2>1 DEF SecretType
  <2>3. chain'[c.host].api = c.api
    BY <1>0, <2>1 DEF SecretType
  <2> QED BY Zenon, <1>1, <1>3, <2>2, <2>3
<1> QED BY Zenon, <1>2, <1>3

\* A save of the command's copy, with other keys or without.
LEMMA SavingBase ==
    ASSUME KeysInv, cmd # None, cmd.pc \notin Midway, NEW c \in Configs, Save(c), c.host = cmd.cfg.host,
           c.wrap \in {0, cmd.cfg.wrap}, UNCHANGED <<agentFile, agents, wraps, locked, torn>>,
           cmd' = None \/ (cmd' \in Sessions /\ cmd'.cfg = c /\ cmd'.pc \notin Midway)
    PROVE  KeysInv'
<1>1. RTypes /\ cmd.cfg.wrap = disk.wrap /\ cmd.cfg.host = disk.host /\ disk.host \in Hosts
  BY DEF KeysInv, RTypes, CopyHolds, Configs, Midway
<1>2. RTypes'
  BY Zenon, <1>1, SaveFacts DEF RTypes, SecretType
<1>3. CopyHolds'
  BY Zenon, SaveFacts, <1>1 DEF CopyHolds
<1>4. chain'[disk'.host].dev = chain[disk.host].dev /\ disk'.wrap \in {0, disk.wrap}
  BY Zenon, <1>1, SaveFacts
<1>5. DeviceKeyKept'
  <2>1. ~torn /\ disk.wrap # 0 => chain[disk.host].dev = disk.wrap
    BY Zenon DEF KeysInv, DeviceKeyKept, Midway
  <2>2. cmd' # None => cmd'.pc \notin Midway
    BY Zenon
  <2> QED BY Zenon, <1>4, <2>1, <2>2 DEF DeviceKeyKept, Midway
<1> QED BY Zenon, <1>2, <1>3, <1>5 DEF KeysInv

\* The saves of a login before and after its keys are there, and of a setting.
LEMMA LoginSaves ==
    ASSUME RTypes, SetAPIKey \/ SetEncryptionKeys \/ SetSigningKeys
    PROVE  \E c \in Configs :
             /\ Save(c) /\ c.host = cmd.cfg.host /\ c.wrap \in {0, cmd.cfg.wrap} /\ c.api \in {cmd.cfg.api, cmd.who}
             /\ cmd' \in Sessions /\ cmd'.cfg = c /\ cmd'.name = "li" /\ cmd'.pub = cmd.pub
             /\ cmd'.priv = cmd.priv /\ cmd'.sign = cmd.sign
             /\ cmd'.pc \in {"setup", "signing", "pair"}
             /\ cmd'.pc = "setup" => c.api = cmd.who /\ c.keys = cmd.cfg.keys
             /\ cmd'.pc = "signing" => c.api = cmd.cfg.api /\ c.wrap = 0
             /\ cmd'.pc = "pair" => c.api = cmd.cfg.api /\ c.keys = cmd.cfg.keys
<1>1. cmd \in Sessions /\ cmd.cfg \in Configs /\ cmd.who \in Accounts /\ cmd.name = "li" /\ cmd.who \in Maybe
  BY SessionFacts DEF SetAPIKey, SetEncryptionKeys, SetSigningKeys, Is, Maybe
<1>2. ASSUME NEW c \in Configs, NEW p \in {"setup", "signing", "pair"}, cmd' = [cmd EXCEPT !.cfg = c, !.pc = p]
      PROVE  /\ cmd' \in Sessions /\ cmd'.cfg = c /\ cmd'.name = "li" /\ cmd'.pub = cmd.pub
             /\ cmd'.priv = cmd.priv /\ cmd'.sign = cmd.sign /\ cmd'.pc = p
  <2>1. p \in Pcs BY DEF Pcs
  <2> QED BY <1>1, <1>2, <2>1 DEF Sessions
<1>3. CASE SetAPIKey
  <2> DEFINE c == [cmd.cfg EXCEPT !.api = cmd.who]
  <2>1. /\ c \in Configs /\ c.host = cmd.cfg.host /\ c.wrap = cmd.cfg.wrap /\ c.keys = cmd.cfg.keys
        /\ c.api = cmd.who
    BY <1>1 DEF Configs
  <2>2. Save(c) /\ cmd' = [cmd EXCEPT !.cfg = c, !.pc = "setup"]
    BY Zenon, <1>3 DEF SetAPIKey
  <2> HIDE DEF c
  <2> QED BY <1>2, <2>1, <2>2
<1>4. CASE SetEncryptionKeys
  <2> DEFINE c == [cmd.cfg EXCEPT !.keys = cmd.who, !.wrap = 0]
  <2>1. c \in Configs /\ c.host = cmd.cfg.host /\ c.wrap = 0 /\ c.api = cmd.cfg.api
    BY <1>1 DEF Configs
  <2>2. Save(c) /\ cmd' = [cmd EXCEPT !.cfg = c, !.pc = "signing"]
    BY Zenon, <1>4 DEF SetEncryptionKeys
  <2> HIDE DEF c
  <2> QED BY <1>2, <2>1, <2>2
<1>5. CASE SetSigningKeys
  <2> DEFINE c == [cmd.cfg EXCEPT !.sign = cmd.who]
  <2>1. /\ c \in Configs /\ c.host = cmd.cfg.host /\ c.wrap = cmd.cfg.wrap /\ c.api = cmd.cfg.api
        /\ c.keys = cmd.cfg.keys
    BY <1>1 DEF Configs
  <2>2. Save(c) /\ cmd' = [cmd EXCEPT !.cfg = c, !.pc = "pair"]
    BY Zenon, <1>5 DEF SetSigningKeys
  <2> HIDE DEF c
  <2> QED BY <1>2, <2>1, <2>2
<1> QED BY <1>3, <1>4, <1>5

LEMMA SettingsBase ==
    ASSUME KeysInv, SetAPIKey \/ SetEncryptionKeys \/ SetSigningKeys \/ SetCwd
    PROVE  KeysInv'
<1>0. RTypes
  BY Zenon DEF KeysInv
<1>1. cmd # None /\ cmd.pc \in {"granted", "setup", "signing", "start"}
  BY Zenon DEF SetAPIKey, SetEncryptionKeys, SetSigningKeys, SetCwd, Is
<1>2. {"granted", "setup", "signing", "start", "pair"} \cap Midway = {}
  BY DEF Midway
<1>3. UNCHANGED <<agentFile, agents, wraps, locked, torn>>
  BY Zenon DEF SetAPIKey, SetEncryptionKeys, SetSigningKeys, SetCwd
<1>4. CASE SetAPIKey \/ SetEncryptionKeys \/ SetSigningKeys
  <2>1. PICK c \in Configs :
          /\ Save(c) /\ c.host = cmd.cfg.host /\ c.wrap \in {0, cmd.cfg.wrap}
          /\ cmd' \in Sessions /\ cmd'.cfg = c /\ cmd'.pc \in {"setup", "signing", "pair"}
    BY Zenon, <1>0, <1>4, LoginSaves
  <2> QED BY Zenon, <1>1, <1>2, <1>3, <2>1, SavingBase
<1>5. CASE SetCwd
  <2>1. cmd.cfg \in Configs
    BY Zenon, <1>0, <1>1, SessionFacts
  <2> QED BY Zenon, <1>1, <1>2, <1>3, <1>5, <2>1, SavingBase DEF SetCwd, Exit
<1> QED BY Zenon, <1>4, <1>5

LEMMA StoreDeviceBase ==
    ASSUME KeysInv, StoreE2EEDeviceKey
    PROVE  KeysInv'
<1>1. RTypes /\ cmd # None /\ cmd.pc = "setup" /\ cmd \in Sessions
  BY Zenon, SessionFacts DEF KeysInv, StoreE2EEDeviceKey, Is
<1>2. /\ UNCHANGED <<disk, agentFile, agents, locked, torn>> /\ wraps' = wraps + 1
      /\ chain' = [chain EXCEPT ![cmd.cfg.host].dev = wraps + 1] /\ cmd' = [cmd EXCEPT !.pc = "wrapped"]
  BY Zenon DEF StoreE2EEDeviceKey, Goto
<1>3. /\ cmd.cfg.keys = disk.keys /\ cmd.cfg.wrap = disk.wrap /\ cmd.cfg.host = disk.host
  BY <1>1 DEF KeysInv, CopyHolds
<1>4. cmd' \in Sessions /\ cmd'.pc = "wrapped" /\ cmd'.cfg = cmd.cfg
  <2>1. "wrapped" \in Pcs BY DEF Pcs
  <2> QED BY Zenon, <1>1, <1>2, <2>1, GotoFacts
<1>5. wraps' \in Nat /\ chain' \in [Hosts -> SecretType] /\ chain'[disk.host].dev = wraps'
  BY <1>1, <1>2, <1>3 DEF RTypes, SecretType, Configs
<1>6. RTypes'
  BY Zenon, <1>1, <1>2, <1>4, <1>5 DEF RTypes, SecretType
<1>7. CopyHolds'
  BY Zenon, <1>2, <1>3, <1>4 DEF CopyHolds
<1>8. DeviceKeyKept'
  <2>1. "wrapped" # "carry" /\ cmd' # None BY <1>4, SessionsAssumption
  <2> QED BY Zenon, <1>2, <1>4, <1>5, <2>1 DEF DeviceKeyKept
<1> QED BY Zenon, <1>6, <1>7, <1>8 DEF KeysInv

LEMMA SetDeviceBase ==
    ASSUME KeysInv, SetDeviceWrappedE2EEKeys
    PROVE  KeysInv'
<1>1. RTypes /\ cmd # None /\ cmd.pc = "wrapped" /\ cmd.cfg \in Configs /\ cmd.who \in Accounts
  BY Zenon, SessionFacts DEF KeysInv, SetDeviceWrappedE2EEKeys, Is
<1> DEFINE c == [cmd.cfg EXCEPT !.keys = cmd.who, !.sign = cmd.who, !.wrap = wraps]
<1>2. c \in Configs /\ c.wrap = wraps /\ c.host = cmd.cfg.host
  BY <1>1 DEF Configs, RTypes, Maybe
<1>3. Save(c) /\ cmd' = None /\ UNCHANGED <<agentFile, agents, wraps, locked, torn>>
  BY Zenon DEF SetDeviceWrappedE2EEKeys, Exit
<1> HIDE DEF c
<1>4. cmd.cfg.host = disk.host /\ disk.host \in Hosts /\ chain[disk.host].dev = wraps
  BY <1>1 DEF KeysInv, CopyHolds, DeviceKeyKept, RTypes, Configs
<1>5. RTypes'
  BY Zenon, <1>1, <1>2, <1>3, SaveFacts DEF RTypes, SecretType
<1>6. chain'[disk'.host].dev = disk'.wrap
  BY Zenon, <1>1, <1>2, <1>3, <1>4, SaveFacts
<1> QED BY Zenon, <1>3, <1>5, <1>6 DEF KeysInv, CopyHolds, DeviceKeyKept

LEMMA ClearBase ==
    ASSUME KeysInv, deleteSecrets \/ Clear
    PROVE  KeysInv'
<1>0. RTypes /\ cmd # None /\ cmd \in Sessions /\ cmd.cfg \in Configs
  BY Zenon, SessionFacts DEF KeysInv, deleteSecrets, Clear, Is
<1>1. CASE deleteSecrets
  <2>1. /\ UNCHANGED <<disk, agentFile, agents, wraps, locked, torn>> /\ cmd.pc = "clear"
        /\ chain' = [chain EXCEPT ![cmd.cfg.host] = NoSecrets] /\ cmd' = [cmd EXCEPT !.pc = "unlink"]
    BY Zenon, <1>1 DEF deleteSecrets, Goto, Is
  <2>2. chain' \in [Hosts -> SecretType]
    BY <1>0, <2>1 DEF RTypes, SecretType, NoSecrets, Maybe
  <2>3. cmd' \in Sessions /\ cmd'.pc = "unlink" /\ cmd'.cfg = cmd.cfg
    <3>1. "unlink" \in Pcs BY DEF Pcs
    <3> QED BY Zenon, <1>0, <2>1, <3>1, GotoFacts
  <2>4. RTypes'
    BY Zenon, <1>0, <2>1, <2>2, <2>3 DEF RTypes, SecretType
  <2>5. CopyHolds' /\ DeviceKeyKept'
    <3>1. "unlink" # "carry" /\ "unlink" # "wrapped" /\ "clear" # "carry" /\ cmd' # None
      BY <2>3, SessionsAssumption
    <3> QED BY Zenon, <1>0, <2>1, <2>3, <3>1 DEF KeysInv, CopyHolds, DeviceKeyKept
  <2> QED BY Zenon, <2>4, <2>5 DEF KeysInv
<1>2. CASE Clear
  <2>1. disk' = NoConfig /\ cmd' = None /\ locked' = TRUE /\ UNCHANGED <<chain, wraps, agentFile, agents, torn>>
    BY Zenon, <1>2 DEF Clear, Exit
  <2>2. disk' \in Configs /\ disk'.api = None /\ disk'.wrap = 0
    BY <2>1, HostAssumption DEF NoConfig, Configs, Maybe
  <2> QED BY Zenon, <1>0, <2>1, <2>2 DEF KeysInv, RTypes, CopyHolds, DeviceKeyKept
<1> QED BY Zenon, <1>1, <1>2

LEMMA EndpointBase ==
    ASSUME KeysInv, SetEndpoint
    PROVE  KeysInv'
<1>1. RTypes /\ cmd # None /\ cmd.pc = "start" /\ cmd \in Sessions /\ cmd.cfg \in Configs
  BY Zenon, SessionFacts DEF KeysInv, SetEndpoint, Is
<1>2. PICK h \in Hosts : /\ disk' = [cmd.cfg EXCEPT !.host = h, !.api = None]
                         /\ chain' = [chain EXCEPT ![cmd.cfg.host] = NoSecrets, ![h].api = cmd.cfg.api]
  BY Zenon DEF SetEndpoint
<1>3. /\ UNCHANGED <<wraps, agentFile, agents, locked, torn>>
      /\ cmd' = [cmd EXCEPT !.dev = chain[cmd.cfg.host].dev, !.pc = "carry"]
  BY Zenon DEF SetEndpoint
<1>4. /\ cmd.cfg.keys = disk.keys /\ cmd.cfg.wrap = disk.wrap /\ cmd.cfg.host = disk.host
      /\ ~torn /\ disk.wrap # 0 => chain[disk.host].dev = disk.wrap
  BY <1>1 DEF KeysInv, CopyHolds, DeviceKeyKept
<1>5. disk' \in Configs /\ disk'.api = None /\ disk'.keys = cmd.cfg.keys /\ disk'.wrap = cmd.cfg.wrap
  BY <1>1, <1>2 DEF Configs, Maybe
<1>6. chain' \in [Hosts -> SecretType]
  <2>1. chain \in [Hosts -> SecretType] /\ cmd.cfg.api \in Maybe /\ NoSecrets \in SecretType
    BY <1>1 DEF RTypes, SecretType, NoSecrets, Maybe, Configs
  <2> QED BY <1>2, <2>1 DEF SecretType
<1>7. cmd' \in Sessions /\ cmd'.cfg = cmd.cfg /\ cmd'.pc = "carry" /\ cmd'.dev = chain[disk.host].dev
  <2>1. chain[disk.host].dev \in Nat /\ "carry" \in Pcs
    BY <1>1 DEF RTypes, Configs, Pcs
  <2> QED BY <1>1, <1>3, <1>4, <2>1 DEF Sessions
<1>8. RTypes'
  BY Zenon, <1>1, <1>3, <1>5, <1>6, <1>7 DEF RTypes, SecretType
<1>9. CopyHolds'
  BY Zenon, <1>4, <1>5, <1>7 DEF CopyHolds
<1>10. DeviceKeyKept'
  <2>1. "carry" # "wrapped" /\ cmd' # None BY <1>7, SessionsAssumption
  <2> QED BY Zenon, <1>3, <1>4, <1>5, <1>7, <2>1 DEF DeviceKeyKept
<1> QED BY Zenon, <1>8, <1>9, <1>10 DEF KeysInv

LEMMA CarryBase ==
    ASSUME KeysInv, carryDeviceKey
    PROVE  KeysInv'
<1>1. RTypes /\ cmd # None /\ cmd.pc = "carry" /\ cmd \in Sessions /\ cmd' = None
  BY Zenon, SessionFacts DEF KeysInv, carryDeviceKey, Is, Exit
<1>2. /\ UNCHANGED <<disk, wraps, agentFile, agents, locked, torn>>
      /\ chain' = IF cmd.dev = 0 THEN chain ELSE [chain EXCEPT ![disk.host].dev = cmd.dev]
  BY Zenon DEF carryDeviceKey, storeDeviceKey
<1>3. chain' \in [Hosts -> SecretType] /\ (cmd.dev # 0 => chain'[disk.host].dev = cmd.dev)
  BY <1>1, <1>2 DEF RTypes, SecretType, Sessions, Configs
<1>4. ~torn /\ disk.wrap # 0 => cmd.dev = disk.wrap
  BY <1>1 DEF KeysInv, DeviceKeyKept
<1> QED BY <1>1, <1>2, <1>3, <1>4 DEF KeysInv, RTypes, CopyHolds, DeviceKeyKept, SecretType

LEMMA InterruptBase ==
    ASSUME KeysInv, interruptCommand
    PROVE  KeysInv'
<1>1. /\ UNCHANGED <<disk, chain, wraps, agentFile, agents, locked>> /\ cmd # None /\ cmd' = None
      /\ torn' = (torn \/ cmd.pc \in Midway)
  BY Zenon DEF interruptCommand, Exit, stores, Midway
<1> QED BY Zenon, <1>1 DEF KeysInv, RTypes, CopyHolds, DeviceKeyKept, Midway

LEMMA BaseNext ==
    ASSUME KeysInv, [RNext]_rvars
    PROVE  KeysInv'
<1>1. CASE \E a \in Agents : AgentStep(a) \/ Kill(a)
  BY Zenon, <1>1, AgentBase
<1>2. CASE CommandStep
  BY Zenon, <1>2, LoginQuiet, SettingsBase, StoreDeviceBase, SetDeviceBase, IsRunningQuiet, PairQuiet,
     UseQuiet, StopQuiet, SpawnQuiet, AwaitQuiet, QuietBase, ClearBase, EndpointBase, CarryBase DEF CommandStep
<1>3. CASE UNCHANGED rvars
  BY Zenon, <1>3 DEF rvars, KeysInv, RTypes, CopyHolds, DeviceKeyKept
<1> QED BY Zenon, <1>1, <1>2, <1>3, StartBase, StopQuiet, QuietBase, InterruptBase DEF RNext

\* Without slow starts, a step of a command that leaves no agent starting, and does not
\* name another agent, keeps Spawning.
LEMMA SettledSpawning ==
    ASSUME Spawning, \A a \in Agents : agents[a].at # "spawned",
           \A a \in Agents : agents'[a].at = "spawned" => agents[a].at = "spawned",
           agentFile' \in {agentFile, None}, locked' => locked \/ agentFile' = None,
           (cmd' # None /\ cmd'.pc \in {"spawn", "clear", "unlink"}) => agentFile' = None
    PROVE  Spawning'
  BY Zenon DEF Spawning

LEMMA AgentSpawning ==
    ASSUME RTypes, Spawning, NEW a \in Agents, AgentStep(a) \/ Kill(a)
    PROVE  Spawning'
<1>0. agents \in [Agents -> AgentType] /\ UNCHANGED <<cmd, locked>>
  BY Zenon DEF RTypes, AgentStep, Serve, Expire, closeListener, removeFile, wipe, Kill
<1>1. CASE Serve(a)
  <2>1. agents[a].at = "spawned" /\ agentFile' = a /\ agents' = [agents EXCEPT ![a].at = "serving"]
    BY Zenon, <1>1 DEF Serve
  <2>2. \A b \in Agents : agents'[b].at # "spawned"
    BY <1>0, <2>1 DEF Spawning, AgentType
  <2>3. cmd # None /\ cmd.pc = "await" /\ ~locked
    BY Zenon, <2>1 DEF Spawning
  <2>4. "await" \notin {"spawn", "clear", "unlink"}
    OBVIOUS
  <2> QED BY Zenon, <1>0, <2>2, <2>3, <2>4 DEF Spawning
<1>2. CASE ~Serve(a)
  <2>1. \A b \in Agents : agents'[b].at = "spawned" => agents[b].at = "spawned"
    <3>1. CASE Expire(a)
      BY <1>0, <3>1 DEF Expire, AgentType
    <3>2. CASE closeListener(a)
      BY <1>0, <3>2 DEF closeListener, AgentType
    <3>3. CASE removeFile(a)
      BY <1>0, <3>3 DEF removeFile, AgentType
    <3>4. CASE wipe(a) \/ Kill(a)
      <4>1. agents' = [agents EXCEPT ![a] = [NoAgent EXCEPT !.at = "wiped"]]
        BY Zenon, <3>4 DEF wipe, Kill
      <4>2. [NoAgent EXCEPT !.at = "wiped"].at = "wiped" /\ "wiped" # "spawned"
        BY DEF NoAgent
      <4> QED BY Zenon, <1>0, <4>1, <4>2
    <3> QED BY Zenon, <1>2, <3>1, <3>2, <3>3, <3>4 DEF AgentStep
  <2>2. agentFile' \in {agentFile, None}
    BY Zenon, <1>2 DEF AgentStep, Expire, closeListener, removeFile, wipe, Kill, RemoveAgentFile
  <2> QED BY Zenon, <1>0, <2>1, <2>2 DEF Spawning
<1> QED BY Zenon, <1>1, <1>2

LEMMA SpawnSpawning ==
    ASSUME RTypes, Spawning, SpawnBackground
    PROVE  Spawning'
<1>0. agents \in [Agents -> AgentType]
  BY Zenon DEF RTypes
<1>1. cmd # None /\ cmd.pc = "spawn" /\ agentFile = None /\ agentFile' = None
  BY Zenon, SpawnFacts DEF Spawning
<1>2. \A a \in Agents : agents[a].at # "spawned"
  BY <1>1 DEF Spawning
<1>3. CASE cmd' = None /\ UNCHANGED <<agents, locked>>
  BY Zenon, <1>1, <1>2, <1>3 DEF Spawning
<1>4. CASE ~(cmd' = None /\ UNCHANGED <<agents, locked>>)
  <2>1. PICK a \in Agents : \E r \in AgentType : agents' = [agents EXCEPT ![a] = r]
    BY Zenon, <1>4, SpawnFacts
  <2>2. \A b \in Agents : agents'[b].at = "spawned" => b = a
    BY Zenon, <1>0, <1>2, <2>1
  <2>3. cmd' \in Sessions /\ cmd'.pc = "await" /\ locked' = FALSE
    BY Zenon, <1>4, SpawnFacts
  <2>4. cmd' # None
    BY Zenon, <2>3, SessionsAssumption
  <2> QED BY Zenon, <1>1, <2>2, <2>3, <2>4 DEF Spawning
<1> QED BY Zenon, <1>3, <1>4

\* The other steps of a command come when no agent is starting.
LEMMA NobodyStarting ==
    ASSUME ~SlowSpawn, Spawning,
           Start \/ CommandStep \/ stopLost \/ interruptCommand
    PROVE  \A a \in Agents : agents[a].at # "spawned"
<1>1. CASE StartAgentForKeys \/ interruptCommand
  BY Zenon, <1>1 DEF StartAgentForKeys, interruptCommand, Started, Answers, Spawning
<1>2. CASE ~(StartAgentForKeys \/ interruptCommand)
  <2>1. cmd = None \/ cmd.pc # "await"
    <3>1. CASE Start
      BY Zenon, <3>1 DEF Start
    <3>2. CASE CommandStep \/ stopLost
      BY <1>2, <3>2 DEF CommandStep, pollDeviceToken, SetAPIKey, StoreE2EEDeviceKey, SetDeviceWrappedE2EEKeys,
         SetEncryptionKeys, noKeySetup, SetSigningKeys, IsRunning, keyPairLocked, signingKeysLocked,
         ClearCachedKey, stopAgent, stopLost, SpawnBackground, deleteSecrets, Clear, SetCwd, SetEndpoint,
         carryDeviceKey, Is
    <3> QED BY Zenon, <1>2, <3>1, <3>2
  <2> QED BY Zenon, <2>1 DEF Spawning
<1> QED BY Zenon, <1>1, <1>2

LEMMA CommandSpawning ==
    ASSUME ~SlowSpawn, KeysInv, KeysInv', Spawning, Start \/ CommandStep \/ stopLost \/ interruptCommand
    PROVE  Spawning'
<1>0. RTypes /\ agents \in [Agents -> AgentType]
  BY Zenon DEF KeysInv, RTypes
<1>1. \A a \in Agents : agents[a].at # "spawned"
  BY Zenon, NobodyStarting
<1> DEFINE S == {"spawn", "clear", "unlink"}
<1>2. CASE SpawnBackground
  BY Zenon, <1>0, <1>2, SpawnSpawning
<1>3. CASE stopAgent \/ stopLost
  <2>1. \A a \in Agents : agents'[a].at = "spawned" => agents[a].at = "spawned"
    <3>1. CASE agents' = agents
      BY Zenon, <3>1
    <3>2. CASE Answers /\ agents' = Tell(agentFile)
      <4>1. agentFile \in Agents
        BY Zenon, <1>0, <3>2 DEF Answers, RTypes
      <4> QED BY <1>0, <3>2, <4>1 DEF Tell, AgentType
    <3> QED BY Zenon, <1>0, <1>3, <3>1, <3>2, StopFacts
  <2> QED BY Zenon, <1>0, <1>1, <1>3, <2>1, StopFacts, SettledSpawning
<1>4. CASE Start
  <2>a. UNCHANGED <<agentFile, agents, locked>>
    BY Zenon, <1>4 DEF Start
  <2>0. \E name, who : cmd' = Command(name, who, Load)
    BY Zenon, <1>4 DEF Start
  <2>1. UNCHANGED <<agentFile, agents, locked>> /\ cmd'.pc = "start"
    BY <2>a, <2>0 DEF Command
  <2>2. "start" \notin S
    OBVIOUS
  <2> QED BY Zenon, <1>1, <2>1, <2>2, SettledSpawning
<1>5. CASE keyPairLocked
  <2>1. {"used", "stop"} \cap S = {}
    OBVIOUS
  <2>2. UNCHANGED <<agents, locked>> /\ agentFile' \in {agentFile, None}
    BY Zenon, <1>5, PairFacts
  <2>3. cmd' = None \/ cmd'.pc \in {"used", "stop"}
    BY Zenon, <1>5, PairFacts
  <2> QED BY Zenon, <1>1, <2>1, <2>2, <2>3, SettledSpawning
<1>6. CASE SetAPIKey \/ SetEncryptionKeys \/ SetSigningKeys
  <2>1. cmd'.pc \in {"setup", "signing", "pair"}
    BY Zenon, <1>0, <1>6, LoginSaves
  <2>2. UNCHANGED <<agentFile, agents, locked>>
    BY Zenon, <1>6 DEF SetAPIKey, SetEncryptionKeys, SetSigningKeys
  <2>3. {"setup", "signing", "pair"} \cap S = {}
    OBVIOUS
  <2> QED BY Zenon, <1>1, <2>1, <2>2, <2>3, SettledSpawning
<1>7. CASE SetDeviceWrappedE2EEKeys \/ ClearCachedKey \/ StartAgentForKeys \/ Clear \/ SetCwd \/ carryDeviceKey \/ interruptCommand
  <2>1. cmd' = None /\ UNCHANGED agents /\ agentFile' \in {agentFile, None}
    BY Zenon, <1>7 DEF SetDeviceWrappedE2EEKeys, ClearCachedKey, StartAgentForKeys, Clear, SetCwd, carryDeviceKey,
       interruptCommand, Exit, AfterAsking
  <2>2. locked' = locked \/ (Clear /\ agentFile' = agentFile)
    BY Zenon, <1>7 DEF SetDeviceWrappedE2EEKeys, ClearCachedKey, StartAgentForKeys, Clear, SetCwd, carryDeviceKey,
       interruptCommand
  <2>3. Clear => agentFile = None
    BY DEF Clear, Is, Spawning
  <2>4. locked' => locked \/ agentFile' = None
    BY Zenon, <2>2, <2>3
  <2> QED BY Zenon, <1>1, <2>1, <2>4, SettledSpawning
<1>8. CASE pollDeviceToken \/ noKeySetup \/ StoreE2EEDeviceKey \/ IsRunning \/ signingKeysLocked \/ SetEndpoint
  <2>1. UNCHANGED <<agents, locked>> /\ agentFile' \in {agentFile, None}
    BY Zenon, <1>8 DEF pollDeviceToken, noKeySetup, StoreE2EEDeviceKey, IsRunning, signingKeysLocked, SetEndpoint,
       AfterAsking
  <2>2. cmd # None /\ cmd \in Sessions
    BY Zenon, <1>0, <1>8, SessionFacts DEF pollDeviceToken, noKeySetup, StoreE2EEDeviceKey, IsRunning, signingKeysLocked, SetEndpoint, Is
  <2>3. cmd' = None \/ cmd'.pc \in {"granted", "pair", "wrapped", "stop", "signs", "carry"}
    <3>1. CASE SetEndpoint
      BY <2>2, <3>1 DEF SetEndpoint, Sessions
    <3>2. CASE IsRunning
      BY <2>2, <3>2 DEF IsRunning, Sessions
    <3>3. CASE pollDeviceToken \/ noKeySetup \/ StoreE2EEDeviceKey \/ signingKeysLocked
      BY <2>2, <3>3 DEF pollDeviceToken, noKeySetup, StoreE2EEDeviceKey, signingKeysLocked, Goto, Exit, Sessions
    <3> QED BY Zenon, <1>8, <3>1, <3>2, <3>3
  <2>4. {"granted", "pair", "wrapped", "stop", "signs", "carry"} \cap S = {}
    OBVIOUS
  <2> QED BY Zenon, <1>1, <2>1, <2>3, <2>4, SettledSpawning
<1>9. CASE deleteSecrets
  <2>1. UNCHANGED <<agents, locked, agentFile>> /\ agentFile = None
    BY <1>9 DEF deleteSecrets, Is, Spawning
  <2> QED BY Zenon, <1>1, <2>1, SettledSpawning
<1> QED BY Zenon, <1>2, <1>3, <1>4, <1>5, <1>6, <1>7, <1>8, <1>9 DEF CommandStep

Early == {"start", "granted", "setup", "wrapped", "signing"}
Outside == {<<"li", "start">>, <<"li", "granted">>, <<"lo", "unlink">>}
Paired(s) ==
    /\ s.pub = s.priv /\ s.pub \in {None, disk.keys} /\ s.sign \in {None, s.pub}
    /\ s.pc \in Early => s.pub = None /\ s.sign = None

Matching == LoggedOut /\ AgentsMatch

\* The agents keep what they hold, or are wiped.
Kept ==
    \A a \in Agents :
      /\ agents'[a].at = "spawned" => agents[a].at = "spawned"
      /\ agents'[a].acct \in {agents[a].acct, None} /\ agents'[a].sign \in {agents[a].sign, None}

\* A step that changes neither store.
LEMMA CalmMatching ==
    ASSUME RTypes, Matching, UNCHANGED <<disk, chain>>, Kept,
           agentFile' \in {agentFile, None},
           \/ cmd' = None
           \/ /\ cmd # None /\ cmd'.name = cmd.name /\ cmd'.cfg = cmd.cfg /\ cmd.pc # "await"
              /\ <<cmd.name, cmd.pc>> \in Outside => <<cmd'.name, cmd'.pc>> \in Outside
              /\ Paired(cmd')
    PROVE  Matching'
<1>1. agentFile' # None => agentFile' = agentFile /\ agentFile \in Agents
  BY Zenon DEF RTypes
<1>2. LoggedOut'
  BY Zenon DEF Matching, LoggedOut, Outside
<1>3. (agentFile' # None => OfConfig(agentFile)') /\ \A a \in Agents : agents'[a].at = "spawned" => OfConfig(a)'
  <2>1. \A a \in Agents : OfConfig(a) => OfConfig(a)'
    BY Zenon DEF OfConfig, Kept
  <2> QED BY Zenon, <1>1, <2>1 DEF Matching, AgentsMatch, Kept
<1>4. AgentsMatch'
  BY Zenon, <1>3 DEF AgentsMatch, Paired, Early
<1> QED BY Zenon, <1>2, <1>4 DEF Matching

LEMMA AgentKept ==
    ASSUME RTypes, NEW a \in Agents, AgentStep(a) \/ Kill(a)
    PROVE  Kept
<1>0. agents \in [Agents -> AgentType]
  BY Zenon DEF RTypes
<1>1. CASE Serve(a)
  BY <1>0, <1>1 DEF Serve, Kept, AgentType
<1>2. CASE Expire(a)
  BY <1>0, <1>2 DEF Expire, Kept, AgentType
<1>3. CASE closeListener(a)
  BY <1>0, <1>3 DEF closeListener, Kept, AgentType
<1>4. CASE removeFile(a)
  BY <1>0, <1>4 DEF removeFile, Kept, AgentType
<1>5. CASE wipe(a) \/ Kill(a)
  <2>1. agents' = [agents EXCEPT ![a] = [NoAgent EXCEPT !.at = "wiped"]]
    BY Zenon, <1>5 DEF wipe, Kill
  <2> DEFINE r == [NoAgent EXCEPT !.at = "wiped"]
  <2>2. r.at # "spawned" /\ r.acct = None /\ r.sign = None
    BY DEF NoAgent
  <2> HIDE DEF r
  <2> QED BY Zenon, <1>0, <2>1, <2>2 DEF Kept, r
<1> QED BY Zenon, <1>1, <1>2, <1>3, <1>4, <1>5 DEF AgentStep

LEMMA AgentMatching ==
    ASSUME KeysInv, Spawning, Matching, NEW a \in Agents, AgentStep(a) \/ Kill(a)
    PROVE  Matching'
<1>0. RTypes /\ UNCHANGED <<disk, chain, cmd>> /\ Kept
  BY Zenon, AgentKept DEF KeysInv, AgentStep, Serve, Expire, closeListener, removeFile, wipe, Kill, stores
<1>1. \A b \in Agents : OfConfig(b) => OfConfig(b)'
  BY Zenon, <1>0 DEF OfConfig, Kept
<1>2. CASE Serve(a)
  <2>1. agents[a].at = "spawned" /\ agentFile' = a /\ OfConfig(a)
    BY Zenon, <1>2 DEF Serve, Matching, AgentsMatch
  <2>2. cmd # None /\ cmd.pc = "await"
    BY Zenon, <2>1 DEF Spawning
  <2>3. "await" \notin {"start", "granted", "unlink"}
    OBVIOUS
  <2>4. <<cmd.name, cmd.pc>> \notin {<<"li", "start">>, <<"li", "granted">>, <<"lo", "unlink">>}
    BY <2>2
  <2>5. LoggedOut'
    BY Zenon, <1>0, <2>2, <2>4 DEF Matching, LoggedOut
  <2>6. AgentsMatch'
    BY Zenon, <1>0, <1>1, <2>1 DEF Matching, AgentsMatch, Kept
  <2> QED BY Zenon, <2>5, <2>6 DEF Matching
<1>3. CASE ~Serve(a)
  <2>1. agentFile' \in {agentFile, None}
    BY Zenon, <1>3 DEF AgentStep, Expire, closeListener, removeFile, wipe, Kill, RemoveAgentFile
  <2>2. agentFile' # None => agentFile' = agentFile /\ agentFile \in Agents
    BY Zenon, <1>0, <2>1 DEF RTypes
  <2>3. LoggedOut'
    BY Zenon, <1>0, <2>1 DEF Matching, LoggedOut
  <2>4. AgentsMatch'
    BY Zenon, <1>0, <1>1, <2>2 DEF Matching, AgentsMatch, Kept
  <2> QED BY Zenon, <2>3, <2>4 DEF Matching
<1> QED BY Zenon, <1>2, <1>3

LEMMA SamePair ==
    ASSUME Matching, cmd # None, cmd'.pub = cmd.pub, cmd'.priv = cmd.priv, cmd'.sign = cmd.sign,
           cmd'.pc \in Early => cmd.pc \in Early
    PROVE  Paired(cmd')
  BY Zenon DEF Matching, AgentsMatch, Paired, Early

LEMMA SameAgents == UNCHANGED agents => Kept
  BY Zenon DEF Kept

LEMMA StartMatching ==
    ASSUME ~Relogin, KeysInv, Matching, Start
    PROVE  Matching'
<1>1. UNCHANGED <<disk, chain, agents, agentFile>>
  BY Zenon DEF Start, stores
<1>2. PICK name \in Names, who \in Accounts :
        /\ name = "li" => MayLogin
        /\ name # "li" => Load.api # None
        /\ cmd' = Command(name, who, Load)
  BY Zenon DEF Start
<1>3. /\ cmd'.name = name /\ cmd'.pc = "start" /\ cmd'.cfg = Load
      /\ cmd'.pub = None /\ cmd'.priv = None /\ cmd'.sign = None
  BY <1>2 DEF Command
<1>4. Load.api = chain[disk.host].api
  BY DEF Load, KeysInv, RTypes, Configs
<1>5. name = "li" <=> chain[disk.host].api = None
  BY Zenon, <1>2, <1>4 DEF MayLogin
<1>6. LoggedOut'
  BY Zenon, <1>1, <1>2, <1>3, <1>4, <1>5 DEF Matching, LoggedOut
<1>7. AgentsMatch'
  <2>1. \A a \in Agents \cup {agentFile} : OfConfig(a) => OfConfig(a)'
    BY Zenon, <1>1 DEF OfConfig
  <2> QED BY Zenon, <1>1, <1>3, <2>1 DEF Matching, AgentsMatch
<1> QED BY Zenon, <1>6, <1>7 DEF Matching

\* The steps of a login before it has a key pair: no agent can be asked.
LEMMA LoginMatching ==
    ASSUME agentFile' = None, \A a \in Agents : agents'[a].at # "spawned", chain'[disk'.host].api # None,
           cmd' = None \/ (cmd'.name = "li" /\ cmd'.pub = None /\ cmd'.priv = None /\ cmd'.sign = None)
    PROVE  Matching'
  BY Zenon DEF Matching, LoggedOut, AgentsMatch

LEMMA LoginStepMatching ==
    ASSUME ~SlowSpawn, KeysInv, Spawning, Matching,
           \/ SetAPIKey \/ SetEncryptionKeys \/ SetSigningKeys \/ StoreE2EEDeviceKey \/ SetDeviceWrappedE2EEKeys
    PROVE  Matching'
<1>0. RTypes /\ cmd # None /\ cmd.name = "li" /\ cmd.pc \in {"granted", "setup", "signing", "wrapped"}
  BY Zenon DEF KeysInv, SetAPIKey, SetEncryptionKeys, SetSigningKeys, StoreE2EEDeviceKey, SetDeviceWrappedE2EEKeys, Is
<1>1. agentFile' = None /\ \A a \in Agents : agents'[a].at # "spawned"
  <2>1. \A a \in Agents : agents[a].at # "spawned"
    BY Zenon, NobodyStarting DEF CommandStep
  <2>2. UNCHANGED <<agents, agentFile>>
    BY Zenon DEF SetAPIKey, SetEncryptionKeys, SetSigningKeys, StoreE2EEDeviceKey, SetDeviceWrappedE2EEKeys
  <2>3. agentFile = None
    BY <1>0 DEF Matching, LoggedOut
  <2> QED BY Zenon, <2>1, <2>2, <2>3
<1>2. cmd.pub = None /\ cmd.priv = None /\ cmd.sign = None
  BY <1>0 DEF Matching, AgentsMatch
<1>3. /\ cmd \in Sessions /\ cmd.cfg \in Configs /\ cmd.who \in Accounts /\ cmd.cfg.host = disk.host
      /\ cmd.who # None /\ cmd.cfg.host \in Hosts
  BY <1>0, SessionFacts, AccountsAssumption DEF KeysInv, CopyHolds, Configs
<1>4. cmd.pc = "granted" \/ chain[disk.host].api # None
  BY <1>0 DEF Matching, LoggedOut
<1>5. CASE SetAPIKey \/ SetEncryptionKeys \/ SetSigningKeys
  <2>1. PICK c \in Configs :
             /\ Save(c) /\ c.host = cmd.cfg.host /\ c.api \in {cmd.cfg.api, cmd.who}
             /\ cmd'.name = "li" /\ cmd'.pub = cmd.pub /\ cmd'.priv = cmd.priv /\ cmd'.sign = cmd.sign
             /\ cmd'.pc \in {"setup", "signing", "pair"} /\ (cmd'.pc = "setup" => c.api = cmd.who)
    BY Zenon, <1>0, <1>5, LoginSaves
  <2>2. chain'[disk'.host].api # None
    <3>1. SetAPIKey => c.api # None
      <4>1. ASSUME SetAPIKey PROVE cmd'.pc = "setup"
        BY <1>3, <4>1 DEF SetAPIKey, Sessions
      <4> QED BY Zenon, <1>3, <2>1, <4>1
    <3>2. ~SetAPIKey => cmd.pc # "granted"
      BY <1>5 DEF SetEncryptionKeys, SetSigningKeys, Is
    <3>3. disk'.host = c.host /\ chain'[c.host].api = IF c.api = None THEN chain[c.host].api ELSE c.api
      BY Zenon, <1>0, <2>1, SaveFacts
    <3> QED BY Zenon, <1>3, <1>4, <2>1, <3>1, <3>2, <3>3
  <2> QED BY Zenon, <1>1, <1>2, <2>1, <2>2, LoginMatching
<1>6. CASE StoreE2EEDeviceKey
  <2>1. UNCHANGED disk /\ cmd.pc # "granted" /\ chain' = [chain EXCEPT ![cmd.cfg.host].dev = wraps + 1]
    BY <1>6 DEF StoreE2EEDeviceKey, Is
  <2>2. chain'[disk'.host].api = chain[disk.host].api
    BY <1>0, <1>3, <2>1 DEF RTypes, SecretType
  <2>3. cmd'.name = cmd.name /\ cmd'.pub = cmd.pub /\ cmd'.priv = cmd.priv /\ cmd'.sign = cmd.sign
    BY <1>3, <1>6 DEF StoreE2EEDeviceKey, Goto, Sessions
  <2> QED BY Zenon, <1>0, <1>1, <1>2, <1>4, <2>1, <2>2, <2>3, LoginMatching
<1>7. CASE SetDeviceWrappedE2EEKeys
  <2> DEFINE c == [cmd.cfg EXCEPT !.keys = cmd.who, !.sign = cmd.who, !.wrap = wraps]
  <2>1. c \in Configs /\ c.host = cmd.cfg.host
    BY <1>0, <1>3 DEF Configs, RTypes, Maybe
  <2>2. Save(c) /\ cmd' = None
    BY Zenon, <1>7 DEF SetDeviceWrappedE2EEKeys, Exit
  <2>3. cmd.pc # "granted"
    BY <1>7 DEF SetDeviceWrappedE2EEKeys, Is
  <2> HIDE DEF c
  <2>4. chain'[disk'.host].api # None
    <3>1. disk'.host = c.host /\ chain'[c.host].api = IF c.api = None THEN chain[c.host].api ELSE c.api
      BY Zenon, <1>0, <2>1, <2>2, SaveFacts
    <3> QED BY Zenon, <1>3, <1>4, <2>1, <2>3, <3>1
  <2> QED BY Zenon, <1>1, <2>2, <2>4, LoginMatching
<1> QED BY Zenon, <1>5, <1>6, <1>7

\* A command ends, and the configuration keeps its keys.
LEMMA ExitMatching ==
    ASSUME RTypes, Matching, cmd' = None, disk'.keys = disk.keys, UNCHANGED agents,
           agentFile' \in {agentFile, None}, chain'[disk'.host].api = None => agentFile' = None
    PROVE  Matching'
<1>1. \A a \in Agents \cup {agentFile} : OfConfig(a) => OfConfig(a)'
  BY Zenon DEF OfConfig
<1>2. agentFile' # None => agentFile' = agentFile
  BY Zenon
<1> QED BY Zenon, <1>1, <1>2 DEF Matching, LoggedOut, AgentsMatch

LEMMA EndsMatching ==
    ASSUME KeysInv, KeysInv', Matching,
           SetCwd \/ carryDeviceKey \/ interruptCommand \/ StartAgentForKeys \/ ClearCachedKey
    PROVE  Matching'
<1>0. RTypes /\ cmd # None /\ cmd' = None /\ UNCHANGED agents /\ agentFile' \in {agentFile, None}
  BY Zenon DEF KeysInv, SetCwd, carryDeviceKey, interruptCommand, StartAgentForKeys, ClearCachedKey, Is, Exit, AfterAsking
<1>1. cmd \in Sessions /\ cmd.cfg \in Configs
  BY Zenon, <1>0, SessionFacts
<1>2. CASE SetCwd
  <2>1. cmd.cfg.keys = disk.keys /\ cmd.cfg.host = disk.host /\ Save(cmd.cfg) /\ cmd.name = "cd"
    BY <1>0, <1>2 DEF KeysInv, CopyHolds, SetCwd, Is
  <2>2. chain[disk.host].api # None
    BY <1>0, <2>1 DEF Matching, LoggedOut
  <2>3. disk'.keys = disk.keys /\ chain'[disk'.host].api # None
    <3> DEFINE c == cmd.cfg
    <3>1. /\ disk'.keys = c.keys /\ disk'.host = c.host
          /\ chain'[c.host].api = IF c.api = None THEN chain[c.host].api ELSE c.api
      BY Zenon, <1>0, <1>1, <2>1, SaveFacts
    <3> QED BY Zenon, <2>1, <2>2, <3>1
  <2> QED BY Zenon, <1>0, <2>3, ExitMatching
<1>3. CASE carryDeviceKey
  <2>1. UNCHANGED disk /\ chain' = IF cmd.dev = 0 THEN chain ELSE [chain EXCEPT ![disk.host].dev = cmd.dev]
    BY Zenon, <1>3 DEF carryDeviceKey, storeDeviceKey
  <2>2. chain'[disk'.host].api = chain[disk.host].api
    BY <1>0, <2>1 DEF RTypes, SecretType, Configs
  <2> QED BY Zenon, <1>0, <2>1, <2>2, ExitMatching DEF Matching, LoggedOut
<1>4. CASE interruptCommand \/ StartAgentForKeys \/ ClearCachedKey
  <2>1. UNCHANGED <<disk, chain>>
    BY Zenon, <1>4 DEF interruptCommand, StartAgentForKeys, ClearCachedKey, stores
  <2> QED BY Zenon, <1>0, <2>1, ExitMatching DEF Matching, LoggedOut
<1> QED BY Zenon, <1>2, <1>3, <1>4

LEMMA RequestMatches ==
    ASSUME RTypes, Matching
    PROVE  RequestKeys.priv \in {None, disk.keys} /\ RequestKeys.sign \in {None, disk.keys}
<1>1. CASE Answers
  <2>1. OfConfig(agentFile)
    BY Zenon, <1>1 DEF Answers, Matching, AgentsMatch
  <2> QED BY <1>1, <2>1 DEF RequestKeys, response, OfConfig
<1>2. CASE ~Answers
  BY <1>2 DEF RequestKeys
<1> QED BY Zenon, <1>1, <1>2

LEMMA PairMatching ==
    ASSUME KeysInv, Matching, keyPairLocked
    PROVE  Matching'
<1>0. RTypes /\ cmd # None
  BY Zenon, PairFacts DEF KeysInv
<1>1. UNCHANGED <<disk, chain, agents>> /\ agentFile' \in {agentFile, None}
  BY Zenon, PairFacts
<1>2. CASE cmd' = None
  BY Zenon, <1>0, <1>1, <1>2, SameAgents, CalmMatching
<1>3. CASE cmd' # None
  <2>1. /\ cmd'.cfg = cmd.cfg /\ cmd'.name = cmd.name /\ cmd'.pc \in {"used", "stop"}
        /\ cmd'.pub = cmd.cfg.keys /\ cmd'.priv \in {RequestKeys.priv, cmd.cfg.keys} \ {None}
        /\ cmd'.sign \in {None, RequestKeys.sign, cmd.cfg.keys}
    BY Zenon, <1>3, PairFacts
  <2>2. cmd.cfg.keys = disk.keys
    BY Zenon, <1>0 DEF KeysInv, CopyHolds
  <2>3. cmd'.priv = disk.keys /\ cmd'.pub = disk.keys /\ cmd'.sign \in {None, disk.keys}
    BY Zenon, <1>0, <2>1, <2>2, RequestMatches
  <2>4. {"used", "stop"} \cap Early = {} /\ "await" \notin {"pair", "start"}
    BY DEF Early
  <2>5. Paired(cmd')
    BY Zenon, <2>1, <2>3, <2>4 DEF Paired
  <2>6. cmd.pc # "await" /\ <<cmd.name, cmd.pc>> \notin Outside
    <3>1. cmd.pc = "pair" \/ (cmd.name = "use" /\ cmd.pc = "start")
      BY Zenon DEF keyPairLocked, Is
    <3> QED BY <3>1 DEF Outside
  <2> QED BY Zenon, <1>0, <1>1, <2>1, <2>5, <2>6, SameAgents, CalmMatching
<1> QED BY Zenon, <1>2, <1>3

LEMMA GotoMatching ==
    ASSUME KeysInv, Matching, pollDeviceToken \/ noKeySetup \/ IsRunning \/ signingKeysLocked
    PROVE  Matching'
<1>0. RTypes /\ cmd # None /\ cmd \in Sessions
  BY Zenon, SessionFacts DEF KeysInv, pollDeviceToken, noKeySetup, IsRunning, signingKeysLocked, Is
<1>1. UNCHANGED <<disk, chain, agents>> /\ agentFile' \in {agentFile, None}
  BY Zenon DEF pollDeviceToken, noKeySetup, IsRunning, signingKeysLocked, stores, AfterAsking
<1>2. CASE cmd' = None
  BY Zenon, <1>0, <1>1, <1>2, SameAgents, CalmMatching
<1>3. CASE cmd' # None
  <2>1. \E p \in {"granted", "pair", "stop", "signs"} :
          /\ cmd' = [cmd EXCEPT !.pc = p] /\ cmd.pc \in {"start", "setup", "used"}
          /\ p = "granted" => cmd.name = "li" /\ cmd.pc = "start"
          /\ p # "granted" => <<cmd.name, cmd.pc>> \notin Outside
    <3>1. CASE pollDeviceToken
      BY Zenon, <1>3, <3>1 DEF pollDeviceToken, Is, Goto, Exit
    <3>2. CASE noKeySetup
      <4>1. cmd' = [cmd EXCEPT !.pc = "pair"] /\ cmd.pc = "setup"
        BY Zenon, <1>3, <3>2 DEF noKeySetup, Is
      <4>2. <<cmd.name, cmd.pc>> \notin Outside
        BY <4>1 DEF Outside
      <4>3. "pair" # "granted" OBVIOUS
      <4> QED BY Zenon, <4>1, <4>2, <4>3
    <3>3. CASE IsRunning
      <4>1. (\E p \in {"pair", "stop"} : cmd' = [cmd EXCEPT !.pc = p]) /\ cmd.pc = "start" /\ cmd.name \in {"uk", "lk"}
        BY <1>3, <3>3 DEF IsRunning
      <4>2. <<cmd.name, cmd.pc>> \notin Outside
        BY <4>1 DEF Outside
      <4>3. "pair" # "granted" /\ "stop" # "granted" OBVIOUS
      <4> QED BY Zenon, <4>1, <4>2, <4>3
    <3>4. CASE signingKeysLocked
      <4>1. cmd' = [cmd EXCEPT !.pc = "signs"] /\ cmd.pc = "used"
        BY Zenon, <1>3, <3>4 DEF signingKeysLocked, Is, Goto, Exit
      <4>2. <<cmd.name, cmd.pc>> \notin Outside
        BY <4>1 DEF Outside
      <4>3. "signs" # "granted" OBVIOUS
      <4> QED BY Zenon, <4>1, <4>2, <4>3
    <3> QED BY Zenon, <3>1, <3>2, <3>3, <3>4
  <2>2. PICK p \in {"granted", "pair", "stop", "signs"} :
          /\ cmd' = [cmd EXCEPT !.pc = p] /\ cmd.pc \in {"start", "setup", "used"}
          /\ p = "granted" => cmd.name = "li" /\ cmd.pc = "start"
          /\ p # "granted" => <<cmd.name, cmd.pc>> \notin Outside
    BY Zenon, <2>1
  <2>3. /\ cmd'.pc = p /\ cmd'.cfg = cmd.cfg /\ cmd'.name = cmd.name
        /\ cmd'.pub = cmd.pub /\ cmd'.priv = cmd.priv /\ cmd'.sign = cmd.sign
    <3>1. p \in Pcs BY DEF Pcs
    <3> QED BY Zenon, <1>0, <2>2, <3>1, GotoFacts
  <2>4. cmd.pc # "await" /\ (cmd'.pc \in Early => cmd.pc \in Early)
    BY <2>2, <2>3 DEF Early
  <2>5. <<cmd.name, cmd.pc>> \in Outside => <<cmd'.name, cmd'.pc>> \in Outside
    BY Zenon, <2>2, <2>3 DEF Outside
  <2>6. Paired(cmd')
    BY Zenon, <1>0, <2>3, <2>4, SamePair
  <2> QED BY Zenon, <1>0, <1>1, <2>3, <2>4, <2>5, <2>6, SameAgents, CalmMatching
<1> QED BY Zenon, <1>2, <1>3

LEMMA StopMatching ==
    ASSUME KeysInv, Matching, stopAgent \/ stopLost
    PROVE  Matching'
<1>0. RTypes /\ cmd # None /\ agents \in [Agents -> AgentType]
  BY Zenon, StopFacts DEF KeysInv, RTypes
<1>1. UNCHANGED <<disk, chain>> /\ agentFile' = None
  BY Zenon, <1>0, StopFacts
<1>2. Kept
  <2>1. CASE Answers /\ agents' = Tell(agentFile)
    <3>1. agentFile \in Agents
      BY Zenon, <1>0, <2>1 DEF Answers, RTypes
    <3> QED BY <1>0, <2>1, <3>1 DEF Tell, Kept, AgentType
  <2> QED BY Zenon, <1>0, <2>1, StopFacts, SameAgents
<1>3. CASE cmd' = None
  BY Zenon, <1>0, <1>1, <1>2, <1>3, CalmMatching
<1>4. CASE cmd' # None
  <2>1. /\ cmd'.cfg = cmd.cfg /\ cmd'.name = cmd.name /\ cmd'.pc \in {"clear", "spawn"}
        /\ cmd'.pub = cmd.pub /\ cmd'.priv = cmd.priv /\ cmd'.sign = cmd.sign
    BY Zenon, <1>0, <1>4, StopFacts
  <2>2. cmd.pc = "stop" \/ (cmd.name = "lo" /\ cmd.pc = "start")
    BY Zenon DEF stopAgent, stopLost, Is
  <2>3. cmd.pc # "await" /\ <<cmd.name, cmd.pc>> \notin Outside /\ cmd'.pc \notin Early
    BY <2>1, <2>2 DEF Outside, Early
  <2>4. Paired(cmd')
    BY Zenon, <1>0, <2>1, <2>3, SamePair
  <2> QED BY Zenon, <1>0, <1>1, <1>2, <2>1, <2>3, <2>4, CalmMatching
<1> QED BY Zenon, <1>3, <1>4

LEMMA SpawnMatching ==
    ASSUME KeysInv, Spawning, Matching, SpawnBackground
    PROVE  Matching'
<1>0. RTypes /\ cmd # None /\ cmd.pc = "spawn" /\ agents \in [Agents -> AgentType]
  BY Zenon, SpawnFacts DEF KeysInv, RTypes
<1>1. UNCHANGED <<disk, chain>> /\ agentFile = None /\ agentFile' = None
  BY Zenon, <1>0, SpawnFacts DEF Spawning
<1>2. CASE cmd' = None /\ UNCHANGED agents
  BY Zenon, <1>0, <1>1, <1>2, SameAgents, CalmMatching
<1>3. CASE ~(cmd' = None /\ UNCHANGED agents)
  <2>1. /\ cmd'.cfg = cmd.cfg /\ cmd'.name = cmd.name /\ cmd'.pc = "await"
        /\ cmd'.pub = cmd.pub /\ cmd'.priv = cmd.priv /\ cmd'.sign = cmd.sign
    BY Zenon, <1>0, <1>3, SpawnFacts
  <2>2. PICK a \in Agents : \E r \in AgentType :
          agents' = [agents EXCEPT ![a] = r] /\ r.acct = cmd.priv /\ r.sign = cmd.sign
    BY Zenon, <1>0, <1>3, SpawnFacts
  <2>3. cmd.priv \in {None, disk.keys} /\ cmd.sign \in {None, disk.keys}
    BY Zenon, <1>0 DEF Matching, AgentsMatch
  <2>4. OfConfig(a)'
    BY Zenon, <1>0, <1>1, <2>2, <2>3 DEF OfConfig
  <2>5. \A b \in Agents : b # a => agents'[b] = agents[b]
    BY Zenon, <1>0, <2>2
  <2>6. \A b \in Agents : agents'[b].at = "spawned" => OfConfig(b)'
    BY Zenon, <1>1, <2>4, <2>5 DEF Matching, AgentsMatch, OfConfig
  <2>7. <<cmd.name, cmd.pc>> \notin Outside /\ "await" \notin Early
    BY <1>0 DEF Outside, Early
  <2>8. LoggedOut'
    BY Zenon, <1>0, <1>1, <2>1, <2>7 DEF Matching, LoggedOut, Outside
  <2>9. Paired(cmd')
    BY Zenon, <1>0, <2>1, <2>7, SamePair
  <2>10. AgentsMatch'
    BY Zenon, <1>1, <2>6, <2>9 DEF AgentsMatch, Paired, Early
  <2> QED BY Zenon, <2>8, <2>10 DEF Matching
<1> QED BY Zenon, <1>2, <1>3

LEMMA ClearMatching ==
    ASSUME ~SlowSpawn, KeysInv, Spawning, Matching, deleteSecrets \/ Clear
    PROVE  Matching'
<1>0. RTypes /\ cmd # None /\ cmd.name = "lo" /\ cmd.pc \in {"clear", "unlink"} /\ cmd \in Sessions
  BY Zenon, SessionFacts DEF KeysInv, deleteSecrets, Clear, Is
<1>1. agentFile = None /\ agentFile' = None /\ UNCHANGED agents
  BY <1>0 DEF Spawning, deleteSecrets, Clear
<1>2. \A a \in Agents : agents'[a].at # "spawned"
  BY Zenon, <1>1, NobodyStarting DEF CommandStep
<1>3. CASE Clear
  <2>1. cmd' = None
    BY Zenon, <1>3 DEF Clear, Exit
  <2> QED BY Zenon, <1>1, <1>2, <2>1 DEF Matching, LoggedOut, AgentsMatch
<1>4. CASE deleteSecrets
  <2>1. cmd' = [cmd EXCEPT !.pc = "unlink"] /\ UNCHANGED disk
    BY Zenon, <1>4 DEF deleteSecrets, Goto
  <2>2. /\ cmd'.pc = "unlink" /\ cmd'.cfg = cmd.cfg /\ cmd'.name = cmd.name
        /\ cmd'.pub = cmd.pub /\ cmd'.priv = cmd.priv /\ cmd'.sign = cmd.sign
    <3>1. "unlink" \in Pcs BY DEF Pcs
    <3> QED BY Zenon, <1>0, <2>1, <3>1, GotoFacts
  <2>3. "unlink" \notin Early
    BY DEF Early
  <2>4. Paired(cmd')
    BY Zenon, <1>0, <2>2, <2>3, SamePair
  <2>5. LoggedOut'
    BY Zenon, <1>0, <1>1, <2>2 DEF Matching, LoggedOut
  <2>6. AgentsMatch'
    BY Zenon, <1>1, <1>2, <2>1, <2>4 DEF AgentsMatch, Paired, Early
  <2> QED BY Zenon, <2>5, <2>6 DEF Matching
<1> QED BY Zenon, <1>3, <1>4

LEMMA EndpointMatching ==
    ASSUME KeysInv, Matching, SetEndpoint
    PROVE  Matching'
<1>0. RTypes /\ cmd # None /\ cmd.name = "endpoint" /\ cmd.pc = "start" /\ cmd \in Sessions /\ cmd.cfg \in Configs
  BY Zenon, SessionFacts DEF KeysInv, SetEndpoint, Is
<1>1. PICK h \in Hosts \ {cmd.cfg.host} :
        /\ disk' = [cmd.cfg EXCEPT !.host = h, !.api = None]
        /\ chain' = [chain EXCEPT ![cmd.cfg.host] = NoSecrets, ![h].api = cmd.cfg.api]
  BY Zenon DEF SetEndpoint
<1>2. UNCHANGED <<agents, agentFile>> /\ cmd' = [cmd EXCEPT !.dev = chain[cmd.cfg.host].dev, !.pc = "carry"]
  BY Zenon DEF SetEndpoint
<1>3. cmd.cfg.api # None /\ cmd.cfg.keys = disk.keys
  BY <1>0 DEF Matching, LoggedOut, KeysInv, CopyHolds
<1>4. disk'.keys = disk.keys /\ disk'.host = h
  BY <1>0, <1>1, <1>3 DEF Configs
<1>5. chain'[disk'.host].api # None
  BY <1>0, <1>1, <1>3, <1>4 DEF RTypes, SecretType
<1>6. /\ cmd'.pc = "carry" /\ cmd'.cfg = cmd.cfg /\ cmd'.name = cmd.name
      /\ cmd'.pub = cmd.pub /\ cmd'.priv = cmd.priv /\ cmd'.sign = cmd.sign
  BY <1>0, <1>2 DEF Sessions
<1>7. "carry" \notin Early /\ "endpoint" # "li"
  BY DEF Early
<1>8. Paired(cmd')
  BY Zenon, <1>0, <1>6, <1>7, SamePair
<1>9. LoggedOut'
  BY Zenon, <1>0, <1>3, <1>5, <1>6, <1>7 DEF LoggedOut
<1>10. AgentsMatch'
  <2>1. \A a \in Agents \cup {agentFile} : OfConfig(a) => OfConfig(a)'
    BY Zenon, <1>2, <1>4 DEF OfConfig
  <2> QED BY Zenon, <1>2, <1>4, <1>8, <2>1 DEF Matching, AgentsMatch, Paired, Early
<1> QED BY Zenon, <1>9, <1>10 DEF Matching

\* Types, the copy of the configuration and the device key: an inductive invariant of the
\* commands and the agents, whatever starts slowly and whoever logs in over whom.
THEOREM RInvariant == RSpec => []KeysInv
<1> QED BY RInitBase, BaseNext, PTL DEF RSpec

\* The configuration never holds the API key, which is the keychain's (SetAPIKey, Save), its
\* keys are of accounts, and so is what an agent or agent.json names.
THEOREM KeyringTypes == RSpec => []RTypeOK
<1>1. KeysInv => RTypeOK
  BY DEF KeysInv, RTypes, RTypeOK, Configs, AgentType, Maybe
<1> QED BY <1>1, RInvariant, PTL

\* SetEndpoint, StoreE2EEDeviceKey, config.Clear: outside a command that is between two of its
\* writes, or was cut off there, keys wrapped for this device can be unwrapped.
THEOREM DeviceKeysOpen == RSpec => []DeviceKeyOpens
<1>1. KeysInv => DeviceKeyOpens
  BY Zenon DEF KeysInv, DeviceKeyKept, DeviceKeyOpens
<1> QED BY <1>1, RInvariant, PTL

LEMMA RInitSpawning == RInit => Spawning
<1>1. RInit => \A a \in Agents : agents[a].at # "spawned"
  BY DEF RInit, NoAgent
<1> QED BY Zenon, <1>1 DEF RInit, Spawning

\* runLock and config.Clear: once locked, no command is given keys by an agent, if agents
\* start within the time their command waits for them (StartAgentForKeys' ten pings).
THEOREM LocksHold == ~SlowSpawn /\ RSpec => []LockHolds
<1> SUFFICES ASSUME ~SlowSpawn PROVE RSpec => []LockHolds
  OBVIOUS
<1>1. Spawning /\ KeysInv /\ KeysInv' /\ [RNext]_rvars => Spawning'
  <2> SUFFICES ASSUME Spawning, KeysInv, KeysInv', [RNext]_rvars PROVE Spawning'
    OBVIOUS
  <2>1. CASE UNCHANGED rvars
    BY Zenon, <2>1 DEF rvars, Spawning
  <2>2. CASE \E a \in Agents : AgentStep(a) \/ Kill(a)
    BY Zenon, <2>2, AgentSpawning DEF KeysInv
  <2> QED BY Zenon, <2>1, <2>2, CommandSpawning DEF RNext
<1>2. Spawning => LockHolds
  BY Zenon DEF Spawning, LockHolds, Answers
<1> QED BY <1>1, <1>2, RInitSpawning, RInvariant, PTL DEF RSpec

\* keyPairLocked: a session's private key and signing keys are of the account whose public key
\* it took from the configuration, if nobody logs in over another login and agents start in
\* time.
THEOREM KeyPairsMatch == ~Relogin /\ ~SlowSpawn /\ RSpec => []PairMatches
<1> SUFFICES ASSUME ~Relogin, ~SlowSpawn PROVE RSpec => []PairMatches
  OBVIOUS
<1> DEFINE Inv == Spawning /\ Matching
<1>1. RInit => Inv
  <2>1. RInit => \A a \in Agents : agents[a].at # "spawned"
    BY DEF RInit, NoAgent
  <2> QED BY Zenon, <2>1, RInitSpawning DEF RInit, Matching, LoggedOut, AgentsMatch
<1>2. Inv /\ KeysInv /\ KeysInv' /\ [RNext]_rvars => Inv'
  <2> SUFFICES ASSUME Spawning, Matching, KeysInv, KeysInv', [RNext]_rvars PROVE Spawning' /\ Matching'
    BY Zenon
  <2>1. CASE UNCHANGED rvars
    BY Zenon, <2>1 DEF rvars, Spawning, Matching, LoggedOut, AgentsMatch, OfConfig
  <2>2. CASE \E a \in Agents : AgentStep(a) \/ Kill(a)
    BY Zenon, <2>2, AgentSpawning, AgentMatching DEF KeysInv
  <2>3. CASE Start \/ CommandStep \/ stopLost \/ interruptCommand
    <3>1. Spawning'
      BY Zenon, <2>3, CommandSpawning
    <3>2. Matching'
      BY Zenon, <2>3, StartMatching, LoginStepMatching, EndsMatching, PairMatching, GotoMatching, StopMatching,
         SpawnMatching, ClearMatching, EndpointMatching DEF CommandStep
    <3> QED BY Zenon, <3>1, <3>2
  <2> QED BY Zenon, <2>1, <2>2, <2>3 DEF RNext
<1>3. Inv => PairMatches
  BY Zenon DEF Matching, AgentsMatch, PairMatches
<1> HIDE DEF Inv
<1> QED BY <1>1, <1>2, <1>3, RInvariant, PTL DEF RSpec

==============================================================================
