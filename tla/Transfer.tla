------------------------------ MODULE Transfer ------------------------------
(***************************************************************************)
(* `pc ul`: workers take the files of a directory from a queue, seal        *)
(* each one, and send it, whole or in chunks, through three nested retries: *)
(* the request (withRetry, withUploadRetry), the rate limit they share      *)
(* (uploadHonouringRateLimit) and the seal (sendResealingOnce).  The server *)
(* is external: it takes a request or not, its answer arrives or not, and a *)
(* request that its sender gave up can still arrive.                        *)
(***************************************************************************)
EXTENDS Integers, Sequences, FiniteSets, Absent

CONSTANTS
    Workers,        \* --jobs
    Files,
    Large,          \* the files above uploadSingleBodyMaxBytes
    Chunks,         \* the number of chunks of a file
    Attempts,       \* len(retryDelays) + 1
    ChunkAttempts,  \* chunkUploadRetries
    RateRetries,    \* ulRateLimitRetries
    BudgetWaits,    \* scanBudgetMaxWaits
    ScanWaits,      \* bound: waits for a scan before its deadline passes
    MaxTrouble      \* bound: answers that are not a success

ASSUME ChunksAssumption == Chunks \in Nat \ {0}
ASSUME AttemptsAssumption == Attempts \in Nat \ {0} /\ ChunkAttempts \in Nat \ {0}
ASSUME RetriesAssumption == RateRetries \in Nat /\ BudgetWaits \in Nat /\ ScanWaits \in Nat
ASSUME LargeAssumption == Large \subseteq Files
ASSUME FilesAssumption == IsFiniteSet(Files) /\ None \notin Files

VARIABLES
    phase,      \* of the command: directories, files, given up
    flags,      \* --force and --skip-existing
    queue,      \* the channel of files
    job,        \* per worker: where it is with its file
    seals,      \* per file: how often it was sealed
    result,     \* per file: how it was counted
    held,       \* the rate limit gate is held
    session,    \* Client.session: the web session the workers share
    keys,       \* idempotency keys minted
    ids,        \* chunk upload ids minted
    cancelled,  \* the command's context
    stored,     \* server: versions, one for each idempotency key
    before,     \* server: files that were there before
    parts,      \* server: chunks it has, with the session and upload they belong to
    late,       \* requests that were given up and are still under way
    trouble     \* answers so far that were not a success

server == <<stored, before, parts, late>>
tvars == <<phase, flags, queue, job, seals, result, held, session, keys, ids, cancelled, server, trouble>>

\* rate, try, waits and budget count the retries; why is the error to be handled.
NoJob == [pc |-> "idle", file |-> None, key |-> 0, rate |-> 0, try |-> 0, id |-> 0,
          index |-> 0, sess |-> 0, fresh |-> FALSE, waits |-> 0, budget |-> 0, why |-> "none"]

-----------------------------------------------------------------------------
(* Answers.                                                                 *)

\* A request that the server took: its answer comes, or is lost.  One it did not take:
\* lost, refused, or (stallGuard, timeouts) given up while it is still under way.
\* A finalise whose scan still runs is answered "pending".
Refusals(kind) ==
    {"transient", "rate", "budget", "permanent", "declined", "stale", "busy"}
    \cup (IF kind = "whole" THEN {"toolarge"} ELSE {})
    \cup (IF kind = "final" THEN {"pending"} ELSE {})

\* isTransient: what the same request is sent again for.
isTransient(why) == why \in {"lost", "transient", "stale", "busy"}
\* withUploadRetryStatus also waits out a rate limit; a refusal in a 200 answer
\* ("declined"), a spent scan budget and a busy scanner are the caller's.
uploadRetryable(why) == why \in {"lost", "transient", "stale", "rate"}
\* IsRateLimited: 429, with the scan budget's own code or without.
IsRateLimited(why) == why \in {"rate", "budget"}
IsPermanent(why) == why \in {"permanent", "toolarge"}

Versions(f) == {v \in stored : v.file = f}
Has(key) == \E v \in stored : v.key = key
Exists(f) == f \in before \/ Versions(f) # {}

\* What the server does with a request it takes.
Complete(r) == \A i \in 0 .. Chunks - 1 : <<r.sess, r.id, i>> \in parts
Taken(r) == \/ r.kind = "chunk"
            \/ Has(r.key)
            \/ r.kind = "whole"
            \/ r.kind = "final" /\ Complete(r) /\ ~(flags.force /\ Exists(r.file))
Effect(r) ==
    /\ parts' = IF r.kind = "chunk" THEN parts \cup {<<r.sess, r.id, r.index>>} ELSE parts
    /\ stored' = IF r.kind = "chunk" \/ Has(r.key) THEN stored
                 ELSE stored \cup {[file |-> r.file, key |-> r.key]}
    /\ UNCHANGED before

Request(w, kind) ==
    LET j == job[w] IN
    [kind |-> kind, file |-> j.file, key |-> j.key, sess |-> j.sess, id |-> j.id,
     index |-> j.index]

\* stallGuard, timeouts: the client gives the request up, which may be under way still.
GivenUp(r) ==
    /\ trouble < MaxTrouble /\ trouble' = trouble + 1
    /\ late' \in {late, late \cup {r}}
    /\ UNCHANGED <<stored, before, parts>>

\* One request of worker w; Then(why) says what the worker does with the outcome.
Exchange(w, r, Then(_)) ==
    \/ /\ Taken(r) /\ Effect(r) /\ UNCHANGED late
       /\ \/ Then("none") /\ UNCHANGED trouble
          \/ trouble < MaxTrouble /\ trouble' = trouble + 1 /\ Then("lost")
    \/ /\ trouble < MaxTrouble /\ trouble' = trouble + 1
       /\ \E why \in Refusals(r.kind) : Then(why)
       /\ UNCHANGED server
    \/ GivenUp(r) /\ Then("lost")
    \/ /\ ~Taken(r) /\ Then("permanent") /\ UNCHANGED <<server, trouble>>

LateArrives ==
    /\ \E r \in late : /\ late' = late \ {r}
                       /\ IF Taken(r) THEN Effect(r) ELSE UNCHANGED <<stored, before, parts>>
    /\ UNCHANGED <<phase, flags, queue, job, seals, result, held, session, keys, ids, cancelled, trouble>>

-----------------------------------------------------------------------------
(* A worker.                                                                *)

At(w, pc) == job[w].pc = pc
Set(w, j) == job' = [job EXCEPT ![w] = j]
Go(w, pc) == Set(w, [job[w] EXCEPT !.pc = pc])
Fail(w, why) == Set(w, [job[w] EXCEPT !.pc = "failed", !.why = why])

\* runRecursiveUpload makes the directories; without the root it ends.
ensureRemoteDir ==
    /\ phase = "dirs"
    /\ \/ phase' = "run" /\ UNCHANGED trouble
       \/ phase' = "exit" /\ trouble < MaxTrouble /\ trouble' = trouble + 1
    /\ UNCHANGED <<flags, queue, job, seals, result, held, session, keys, ids, cancelled, server>>

\* The next file of the channel.
uploadOne(w) ==
    /\ phase = "run" /\ At(w, "idle") /\ queue # <<>>
    /\ Set(w, [NoJob EXCEPT !.pc = "exists", !.file = Head(queue)])
    /\ queue' = Tail(queue)
    /\ UNCHANGED <<phase, flags, seals, result, held, session, keys, ids, cancelled, server, trouble>>

Count(w, r) == /\ result' = [result EXCEPT ![job[w].file] = r]
               /\ Set(w, NoJob)

\* alreadyUploaded asks for the file; an answer that does not come counts as no.
alreadyUploaded(w) ==
    LET f == job[w].file IN
    /\ At(w, "exists")
    /\ \/ flags.skip /\ Exists(f) /\ Count(w, "skipped")
       \/ cancelled /\ Count(w, "failed")
       \/ ~cancelled /\ (flags.skip => ~Exists(f)) /\ Go(w, "seal") /\ UNCHANGED result
       \/ /\ ~cancelled /\ trouble < MaxTrouble /\ flags.skip /\ Exists(f)
          /\ Go(w, "seal") /\ UNCHANGED result
    /\ UNCHANGED <<phase, flags, queue, seals, held, session, keys, ids, cancelled, server, trouble>>

\* sealForUpload: encrypted under a new data key, sealed to the scanner's keys, signed.
\* forceCollisionBlocked: a forced upload in chunks must not meet the file.
sealForUpload(w) ==
    LET f == job[w].file IN
    /\ At(w, "seal")
    /\ seals' = [seals EXCEPT ![f] = @ + 1]
    /\ Go(w, IF flags.force /\ f \in Large /\ Exists(f) THEN "failed" ELSE "send")
    /\ UNCHANGED <<phase, flags, queue, result, held, session, keys, ids, cancelled, server, trouble>>

\* uploadHonouringRateLimit: one idempotency key for all its attempts.
send(w) ==
    /\ At(w, "send")
    /\ keys' = keys + 1
    /\ Set(w, [job[w] EXCEPT !.pc = "gate", !.key = keys + 1, !.rate = 0])
    /\ UNCHANGED <<phase, flags, queue, seals, result, held, session, ids, cancelled, server, trouble>>

Upload_NewKey(w) ==
    /\ At(w, "gate")
    /\ IF cancelled THEN Fail(w, "cancelled") /\ UNCHANGED keys
       ELSE /\ ~held /\ keys' = keys + 1
            /\ Set(w, [job[w] EXCEPT !.pc = IF job[w].file \in Large THEN "session" ELSE "whole",
                                     !.try = 1, !.key = keys + 1])
    /\ UNCHANGED <<phase, flags, queue, seals, result, held, session, ids, cancelled, server, trouble>>

\* rateLimitGate.wait, then Upload: whole, or in chunks.
Upload(w) ==
    /\ At(w, "gate")
    /\ IF cancelled THEN Fail(w, "cancelled")
       ELSE /\ ~held
            /\ Set(w, [job[w] EXCEPT !.pc = IF job[w].file \in Large THEN "session" ELSE "whole",
                                     !.try = 1])
    /\ UNCHANGED <<phase, flags, queue, seals, result, held, session, keys, ids, cancelled, server, trouble>>

\* uploadWholeBody under withRetry; a proxy that refuses the size sends it in chunks.
uploadWholeBody(w) ==
    LET Then(why) ==
            Set(w, IF why = "none" THEN [job[w] EXCEPT !.pc = "done"]
                   ELSE IF why = "toolarge" THEN [job[w] EXCEPT !.pc = "session"]
                   ELSE IF isTransient(why) /\ job[w].try < Attempts
                   THEN [job[w] EXCEPT !.try = @ + 1]
                   ELSE [job[w] EXCEPT !.pc = "error", !.why = why])
    IN  /\ At(w, "whole")
        /\ IF cancelled THEN Fail(w, "cancelled") /\ UNCHANGED <<server, trouble>>
           ELSE Exchange(w, Request(w, "whole"), Then)
        /\ UNCHANGED <<phase, flags, queue, seals, result, held, session, keys, ids, cancelled>>

newChunkSessionID_Reused(fresh) == UNCHANGED ids
\* uploadChunked mints an id, which a refresh of the session keeps.
newChunkSessionID(fresh) == ids' = IF fresh THEN ids ELSE ids + 1

\* uploadSession: the workers share a session; a refresh replaces it for all of them.
uploadSession(w) ==
    LET j == job[w]
        Use(s) == IF j.fresh THEN [j EXCEPT !.pc = "chunk", !.sess = s, !.try = 1]
                  ELSE [j EXCEPT !.pc = "chunk", !.sess = s, !.id = ids + 1, !.index = 0,
                                 !.try = 1]
    IN  /\ At(w, "session")
        /\ \/ cancelled /\ Fail(w, "cancelled") /\ UNCHANGED <<session, ids, trouble>>
           \/ /\ ~cancelled
              /\ session' = IF session = 0 \/ j.fresh THEN session + 1 ELSE session
              /\ Set(w, Use(session'))
              /\ newChunkSessionID(j.fresh)
              /\ UNCHANGED trouble
           \/ /\ ~cancelled /\ (session = 0 \/ j.fresh)
              /\ trouble < MaxTrouble /\ trouble' = trouble + 1
              /\ \E why \in {"transient", "rate", "permanent"} :
                     Set(w, [j EXCEPT !.pc = "error", !.why = why])
              /\ UNCHANGED <<session, ids>>
        /\ UNCHANGED <<phase, flags, queue, seals, result, held, keys, cancelled, server>>

Refreshable_AnyChunk(j, why) == IsPermanent(why) /\ ~j.fresh
\* The first chunk can find that the session has ended: it is opened again, once.
Refreshable(j, why) == IsPermanent(why) /\ j.index = 0 /\ ~j.fresh

uploadChunked(w) ==
    LET j == job[w]
        Then(why) ==
            Set(w, IF why = "none"
                   THEN [j EXCEPT !.pc = IF j.index + 1 < Chunks THEN "chunk" ELSE "final",
                                  !.index = @ + 1, !.try = 1, !.waits = 0, !.budget = 0]
                   ELSE IF uploadRetryable(why) /\ j.try < ChunkAttempts
                   THEN [j EXCEPT !.try = @ + 1]
                   ELSE IF Refreshable(j, why) THEN [j EXCEPT !.pc = "session", !.fresh = TRUE]
                   ELSE [j EXCEPT !.pc = "error", !.why = why])
    IN  /\ At(w, "chunk")
        /\ IF cancelled THEN Fail(w, "cancelled") /\ UNCHANGED <<server, trouble>>
           ELSE Exchange(w, Request(w, "chunk"), Then)
        /\ UNCHANGED <<phase, flags, queue, seals, result, held, session, keys, ids, cancelled>>

\* finalizeChunkedUpload: waits for a scan that runs or is postponed, until its deadline.
finalizeChunkedUpload(w) ==
    LET j == job[w]
        Then(why) ==
            Set(w, IF why = "none" THEN [j EXCEPT !.pc = "done"]
                   ELSE IF why \in {"pending", "busy"}
                   THEN IF j.waits < ScanWaits THEN [j EXCEPT !.waits = @ + 1, !.try = 1]
                        ELSE [j EXCEPT !.pc = "error", !.why = "transient"]
                   ELSE IF why = "budget" /\ j.budget < BudgetWaits
                   THEN [j EXCEPT !.budget = @ + 1, !.try = 1]
                   ELSE IF uploadRetryable(why) /\ j.try < ChunkAttempts
                   THEN [j EXCEPT !.try = @ + 1]
                   ELSE [j EXCEPT !.pc = "error", !.why = why])
    IN  /\ At(w, "final")
        /\ IF cancelled THEN Fail(w, "cancelled") /\ UNCHANGED <<server, trouble>>
           ELSE Exchange(w, Request(w, "final"), Then)
        /\ UNCHANGED <<phase, flags, queue, seals, result, held, session, keys, ids, cancelled>>

\* MayBeStaleTeeSeal and, within sendResealingOnce, the first time; whether the seal is
\* stale is TeeKeys' TeeSealWentStale.
teeSealWentStale(j) == j.why = "stale" /\ seals[j.file] = 1

\* Upload returned an error: a rate limit holds the gate for all and is tried again; a
\* seal the scanner no longer opens is made again; anything else ends the file.
retryOrGiveUp(w) ==
    LET j == job[w] IN
    /\ At(w, "error")
    /\ \/ /\ IsRateLimited(j.why) /\ j.rate < RateRetries
          /\ Set(w, [j EXCEPT !.pc = "gate", !.rate = @ + 1, !.fresh = FALSE])
          /\ held' = TRUE
       \/ /\ ~(IsRateLimited(j.why) /\ j.rate < RateRetries)
          /\ \/ Fail(w, j.why)
             \/ teeSealWentStale(j)
                /\ Set(w, [NoJob EXCEPT !.pc = "reseal", !.file = j.file])
          /\ UNCHANGED held
    /\ UNCHANGED <<phase, flags, queue, seals, result, session, keys, ids, cancelled, server, trouble>>

\* sendResealingOnce: sealed again to the scanner's present keys and sent as a new upload.
sendResealingOnce(w) ==
    LET f == job[w].file IN
    /\ At(w, "reseal")
    /\ seals' = [seals EXCEPT ![f] = @ + 1]
    /\ Go(w, "send")
    /\ UNCHANGED <<phase, flags, queue, result, held, session, keys, ids, cancelled, server, trouble>>

counts_Successes(w) ==
    /\ \/ At(w, "done") /\ Count(w, "uploaded")
       \/ At(w, "failed") /\ Set(w, NoJob) /\ UNCHANGED result
    /\ UNCHANGED <<phase, flags, queue, seals, held, session, keys, ids, cancelled, server, trouble>>

\* The counts of the command.
counts(w) ==
    /\ \/ At(w, "done") /\ Count(w, "uploaded")
       \/ At(w, "failed") /\ Count(w, "failed")
    /\ UNCHANGED <<phase, flags, queue, seals, held, session, keys, ids, cancelled, server, trouble>>

\* The time the gate was held until passes.
GateOpens ==
    /\ held /\ held' = FALSE
    /\ UNCHANGED <<phase, flags, queue, job, seals, result, session, keys, ids, cancelled, server,
                   trouble>>

\* The user interrupts the command.
Interrupt ==
    /\ ~cancelled /\ trouble < MaxTrouble /\ cancelled' = TRUE
    /\ UNCHANGED <<phase, flags, queue, job, seals, result, held, session, keys, ids, server, trouble>>

-----------------------------------------------------------------------------
(* The specification.                                                       *)

Flags == [force : BOOLEAN, skip : BOOLEAN]
Orders == {q \in [1 .. Cardinality(Files) -> Files] : {q[i] : i \in DOMAIN q} = Files}

\* One file, sent by the command itself, or the files of a directory.
runUpload == /\ phase = "run" /\ queue \in {<<f>> : f \in Files}
             /\ result = [f \in Files |-> IF f = Head(queue) THEN "pending" ELSE "skipped"]
runRecursiveUpload == /\ phase = "dirs" /\ queue \in Orders
                      /\ result = [f \in Files |-> "pending"]

TInit ==
    /\ runUpload \/ runRecursiveUpload
    /\ flags \in Flags /\ job = [w \in Workers |-> NoJob] /\ seals = [f \in Files |-> 0]
    /\ held = FALSE /\ session = 0 /\ keys = 0 /\ ids = 0 /\ cancelled = FALSE
    /\ stored = {} /\ before \in {{}, Files} /\ parts = {} /\ late = {} /\ trouble = 0

Work(w) == \/ uploadOne(w) \/ alreadyUploaded(w) \/ sealForUpload(w) \/ send(w) \/ Upload(w)
           \/ uploadWholeBody(w) \/ uploadSession(w) \/ uploadChunked(w)
           \/ finalizeChunkedUpload(w) \/ retryOrGiveUp(w) \/ sendResealingOnce(w) \/ counts(w)

TNext == \/ ensureRemoteDir \/ LateArrives \/ GateOpens \/ Interrupt
         \/ \E w \in Workers : Work(w)

TSpec == TInit /\ [][TNext]_tvars
\* Each worker is a goroutine, the gate opens with time, requests time out.
TFairness == /\ WF_tvars(ensureRemoteDir) /\ WF_tvars(GateOpens)
             /\ \A w \in Workers : WF_tvars(Work(w))

-----------------------------------------------------------------------------
(* Properties.                                                              *)

\* The type invariant.
TTypeOK ==
    /\ phase \in {"dirs", "run", "exit"} /\ flags \in Flags
    /\ \A i \in DOMAIN queue : queue[i] \in Files
    /\ \A w \in Workers :
           /\ job[w].file \in Files \cup {None}
           /\ job[w].key \in 0 .. keys /\ job[w].id \in 0 .. ids /\ job[w].sess \in 0 .. session
           /\ job[w].rate \in 0 .. RateRetries /\ job[w].index \in 0 .. Chunks
           /\ job[w].try \in 0 .. Attempts + ChunkAttempts
    /\ seals \in [Files -> 0 .. 2]
    /\ result \in [Files -> {"pending", "uploaded", "failed", "skipped"}]

\* finalizeChunkedUpload is sent only when the server has every chunk of that upload, in
\* the session it is sent in: across retries, a refresh of the session that another
\* worker shares, and rate limits that start the upload over.
FinaliseComplete ==
    \A w \in Workers : At(w, "final") => Complete(Request(w, "final"))

\* The command implements Delivery: one version for each seal of a file however often
\* it is sent, one result for each file, and "uploaded" only for what the server has.
D == INSTANCE Delivery WITH Seals <- 2, sealed <- seals,
                            versions <- [f \in Files |-> Cardinality(Versions(f))]
DeliveryRefined == D!DSpec

\* run() returns with every file counted, unless the command ended before it began.
AllCounted == <>(phase = "exit" \/ \A f \in Files : result[f] # "pending")
=============================================================================
