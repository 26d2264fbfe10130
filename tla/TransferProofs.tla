--------------------------- MODULE TransferProofs ---------------------------
(***************************************************************************)
(* What Transfer keeps for any number of workers, files, chunks, retries    *)
(* and faults: a finalise call is sent only for a complete upload, and the  *)
(* command implements Delivery.  What Download keeps, for any folder and    *)
(* any number of retries.  The counters of both stay within their limits.   *)
(***************************************************************************)
EXTENDS Transfer, Download, FiniteSetTheorems, TLAPS

-----------------------------------------------------------------------------
(* The inductive invariant.                                                 *)

JobFields == {"pc", "file", "key", "rate", "try", "id", "index", "sess", "fresh", "waits",
              "budget", "why"}
Keyed == {"gate", "whole", "session", "chunk", "final", "error", "done"}
Unkeyed == {"exists", "seal", "send", "reseal", "failed"}
Owns(w) == job[w].pc # "idle"

\* The types the steps below need.
Shape ==
    /\ keys \in Nat /\ queue \in Seq(Files)
    /\ seals \in [Files -> 0 .. 2]
    /\ result \in [Files -> {"pending", "uploaded", "failed", "skipped"}]
    /\ stored \subseteq [file : Files, key : 1 .. keys]
    /\ \A r \in late : r.file \in Files /\ r.key \in 1 .. keys
    /\ DOMAIN job = Workers
    /\ \A w \in Workers : /\ DOMAIN job[w] = JobFields
                          /\ job[w].pc \in Keyed \cup Unkeyed \cup {"idle"}
                          /\ job[w].key \in 0 .. keys
                          /\ job[w].fresh \in BOOLEAN /\ job[w].index \in Nat
                          /\ job[w].pc = "idle" => job[w] = NoJob
                          /\ job[w].pc # "idle" => job[w].file \in Files

\* A file is in the queue once, or with one worker, and then it is not counted yet.
Owned ==
    /\ \A i \in 1 .. Len(queue) : result[queue[i]] = "pending" /\ seals[queue[i]] = 0
    /\ \A i, j \in 1 .. Len(queue) : queue[i] = queue[j] => i = j
    /\ \A w \in Workers : Owns(w) => /\ result[job[w].file] = "pending"
                                     /\ \A i \in 1 .. Len(queue) : queue[i] # job[w].file
    /\ \A v, w \in Workers : Owns(v) /\ Owns(w) /\ job[v].file = job[w].file => v = w

\* Where a worker is says how often its file was sealed and what the server has.
Stage(w) ==
    /\ job[w].pc \in {"exists", "seal"} => seals[job[w].file] = 0
    /\ job[w].pc = "reseal" => seals[job[w].file] = 1
    /\ job[w].pc \in Keyed => job[w].key # 0
    /\ job[w].pc = "done" => Versions(job[w].file) # {}

\* The chunks before the worker's index are with the server.
Sent(w) ==
    /\ job[w].fresh => job[w].pc \notin {"exists", "seal", "reseal", "send", "gate", "whole"}
    /\ job[w].pc = "session" /\ job[w].fresh => job[w].index = 0
    /\ job[w].pc = "chunk" => job[w].index < Chunks
    /\ job[w].pc = "final" => job[w].index = Chunks
    /\ job[w].pc \in {"chunk", "final"} =>
           \A i \in 0 .. job[w].index - 1 : <<job[w].sess, job[w].id, i>> \in parts

\* An idempotency key belongs to one file.
KeyFile ==
    /\ \A a, b \in stored \cup late : a.key = b.key => a.file = b.file
    /\ \A w \in Workers, a \in stored \cup late : job[w].key = a.key => job[w].file = a.file
    /\ \A v, w \in Workers : job[v].key = job[w].key /\ job[w].key # 0 => v = w

\* The versions of f there are or can still be, one for each key in use, never
\* outnumber its seals; a seal that is not sent yet has no key.
Pair(f, k) == [file |-> f, key |-> k]
Possible(f) ==
    {v \in [file : {f}, key : 1 .. keys] :
        \/ v \in stored
        \/ \E r \in late : r.file = f /\ r.key = v.key
        \/ \E w \in Workers : job[w].file = f /\ job[w].key = v.key}
Counted(f) ==
    /\ IsFiniteSet(Possible(f)) /\ Cardinality(Possible(f)) <= seals[f]
    /\ \A w \in Workers : job[w].pc = "send" /\ job[w].file = f
                          => Cardinality(Possible(f)) < seals[f]

TInv == /\ Shape /\ Owned /\ KeyFile
        /\ \A w \in Workers : Stage(w) /\ Sent(w)
        /\ \A f \in Files : Counted(f)

-----------------------------------------------------------------------------
(* The initial states.                                                      *)

\* A queue that holds every file of a directory holds each one once.
LEMMA OrdersInjective ==
    ASSUME NEW q \in Orders
    PROVE  q \in Seq(Files) /\ Len(q) = Cardinality(Files)
           /\ \A i, j \in 1 .. Len(q) : q[i] = q[j] => i = j
<1> DEFINE n == Cardinality(Files)
<1>1. n \in Nat /\ IsFiniteSet(Files) BY Zenon, FilesAssumption, FS_CardinalityType
<1>2. IsFiniteSet(1 .. n) /\ Cardinality(1 .. n) = n
  <2>1. Cardinality(1 .. n) = IF 1 > n THEN 0 ELSE n - 1 + 1 BY <1>1, FS_Interval
  <2>2. IsFiniteSet(1 .. n) BY <1>1, FS_Interval
  <2> QED BY <2>1, <2>2, <1>1
<1>3. q \in [1 .. n -> Files] /\ {q[i] : i \in 1 .. n} = Files BY Zenon DEF Orders
<1>4. q \in Surjection(1 .. n, Files) BY Zenon, <1>3 DEF Surjection, Range
<1>5. q \in Injection(1 .. n, Files) BY Zenon, <1>2, <1>4, FS_SurjSameCardinalityImpliesInj
<1>6. q \in Seq(Files) /\ Len(q) = n BY <1>1, <1>3
<1> QED BY Zenon, <1>5, <1>6 DEF Injection, IsInjective

LEMMA TInitInv == TInit => TInv
<1> SUFFICES ASSUME TInit PROVE TInv
  BY Zenon
<1>1. /\ queue \in Seq(Files) /\ \A i, j \in 1 .. Len(queue) : queue[i] = queue[j] => i = j
      /\ result \in [Files -> {"pending", "skipped"}]
      /\ \A i \in 1 .. Len(queue) : result[queue[i]] = "pending"
  <2>1. CASE runUpload
    <3>1. PICK f \in Files : queue = <<f>> BY Zenon, <2>1 DEF runUpload
    <3>2. result = [g \in Files |-> IF g = f THEN "pending" ELSE "skipped"]
      BY <2>1, <3>1 DEF runUpload
    <3> QED BY <3>1, <3>2
  <2>2. CASE runRecursiveUpload BY <2>2, OrdersInjective DEF runRecursiveUpload
  <2> QED BY Zenon, <2>1, <2>2 DEF TInit
<1>2. Shape
  <2>1. \A w \in Workers : job[w] = NoJob /\ DOMAIN job = Workers BY Zenon DEF TInit
  <2>2. /\ DOMAIN NoJob = JobFields /\ NoJob.pc = "idle" /\ NoJob.key = 0 /\ NoJob.index = 0
        /\ NoJob.fresh \in BOOLEAN
    BY Zenon DEF NoJob, JobFields
  <2>3. keys = 0 /\ stored = {} /\ late = {} /\ seals = [f \in Files |-> 0] BY Zenon DEF TInit
  <2>4. DOMAIN job = Workers BY Zenon DEF TInit
  <2>5. /\ keys \in Nat /\ seals \in [Files -> 0 .. 2] /\ stored \subseteq [file : Files, key : 1 .. keys]
        /\ \A r \in late : r.file \in Files /\ r.key \in 1 .. keys
    BY <2>3
  <2>6. result \in [Files -> {"pending", "uploaded", "failed", "skipped"}] BY Zenon, <1>1
  <2>7. ASSUME NEW w \in Workers
        PROVE  /\ DOMAIN job[w] = JobFields
               /\ job[w].pc \in Keyed \cup Unkeyed \cup {"idle"}
               /\ job[w].key \in 0 .. keys
               /\ job[w].fresh \in BOOLEAN /\ job[w].index \in Nat
               /\ job[w].pc = "idle" => job[w] = NoJob
               /\ job[w].pc # "idle" => job[w].file \in Files
    BY <2>1, <2>2, <2>3
  <2> QED BY Zenon, <1>1, <2>4, <2>5, <2>6, <2>7 DEF Shape
<1>3. Owned BY <1>1 DEF Owned, Owns, TInit, NoJob
<1>4. KeyFile BY Zenon DEF KeyFile, TInit, NoJob
<1>5. \A w \in Workers : Stage(w) /\ Sent(w) BY Zenon DEF Stage, Sent, TInit, NoJob, Keyed
<1>6. ASSUME NEW f \in Files PROVE Counted(f)
  <2>1. Possible(f) = {} BY DEF Possible, TInit, NoJob
  <2> QED BY <2>1, FS_EmptySet DEF Counted, TInit, NoJob
<1> QED BY Zenon, <1>2, <1>3, <1>4, <1>5, <1>6 DEF TInv

-----------------------------------------------------------------------------
(* A step of worker w on the file it has: what changes, and what it must    *)
(* leave true for the others.                                               *)

\* What a request of w can change on the server: a version under its key, a chunk, a
\* request under way.
Serves(w) ==
    /\ stored' \in {stored, stored \cup {Pair(job[w].file, job[w].key)}}
    /\ \A r \in late' : r \in late \/ (r.file = job[w].file /\ r.key = job[w].key)
    /\ parts \subseteq parts'
    /\ <<stored, late>>' # <<stored, late>> => job[w].key # 0

\* The key and the seals of w's file: kept, sealed once more, or the key of a seal.
Keeps(w, j) == keys' = keys /\ j.key \in {0, job[w].key} /\ seals' = seals
               /\ (j.pc = "send" => job[w].pc = "send")
Seals(w, j) == keys' = keys /\ j.key = job[w].key
               /\ seals[job[w].file] < 2
               /\ seals' = [seals EXCEPT ![job[w].file] = @ + 1]
Mints(w, j) == keys' = keys + 1 /\ j.key = keys' /\ seals' = seals /\ job[w].pc = "send"
               /\ j.pc # "send"

\* One more element.
LEMMA AddOne ==
    ASSUME NEW S, IsFiniteSet(S), NEW x
    PROVE  /\ IsFiniteSet(S \cup {x}) /\ Cardinality(S \cup {x}) <= Cardinality(S) + 1
           /\ Cardinality(S \cup {x}) \in Nat
<1>1. Cardinality(S) \in Nat BY Zenon, FS_CardinalityType
<1>2. IsFiniteSet(S \cup {x}) BY Zenon, FS_AddElement
<1>3. \/ Cardinality(S \cup {x}) = Cardinality(S)
      \/ Cardinality(S \cup {x}) = Cardinality(S) + 1
  BY Zenon, FS_AddElement
<1> QED BY <1>1, <1>2, <1>3

\* Worker w goes to j with the file it has, and what follows for job, the seals and the
\* server's state.
WStep(w, j) ==
    /\ Owns(w) /\ Set(w, j)
    /\ DOMAIN j = JobFields /\ j.pc \in Keyed \cup Unkeyed /\ j.file = job[w].file
    /\ j.fresh \in BOOLEAN /\ j.index \in Nat
    /\ UNCHANGED <<queue, result>> /\ Serves(w)
    /\ Keeps(w, j) \/ Seals(w, j) \/ Mints(w, j)
WJob(w, j) == /\ DOMAIN job = Workers /\ job' = [job EXCEPT ![w] = j] /\ job'[w] = j
              /\ \A v \in Workers \ {w} : job'[v] = job[v]
WRange(w, j) ==
    /\ keys \in Nat /\ keys' \in {keys, keys + 1} /\ j.key \in 0 .. keys' /\ job[w].file \in Files
    /\ job[w].key \in 0 .. keys /\ seals \in [Files -> 0 .. 2] /\ seals' \in [Files -> 0 .. 2]
    /\ \A f \in Files : f # job[w].file => seals'[f] = seals[f]
WServer(w) ==
    /\ \A a \in stored' : \/ a \in stored
                          \/ a = Pair(job[w].file, job[w].key) /\ job[w].key # 0
    /\ \A r \in late' : \/ r \in late
                        \/ r.file = job[w].file /\ r.key = job[w].key /\ job[w].key # 0

LEMMA WFacts == ASSUME TInv, NEW w \in Workers, NEW j, WStep(w, j)
                PROVE  WJob(w, j) /\ WRange(w, j) /\ WServer(w)
<1>1. WJob(w, j) BY Zenon DEF WJob, WStep, TInv, Shape, Set
<1>2. WRange(w, j) BY DEF WRange, WStep, TInv, Shape, Owns, Keeps, Seals, Mints
<1>3. WServer(w) BY Zenon DEF WServer, WStep, Serves
<1> QED BY Zenon, <1>1, <1>2, <1>3

LEMMA WShape == ASSUME TInv, NEW w \in Workers, NEW j, WStep(w, j) PROVE Shape'
<1>1. WJob(w, j) /\ WRange(w, j) /\ WServer(w) BY Zenon, WFacts
<1>2. stored' \subseteq [file : Files, key : 1 .. keys']
  BY <1>1 DEF WRange, WServer, TInv, Shape, Pair
<1>3. \A r \in late' : r.file \in Files /\ r.key \in 1 .. keys'
  BY <1>1 DEF WRange, WServer, TInv, Shape
<1>4. ASSUME NEW v \in Workers
      PROVE  /\ DOMAIN job'[v] = JobFields
             /\ job'[v].pc \in Keyed \cup Unkeyed \cup {"idle"}
             /\ job'[v].key \in 0 .. keys'
             /\ job'[v].fresh \in BOOLEAN /\ job'[v].index \in Nat
             /\ job'[v].pc = "idle" => job'[v] = NoJob
             /\ job'[v].pc # "idle" => job'[v].file \in Files
  <2>1. CASE v = w BY Zenon, <2>1, <1>1 DEF WJob, WRange, WStep, Keyed, Unkeyed
  <2>2. CASE v # w BY <2>2, <1>1 DEF WJob, WRange, TInv, Shape
  <2> QED BY Zenon, <2>1, <2>2
<1>5. DOMAIN job' = Workers /\ queue' = queue /\ result' = result BY Zenon, <1>1 DEF WJob, WStep
<1> QED BY <1>1, <1>2, <1>3, <1>4, <1>5 DEF WRange, TInv, Shape

LEMMA WOwned == ASSUME TInv, NEW w \in Workers, NEW j, WStep(w, j) PROVE Owned'
<1>1. WJob(w, j) /\ WRange(w, j) BY Zenon, WFacts
<1>2. \A v \in Workers : (Owns(v)' <=> Owns(v)) /\ job'[v].file = job[v].file
  BY Zenon, <1>1 DEF WJob, WStep, Owns, Keyed, Unkeyed
<1>3. \A i \in 1 .. Len(queue) : queue[i] \in Files /\ queue[i] # job[w].file
  BY DEF WStep, TInv, Owned, Shape
<1>4. queue' = queue /\ result' = result BY Zenon DEF WStep
<1> QED BY <1>1, <1>2, <1>3, <1>4 DEF WRange, TInv, Owned

LEMMA WKeyFile == ASSUME TInv, NEW w \in Workers, NEW j, WStep(w, j) PROVE KeyFile'
<1> DEFINE g == job[w].file
<1>1. WJob(w, j) /\ WRange(w, j) /\ WServer(w) BY Zenon, WFacts
<1>2. \A a \in stored \cup late : a.key \in 1 .. keys BY Zenon DEF TInv, Shape
<1>3. \A a \in stored' \cup late' : \/ a \in stored \cup late
                                    \/ a.key = job[w].key /\ a.file = g /\ job[w].key # 0
  BY <1>1 DEF WServer, Pair
<1>4. j.key \in {0, job[w].key, keys + 1} BY Zenon DEF WStep, Keeps, Seals, Mints
<1>5. \A a, b \in stored' \cup late' : a.key = b.key => a.file = b.file
  BY <1>3 DEF TInv, KeyFile
<1>6. ASSUME NEW v \in Workers, NEW a \in stored' \cup late', job'[v].key = a.key
      PROVE  job'[v].file = a.file
  <2>1. CASE v # w BY <1>6, <2>1, <1>1, <1>3 DEF WJob, TInv, KeyFile
  <2>2. CASE v = w
    <3>1. a.key \in 1 .. keys BY <1>1, <1>2, <1>3 DEF WRange
    <3>2. job[w].key = a.key /\ job'[w].file = g BY <1>1, <1>4, <1>6, <2>2, <3>1 DEF WJob, WRange, WStep
    <3> QED BY Zenon, <3>2, <2>2, <1>3 DEF TInv, KeyFile
  <2> QED BY Zenon, <2>1, <2>2
<1>7. \A u, v \in Workers : job'[u].key = job'[v].key /\ job'[v].key # 0 => u = v
  <2>1. \A v \in Workers : job[v].key \in 0 .. keys BY Zenon DEF TInv, Shape
  <2> QED BY <2>1, <1>1, <1>4 DEF WJob, WRange, TInv, KeyFile
<1> QED BY Zenon, <1>5, <1>6, <1>7 DEF KeyFile

\* The other workers are where they were.
LEMMA WOthers == ASSUME TInv, NEW w \in Workers, NEW j, WStep(w, j), NEW v \in Workers, v # w
                 PROVE  Stage(v)' /\ Sent(v)'
<1>1. WJob(w, j) /\ WRange(w, j) BY Zenon, WFacts
<1>2. job'[v] = job[v] BY Zenon, <1>1 DEF WJob
<1>3. stored \subseteq stored' /\ parts \subseteq parts' BY Zenon DEF WStep, Serves
<1>4. Stage(v) /\ Sent(v) BY Zenon DEF TInv
<1>5. Sent(v)' BY Zenon, <1>2, <1>3, <1>4 DEF Sent
<1>6. job[v].pc # "idle" => job[v].file # job[w].file BY Zenon DEF WStep, TInv, Owned, Owns
<1>7. job[v].pc # "idle" => seals'[job[v].file] = seals[job[v].file]
  BY Zenon, <1>1, <1>6 DEF WRange, TInv, Shape
<1>8. Stage(v)' BY Zenon, <1>2, <1>3, <1>4, <1>7 DEF Stage, Versions
<1> QED BY Zenon, <1>5, <1>8

\* Only a new key makes a new version possible, and that one.
LEMMA WPossible ==
    ASSUME TInv, NEW w \in Workers, NEW j, WStep(w, j), NEW f \in Files,
           NEW v \in Possible(f)', v \notin Possible(f)
    PROVE  Mints(w, j) /\ f = job[w].file /\ v = Pair(f, keys + 1)
<1> DEFINE g == job[w].file
<1>0. WJob(w, j) /\ WRange(w, j) /\ WServer(w) BY Zenon, WFacts
<1>1. v \in [file : {f}, key : 1 .. keys'] /\ v.file = f BY Zenon DEF Possible
<1>2. \/ v \in stored'
      \/ \E r \in late' : r.file = f /\ r.key = v.key
      \/ \E u \in Workers : job'[u].file = f /\ job'[u].key = v.key
  BY Zenon DEF Possible
<1>3. \A u \in Workers : job[u].key \in 0 .. keys BY Zenon DEF TInv, Shape
<1>4. ASSUME NEW u \in Workers, job[u].file = f, job[u].key = v.key PROVE FALSE
  <2>1. v.key \in 1 .. keys BY <1>0, <1>1, <1>3, <1>4 DEF WRange
  <2>2. v \in [file : {f}, key : 1 .. keys] BY Zenon, <1>1, <2>1
  <2> QED BY Zenon, <2>2, <1>4 DEF Possible
<1>5. CASE v \in stored'
  <2>1. CASE v \in stored
    <3>1. v \in [file : {f}, key : 1 .. keys] BY Zenon, <1>1, <2>1 DEF TInv, Shape
    <3> QED BY Zenon, <3>1, <2>1 DEF Possible
  <2>2. CASE v = Pair(g, job[w].key) BY Zenon, <2>2, <1>1, <1>4 DEF Pair
  <2> QED BY Zenon, <1>0, <1>5, <2>1, <2>2 DEF WServer
<1>6. CASE \E r \in late' : r.file = f /\ r.key = v.key
  <2>1. PICK r \in late' : r.file = f /\ r.key = v.key BY Zenon, <1>6
  <2>2. CASE r \in late
    <3>1. v \in [file : {f}, key : 1 .. keys] BY Zenon, <1>1, <2>1, <2>2 DEF TInv, Shape
    <3> QED BY Zenon, <3>1, <2>1, <2>2 DEF Possible
  <2>3. CASE r.file = g /\ r.key = job[w].key BY ZenonT(30), <2>3, <2>1, <1>4
  <2> QED BY Zenon, <1>0, <2>1, <2>2, <2>3 DEF WServer
<1>7. CASE \E u \in Workers : job'[u].file = f /\ job'[u].key = v.key
  <2>1. PICK u \in Workers : job'[u].file = f /\ job'[u].key = v.key BY Zenon, <1>7
  <2>2. u = w BY Zenon, <1>0, <2>1, <1>4 DEF WJob
  <2>3. f = g /\ j.key = v.key BY Zenon, <1>0, <2>1, <2>2 DEF WJob, WStep
  <2>4. v.key # 0 /\ v.key # job[w].key BY <1>1, <1>4, <2>3
  <2>5. Mints(w, j) BY Zenon, <2>3, <2>4 DEF WStep, Keeps, Seals
  <2>6. v.key = keys + 1 BY Zenon, <2>3, <2>5 DEF Mints
  <2> QED BY Zenon, <1>1, <2>3, <2>5, <2>6 DEF Pair
<1> QED BY Zenon, <1>2, <1>5, <1>6, <1>7

LEMMA WMinted ==
    ASSUME TInv, NEW w \in Workers, NEW j, WStep(w, j), Mints(w, j), NEW f, f = job[w].file
    PROVE  Counted(f)'
<1>0. WJob(w, j) /\ WRange(w, j) BY Zenon, WFacts
<1>1. Counted(f) /\ seals[f] \in 0 .. 2 /\ seals'[f] = seals[f] BY Zenon, <1>0 DEF WRange, TInv, Mints
<1>2. IsFiniteSet(Possible(f)) /\ Cardinality(Possible(f)) \in Nat
  BY Zenon, <1>1, FS_CardinalityType DEF Counted
<1>3. f \in Files BY Zenon, <1>0 DEF WRange
<1>4. PICK S : S = Possible(f) \cup {Pair(f, keys + 1)} BY Zenon
<1>5. ASSUME NEW v \in Possible(f)' PROVE v \in S
  <2>1. v \in Possible(f) \/ v = Pair(f, keys + 1) BY ZenonT(30), <1>3, WPossible
  <2> QED BY Zenon, <1>4, <2>1
<1>6. /\ IsFiniteSet(S) /\ Cardinality(S) <= Cardinality(Possible(f)) + 1
      /\ Cardinality(S) \in Nat
  BY ZenonT(30), <1>2, <1>4, AddOne
<1>7. /\ IsFiniteSet(Possible(f)') /\ Cardinality(Possible(f)') <= Cardinality(S)
      /\ Cardinality(Possible(f)') \in Nat
  BY Zenon, <1>5, <1>6, FS_Subset, FS_CardinalityType
<1>8. Cardinality(Possible(f)) < seals[f] BY Zenon, <1>1 DEF Counted, Mints
<1>9. \A v \in Workers : ~(job'[v].pc = "send" /\ job'[v].file = f)
  BY Zenon, <1>0 DEF WJob, WStep, Mints, TInv, Owned, Owns
<1>10. Cardinality(Possible(f)') <= seals'[f] BY <1>1, <1>2, <1>6, <1>7, <1>8
<1> QED BY Zenon, <1>7, <1>9, <1>10 DEF Counted

LEMMA WCounted ==
    ASSUME TInv, NEW w \in Workers, NEW j, WStep(w, j), NEW f \in Files,
           ~(Mints(w, j) /\ f = job[w].file)
    PROVE  Counted(f)'
<1>0. WJob(w, j) /\ WRange(w, j) BY Zenon, WFacts
<1>1. Counted(f) /\ seals[f] \in 0 .. 2 /\ seals'[f] \in 0 .. 2 BY Zenon, <1>0 DEF WRange, TInv
<1>2. IsFiniteSet(Possible(f)) /\ Cardinality(Possible(f)) \in Nat
  BY Zenon, <1>1, FS_CardinalityType DEF Counted
<1>3. Possible(f)' \subseteq Possible(f) BY Zenon, WPossible
<1>4. /\ IsFiniteSet(Possible(f)') /\ Cardinality(Possible(f)') <= Cardinality(Possible(f))
      /\ Cardinality(Possible(f)') \in Nat
  BY Zenon, <1>2, <1>3, FS_Subset, FS_CardinalityType
<1>5. seals[f] <= seals'[f] BY <1>0, <1>1 DEF WRange, WStep, Keeps, Seals, Mints
<1>6. ASSUME NEW v \in Workers, job'[v].pc = "send", job'[v].file = f
      PROVE  seals[f] < seals'[f] \/ Cardinality(Possible(f)) < seals[f]
  <2>1. CASE v # w BY Zenon, <1>0, <1>1, <1>6, <2>1 DEF WJob, Counted
  <2>2. CASE v = w /\ Seals(w, j) BY <1>0, <1>6, <2>2 DEF WJob, WRange, WStep, Seals
  <2>3. CASE v = w /\ Keeps(w, j) BY Zenon, <1>0, <1>1, <1>6, <2>3 DEF WJob, WStep, Keeps, Counted
  <2>4. CASE v = w /\ Mints(w, j) BY Zenon, <1>0, <1>6, <2>4 DEF WJob, Mints
  <2> QED BY Zenon, <2>1, <2>2, <2>3, <2>4 DEF WStep
<1> QED BY <1>1, <1>2, <1>4, <1>5, <1>6 DEF Counted

LEMMA WorkerStep ==
    ASSUME TInv, NEW w \in Workers, NEW j, Owns(w), Set(w, j),
           DOMAIN j = JobFields, j.pc \in Keyed \cup Unkeyed, j.file = job[w].file,
           j.fresh \in BOOLEAN, j.index \in Nat,
           UNCHANGED <<queue, result>>, Serves(w),
           Keeps(w, j) \/ Seals(w, j) \/ Mints(w, j),
           Stage(w)', Sent(w)'
    PROVE  TInv'
<1>1. WStep(w, j) BY Zenon DEF WStep
<1>2. Shape' /\ Owned' /\ KeyFile' BY Zenon, <1>1, WShape, WOwned, WKeyFile
<1>3. \A v \in Workers : Stage(v)' /\ Sent(v)' BY ZenonT(30), <1>1, WOthers
<1>4. ASSUME NEW f \in Files PROVE Counted(f)'
  <2>1. CASE Mints(w, j) /\ f = job[w].file BY ZenonT(30), <1>1, <2>1, WMinted
  <2>2. CASE ~(Mints(w, j) /\ f = job[w].file) BY ZenonT(30), <1>1, <2>2, WCounted
  <2> QED BY Zenon, <2>1, <2>2
<1> QED BY Zenon, <1>2, <1>3, <1>4 DEF TInv

-----------------------------------------------------------------------------
(* Steps that give no key out.                                              *)

\* What the conjuncts of the invariant read.
tcore == <<queue, job, seals, result, keys, stored, parts, late>>

LEMMA StutterInv == TInv /\ UNCHANGED tcore => TInv'
<1> SUFFICES ASSUME TInv, UNCHANGED tcore PROVE TInv'
  BY Zenon
<1> USE DEF tcore
<1>1. Shape' BY Zenon DEF TInv, Shape
<1>2. Owned' BY Zenon DEF TInv, Owned, Owns
<1>3. KeyFile' BY Zenon DEF TInv, KeyFile
<1>4. \A w \in Workers : Stage(w)' /\ Sent(w)' BY DEF TInv, Stage, Sent, Versions
<1>5. \A f \in Files : Possible(f)' = Possible(f) BY Zenon DEF Possible
<1>6. \A f \in Files : Counted(f)' BY Zenon, <1>5 DEF TInv, Counted
<1> QED BY Zenon, <1>1, <1>2, <1>3, <1>4, <1>6 DEF TInv

\* A step that begins or ends a worker's turn, or a request that arrives late, gives no
\* key out.
LEMMA CountedShrinks ==
    ASSUME TInv, NEW f \in Files, Possible(f)' \subseteq Possible(f), seals' = seals,
           \A w \in Workers : job'[w].pc = "send" => job'[w] = job[w]
    PROVE  Counted(f)'
<1>1. IsFiniteSet(Possible(f)) /\ Cardinality(Possible(f)) \in Nat /\ seals[f] \in 0 .. 2
  BY Zenon, FS_CardinalityType DEF TInv, Counted, Shape
<1>2. /\ IsFiniteSet(Possible(f)') /\ Cardinality(Possible(f)') <= Cardinality(Possible(f))
      /\ Cardinality(Possible(f)') \in Nat
  BY Zenon, <1>1, FS_Subset, FS_CardinalityType
<1> QED BY <1>1, <1>2 DEF TInv, Counted

\* A worker that has no key, and no other changes.
LEMMA NoKey ==
    ASSUME TInv, NEW w \in Workers, job'[w].key = 0,
           \A v \in Workers : v # w => job'[v] = job[v], UNCHANGED <<stored, late, keys>>
    PROVE  KeyFile' /\ \A f \in Files : Possible(f)' \subseteq Possible(f)
<1>1. \A a \in stored \cup late : a.key \in 1 .. keys BY Zenon DEF TInv, Shape
<1>2. KeyFile /\ keys \in Nat BY Zenon DEF TInv, Shape
<1>3. \A v \in Workers, a \in stored \cup late : job'[v].key = a.key => job'[v].file = a.file
  <2> SUFFICES ASSUME NEW v \in Workers, NEW a \in stored \cup late, job'[v].key = a.key
               PROVE  job'[v].file = a.file
    BY Zenon
  <2>1. a.key # 0 BY <1>1, <1>2
  <2>2. v # w BY Zenon, <2>1
  <2> QED BY <2>2, <1>2 DEF KeyFile
<1>4. \A u, v \in Workers : job'[u].key = job'[v].key /\ job'[v].key # 0 => u = v
  BY <1>2 DEF KeyFile
<1>5. KeyFile' BY Zenon, <1>2, <1>3, <1>4 DEF KeyFile
<1>6. ASSUME NEW f \in Files, NEW x \in Possible(f)' PROVE x \in Possible(f)
  <2>1. x \in [file : {f}, key : 1 .. keys] /\ x.key # 0 BY <1>2, <1>6 DEF Possible
  <2>2. ASSUME NEW v \in Workers, job'[v].file = f, job'[v].key = x.key
        PROVE  job[v].file = f /\ job[v].key = x.key
    BY Zenon, <2>1, <2>2
  <2>3. \/ x \in stored
        \/ \E r \in late : r.file = f /\ r.key = x.key
        \/ \E v \in Workers : job'[v].file = f /\ job'[v].key = x.key
    BY Zenon, <1>6 DEF Possible
  <2> QED BY Zenon, <2>1, <2>2, <2>3 DEF Possible
<1> QED BY Zenon, <1>5, <1>6

LEMMA LateInv == TInv /\ LateArrives => TInv'
<1> SUFFICES ASSUME TInv, LateArrives PROVE TInv'
  BY Zenon
<1>0. UNCHANGED <<queue, job, seals, result, keys>> BY Zenon DEF LateArrives
<1>1. PICK r \in late : /\ late' = late \ {r}
                        /\ \/ Effect(r)
                           \/ UNCHANGED <<stored, before, parts>>
  BY Zenon DEF LateArrives
<1>2. r.file \in Files /\ r.key \in 1 .. keys BY Zenon DEF TInv, Shape
<1>3. stored' \in {stored, stored \cup {Pair(r.file, r.key)}} /\ parts \subseteq parts'
  BY Zenon, <1>1 DEF Effect, Pair
<1>4. \A a \in stored' : a \in stored \/ a = Pair(r.file, r.key) BY Zenon, <1>3
<1>5. Shape' BY <1>0, <1>1, <1>2, <1>4 DEF TInv, Shape, Pair
<1>6. Owned' BY Zenon, <1>0 DEF TInv, Owned, Owns
<1>7. KeyFile'
  <2>1. \A a \in stored' \cup late' : \E b \in stored \cup late : a.key = b.key /\ a.file = b.file
    BY <1>1, <1>4 DEF Pair
  <2> QED BY <2>1, <1>0 DEF TInv, KeyFile
<1>8. \A w \in Workers : Stage(w)' /\ Sent(w)'
  BY <1>0, <1>3 DEF TInv, Stage, Sent, Versions
<1>9. ASSUME NEW f \in Files PROVE Counted(f)'
  <2>1. ASSUME NEW x \in Possible(f)' PROVE x \in Possible(f)
    <3>1. x \in [file : {f}, key : 1 .. keys] BY Zenon, <1>0, <2>1 DEF Possible
    <3>2. CASE x \in stored' BY <1>4, <3>1, <3>2 DEF Possible, Pair
    <3>3. CASE \E a \in late' : a.file = f /\ a.key = x.key BY Zenon, <1>1, <3>1, <3>3 DEF Possible
    <3>4. CASE \E w \in Workers : job'[w].file = f /\ job'[w].key = x.key
      BY Zenon, <1>0, <3>1, <3>4 DEF Possible
    <3> QED BY Zenon, <2>1, <3>2, <3>3, <3>4 DEF Possible
  <2> QED BY Zenon, <2>1, <1>0, CountedShrinks
<1> QED BY Zenon, <1>5, <1>6, <1>7, <1>8, <1>9 DEF TInv

-----------------------------------------------------------------------------
(* The steps of a worker.                                                   *)

LEMMA UploadOneInv == ASSUME TInv, NEW w \in Workers, uploadOne(w) PROVE TInv'
<1> DEFINE f == Head(queue)
<1>0. UNCHANGED <<seals, result, keys, stored, late, parts>> /\ job[w] = NoJob
  BY Zenon DEF uploadOne, server, TInv, Shape, At
<1>1. /\ queue \in Seq(Files) /\ queue # <<>> /\ queue' = Tail(queue) /\ f = queue[1]
      /\ Len(queue) \in Nat /\ Len(queue) > 0
  BY DEF uploadOne, TInv, Shape
<1>2. f \in Files BY <1>1
<1>3. /\ queue' \in Seq(Files) /\ Len(queue') = Len(queue) - 1
      /\ \A i \in 1 .. Len(queue') : queue'[i] = queue[i + 1]
  BY <1>1
<1>4. PICK j : j = [NoJob EXCEPT !.pc = "exists", !.file = f] BY Zenon
<1>5. /\ DOMAIN j = JobFields /\ j.pc = "exists" /\ j.file = f /\ j.key = 0 /\ j.index \in Nat
      /\ j.fresh \in BOOLEAN /\ ~j.fresh
  BY Zenon, <1>4 DEF NoJob, JobFields
<1>6. /\ DOMAIN job = Workers /\ DOMAIN job' = Workers /\ job'[w] = j
      /\ \A v \in Workers : v # w => job'[v] = job[v]
  BY Zenon, <1>4 DEF TInv, Shape, uploadOne, Set
<1>7. Shape'
  <2>1. ASSUME NEW v \in Workers
        PROVE  /\ DOMAIN job'[v] = JobFields
               /\ job'[v].pc \in Keyed \cup Unkeyed \cup {"idle"}
               /\ job'[v].key \in 0 .. keys'
               /\ job'[v].fresh \in BOOLEAN /\ job'[v].index \in Nat
               /\ job'[v].pc = "idle" => job'[v] = NoJob
               /\ job'[v].pc # "idle" => job'[v].file \in Files
    <3>1. CASE v = w
      <4>1. j.key \in 0 .. keys' BY <1>0, <1>5 DEF TInv, Shape
      <4> QED BY Zenon, <3>1, <4>1, <1>2, <1>5, <1>6 DEF Unkeyed
    <3>2. CASE v # w BY Zenon, <3>2, <1>0, <1>6 DEF TInv, Shape
    <3> QED BY Zenon, <3>1, <3>2
  <2> QED BY Zenon, <1>0, <1>3, <1>6, <2>1 DEF TInv, Shape
<1>8. Owned'
  <2>1. result[f] = "pending" BY <1>1 DEF TInv, Owned
  <2>2. \A i \in 1 .. Len(queue') : i + 1 \in 1 .. Len(queue) /\ queue'[i] # f
    BY <1>1, <1>3 DEF TInv, Owned
  <2>3. \A v \in Workers : Owns(v) => job[v].file # f BY <1>1 DEF TInv, Owned
  <2>4. \A v \in Workers : v # w => (Owns(v)' <=> Owns(v)) BY Zenon, <1>6 DEF Owns
  <2>5. \A i \in 1 .. Len(queue') : result'[queue'[i]] = "pending" /\ seals'[queue'[i]] = 0
    <3>1. \A i \in 1 .. Len(queue) : result[queue[i]] = "pending" /\ seals[queue[i]] = 0
      BY Zenon DEF TInv, Owned
    <3>2. \A i \in 1 .. Len(queue') : queue'[i] = queue[i + 1]
      BY <1>3
    <3> QED BY Zenon, <1>0, <2>2, <3>1, <3>2
  <2>6. \A i, k \in 1 .. Len(queue') : queue'[i] = queue'[k] => i = k
    <3> SUFFICES ASSUME NEW i \in 1 .. Len(queue'), NEW k \in 1 .. Len(queue'), queue'[i] = queue'[k]
                 PROVE  i = k
      BY Zenon
    <3>1. queue[i + 1] = queue[k + 1] BY <1>3
    <3>2. i + 1 \in 1 .. Len(queue) /\ k + 1 \in 1 .. Len(queue) BY Zenon, <2>2
    <3>3. i + 1 = k + 1 BY Zenon, <3>1, <3>2 DEF TInv, Owned
    <3> QED BY <3>3, <1>3, <1>1
  <2>7. ASSUME NEW v \in Workers, Owns(v)'
        PROVE  result'[job'[v].file] = "pending" /\ \A i \in 1 .. Len(queue') : queue'[i] # job'[v].file
    <3>1. CASE v = w BY Zenon, <3>1, <1>0, <1>5, <1>6, <2>1, <2>2
    <3>2. CASE v # w
      <4>1. job'[v] = job[v] /\ Owns(v) BY Zenon, <3>2, <2>7, <1>6, <2>4
      <4>2. result[job[v].file] = "pending" /\ \A i \in 1 .. Len(queue) : queue[i] # job[v].file
        BY Zenon, <4>1 DEF TInv, Owned
      <4>3. \A i \in 1 .. Len(queue') : i + 1 \in 1 .. Len(queue) /\ queue'[i] = queue[i + 1]
        BY <1>3, <2>2
      <4> QED BY Zenon, <1>0, <4>1, <4>2, <4>3
    <3> QED BY Zenon, <3>1, <3>2
  <2>8. \A u, v \in Workers : Owns(u)' /\ Owns(v)' /\ job'[u].file = job'[v].file => u = v
    BY <1>5, <1>6, <2>3, <2>4 DEF TInv, Owned
  <2> QED BY Zenon, <2>5, <2>6, <2>7, <2>8 DEF Owned, Owns
<1>9. KeyFile' /\ \A g \in Files : Possible(g)' \subseteq Possible(g)
  BY Zenon, <1>0, <1>5, <1>6, NoKey
<1>10. ASSUME NEW v \in Workers PROVE Stage(v)' /\ Sent(v)'
  <2>1. CASE v = w
    <3>0. 1 \in 1 .. Len(queue) BY <1>1
    <3>1. seals[f] = 0 BY Zenon, <1>1, <3>0 DEF TInv, Owned
    <3> QED BY Zenon, <2>1, <3>1, <1>0, <1>5, <1>6 DEF Stage, Sent, Keyed
  <2>2. CASE v # w
    <3>1. job'[v] = job[v] /\ Stage(v) /\ Sent(v) BY Zenon, <2>2, <1>6 DEF TInv
    <3> QED BY Zenon, <3>1, <1>0 DEF Stage, Sent, Versions
  <2> QED BY Zenon, <2>1, <2>2
<1>11. ASSUME NEW g \in Files PROVE Counted(g)'
  <2>1. \A v \in Workers : job'[v].pc = "send" => job'[v] = job[v] BY Zenon, <1>5, <1>6
  <2> QED BY Zenon, <2>1, <1>0, <1>9, CountedShrinks
<1> QED BY Zenon, <1>7, <1>8, <1>9, <1>10, <1>11 DEF TInv

\* A worker is done with its file, which is counted.
LEMMA CountInv ==
    ASSUME TInv, NEW w \in Workers, NEW r \in {"uploaded", "failed", "skipped"}, Owns(w),
           Count(w, r), UNCHANGED <<queue, seals, keys, stored, late, parts>>
    PROVE  TInv'
<1> DEFINE f == job[w].file
<1>1. f \in Files /\ result' = [result EXCEPT ![f] = r] BY Zenon DEF TInv, Shape, Owns, Count
<1>2. /\ DOMAIN NoJob = JobFields /\ NoJob.pc = "idle" /\ NoJob.key = 0 /\ NoJob.index \in Nat
      /\ NoJob.fresh \in BOOLEAN /\ ~NoJob.fresh
  BY Zenon DEF NoJob, JobFields
<1>3. /\ DOMAIN job = Workers /\ DOMAIN job' = Workers /\ job'[w] = NoJob
      /\ \A v \in Workers : v # w => job'[v] = job[v]
  BY Zenon DEF TInv, Shape, Count, Set
<1>4. Shape'
  <2>1. ASSUME NEW v \in Workers
        PROVE  /\ DOMAIN job'[v] = JobFields
               /\ job'[v].pc \in Keyed \cup Unkeyed \cup {"idle"}
               /\ job'[v].key \in 0 .. keys'
               /\ job'[v].fresh \in BOOLEAN /\ job'[v].index \in Nat
               /\ job'[v].pc = "idle" => job'[v] = NoJob
               /\ job'[v].pc # "idle" => job'[v].file \in Files
    <3>1. CASE v = w BY <3>1, <1>2, <1>3 DEF TInv, Shape
    <3>2. CASE v # w BY Zenon, <3>2, <1>3 DEF TInv, Shape
    <3> QED BY Zenon, <3>1, <3>2
  <2>2. result' \in [Files -> {"pending", "uploaded", "failed", "skipped"}]
    BY Zenon, <1>1 DEF TInv, Shape
  <2> QED BY ZenonT(30), <1>3, <2>1, <2>2 DEF TInv, Shape
<1>5. Owned'
  <2>1. \A v \in Workers : Owns(v)' => v # w /\ Owns(v) /\ job'[v].file = job[v].file
    BY Zenon, <1>2, <1>3 DEF Owns
  <2>2. \A v \in Workers : Owns(v)' => job[v].file # f /\ result'[job[v].file] = result[job[v].file]
    BY Zenon, <1>1, <2>1 DEF TInv, Owned, Shape, Owns
  <2>3. \A i \in 1 .. Len(queue) : queue[i] \in Files /\ result'[queue[i]] = result[queue[i]]
    <3>1. queue \in Seq(Files) /\ DOMAIN result = Files BY Zenon DEF TInv, Shape
    <3>2. \A i \in 1 .. Len(queue) : queue[i] \in Files BY <3>1
    <3>3. \A i \in 1 .. Len(queue) : queue[i] # f BY Zenon DEF TInv, Owned
    <3> QED BY Zenon, <1>1, <3>1, <3>2, <3>3
  <2>4. ASSUME NEW v \in Workers, Owns(v)'
        PROVE  result'[job'[v].file] = "pending" /\ \A i \in 1 .. Len(queue) : queue[i] # job'[v].file
    <3>1. /\ job'[v].file = job[v].file /\ Owns(v)
          /\ result'[job[v].file] = result[job[v].file]
      BY Zenon, <2>1, <2>2, <2>4
    <3>2. result[job[v].file] = "pending" /\ \A i \in 1 .. Len(queue) : queue[i] # job[v].file
      BY Zenon, <3>1 DEF TInv, Owned
    <3> QED BY Zenon, <3>1, <3>2
  <2>5. \A i \in 1 .. Len(queue) : result'[queue[i]] = "pending" /\ seals[queue[i]] = 0
    BY Zenon, <2>3 DEF TInv, Owned
  <2>6. \A u, v \in Workers : Owns(u)' /\ Owns(v)' /\ job'[u].file = job'[v].file => u = v
    BY Zenon, <2>1 DEF TInv, Owned
  <2> QED BY Zenon, <2>4, <2>5, <2>6 DEF TInv, Owned
<1>6. KeyFile' /\ \A g \in Files : Possible(g)' \subseteq Possible(g) BY Zenon, <1>2, <1>3, NoKey
<1>7. ASSUME NEW v \in Workers PROVE Stage(v)' /\ Sent(v)'
  <2>1. CASE v = w BY Zenon, <2>1, <1>2, <1>3 DEF Stage, Sent, Keyed
  <2>2. CASE v # w
    <3>1. job'[v] = job[v] /\ Stage(v) /\ Sent(v) BY Zenon, <2>2, <1>3 DEF TInv
    <3> QED BY Zenon, <3>1 DEF Stage, Sent, Versions
  <2> QED BY Zenon, <2>1, <2>2
<1>8. ASSUME NEW g \in Files PROVE Counted(g)'
  <2>1. \A v \in Workers : job'[v].pc = "send" => job'[v] = job[v] BY Zenon, <1>2, <1>3
  <2> QED BY Zenon, <2>1, <1>6, CountedShrinks
<1> QED BY Zenon, <1>4, <1>5, <1>6, <1>7, <1>8 DEF TInv

\* A step in which the server has no part.
LEMMA LocalServes ==
    ASSUME NEW w, UNCHANGED server PROVE Serves(w)
BY Zenon DEF Serves, server

LEMMA AlreadyUploadedInv == ASSUME TInv, NEW w \in Workers, alreadyUploaded(w) PROVE TInv'
<1>1. Owns(w) BY Zenon DEF alreadyUploaded, At, Owns
<1>2. UNCHANGED <<queue, seals, keys, stored, late, parts>> BY Zenon DEF alreadyUploaded, server
<1>3. CASE Count(w, "skipped") \/ Count(w, "failed") BY Zenon, <1>1, <1>2, <1>3, CountInv
<1>4. CASE Go(w, "seal") /\ UNCHANGED result
  <2>1. PICK j : j = [job[w] EXCEPT !.pc = "seal"] BY ZenonT(30)
  <2>2. DOMAIN job[w] = JobFields /\ job[w].fresh \in BOOLEAN /\ job[w].index \in Nat
        /\ job[w].pc = "exists" /\ DOMAIN job = Workers
    BY Zenon DEF TInv, Shape, alreadyUploaded, At
  <2>3. /\ DOMAIN j = JobFields /\ j.pc = "seal" /\ j.file = job[w].file /\ j.key = job[w].key
        /\ j.fresh = job[w].fresh /\ j.index = job[w].index
    BY Zenon, <2>1, <2>2 DEF JobFields
  <2>4. Set(w, j) /\ job'[w] = j BY Zenon, <1>4, <2>1, <2>2 DEF Go, Set
  <2>5. Serves(w) BY Zenon, LocalServes DEF alreadyUploaded
  <2>6. Keeps(w, j) BY Zenon, <1>2, <2>3 DEF Keeps
  <2>7. Stage(w)' /\ Sent(w)' BY Zenon, <1>2, <2>2, <2>3, <2>4 DEF TInv, Stage, Sent, Keyed
  <2> QED BY Zenon, <1>1, <1>2, <1>4, <2>2, <2>3, <2>4, <2>5, <2>6, <2>7, WorkerStep DEF Unkeyed
<1> QED BY Zenon, <1>3, <1>4 DEF alreadyUploaded

LEMMA SealInv == ASSUME TInv, NEW w \in Workers, sealForUpload(w) \/ sendResealingOnce(w)
                 PROVE  TInv'
<1> DEFINE f == job[w].file
<1>1. /\ Owns(w) /\ f \in Files /\ seals[f] \in 0 .. 1
      /\ job[w].pc \in {"seal", "reseal"}
  <2>1. job[w].pc \in {"seal", "reseal"} BY Zenon DEF sealForUpload, sendResealingOnce, At
  <2>2. f \in Files BY Zenon, <2>1 DEF TInv, Shape
  <2>3. seals[f] = 0 \/ seals[f] = 1 BY Zenon, <2>1 DEF TInv, Stage
  <2>4. seals[f] \in 0 .. 1 BY <2>3
  <2> QED BY Zenon, <2>1, <2>2, <2>4 DEF Owns
<1>2. UNCHANGED <<queue, result, keys, stored, late, parts>> /\ Serves(w)
  BY Zenon, LocalServes DEF sealForUpload, sendResealingOnce, server
<1>3. PICK pc \in {"send", "failed"} : Go(w, pc)
  BY Zenon DEF sealForUpload, sendResealingOnce
<1>4. PICK j : j = [job[w] EXCEPT !.pc = pc] BY ZenonT(30)
<1>5. DOMAIN job[w] = JobFields /\ job[w].fresh \in BOOLEAN /\ job[w].index \in Nat
      /\ DOMAIN job = Workers
  BY Zenon DEF TInv, Shape
<1>6. /\ DOMAIN j = JobFields /\ j.pc = pc /\ j.file = f /\ j.key = job[w].key
      /\ j.fresh = job[w].fresh /\ j.index = job[w].index
  BY Zenon, <1>4, <1>5 DEF JobFields
<1>7. Set(w, j) /\ job'[w] = j BY Zenon, <1>3, <1>4, <1>5 DEF Go, Set
<1>8. Seals(w, j)
  <2>1. seals' = [seals EXCEPT ![f] = seals[f] + 1] BY Zenon DEF sealForUpload, sendResealingOnce
  <2>2. seals[f] < 2 BY <1>1
  <2> QED BY Zenon, <1>2, <1>6, <2>1, <2>2 DEF Seals
<1>9. Stage(w)' /\ Sent(w)'
  <2>1. ~job[w].fresh BY Zenon, <1>1 DEF TInv, Sent
  <2> QED BY Zenon, <2>1, <1>6, <1>7 DEF Stage, Sent, Keyed
<1> QED BY ZenonT(30), <1>1, <1>2, <1>5, <1>6, <1>7, <1>8, <1>9, WorkerStep DEF Unkeyed

LEMMA SendInv == ASSUME TInv, NEW w \in Workers, send(w) PROVE TInv'
<1>1. Owns(w) /\ job[w].pc = "send" BY Zenon DEF send, At, Owns
<1>2. UNCHANGED <<queue, result, seals, stored, late, parts>> /\ Serves(w)
  BY Zenon, LocalServes DEF send, server
<1>3. PICK j : j = [job[w] EXCEPT !.pc = "gate", !.key = keys + 1, !.rate = 0] BY Zenon
<1>4. DOMAIN job[w] = JobFields /\ job[w].fresh \in BOOLEAN /\ job[w].index \in Nat
      /\ DOMAIN job = Workers /\ keys \in Nat
  BY Zenon DEF TInv, Shape
<1>5. /\ DOMAIN j = JobFields /\ j.pc = "gate" /\ j.file = job[w].file /\ j.key = keys + 1
      /\ j.fresh = job[w].fresh /\ j.index = job[w].index
  BY Zenon, <1>3, <1>4 DEF JobFields
<1>6. Set(w, j) /\ job'[w] = j BY Zenon, <1>3, <1>4 DEF Set, send
<1>7. Mints(w, j) BY Zenon, <1>1, <1>2, <1>5 DEF Mints, send
<1>8. Stage(w)' /\ Sent(w)'
  <2>1. ~job[w].fresh BY Zenon, <1>1 DEF TInv, Sent
  <2> QED BY <2>1, <1>4, <1>5, <1>6 DEF Stage, Sent, Keyed
<1> QED BY Zenon, <1>1, <1>2, <1>4, <1>5, <1>6, <1>7, <1>8, WorkerStep DEF Keyed

\* A worker goes on to where nothing more is required: failed, or an error to handle.
LEMMA EndInv ==
    ASSUME TInv, NEW w \in Workers, NEW why, NEW pc \in {"failed", "error"}, Owns(w),
           Set(w, [job[w] EXCEPT !.pc = pc, !.why = why]), pc = "error" => job[w].pc \in Keyed,
           UNCHANGED <<queue, result, seals, keys>>, Serves(w)
    PROVE  TInv'
<1>1. PICK j : j = [job[w] EXCEPT !.pc = pc, !.why = why] BY Zenon
<1>2. DOMAIN job[w] = JobFields /\ job[w].fresh \in BOOLEAN /\ job[w].index \in Nat
      /\ DOMAIN job = Workers
  BY Zenon DEF TInv, Shape
<1>3. /\ DOMAIN j = JobFields /\ j.pc = pc /\ j.file = job[w].file /\ j.key = job[w].key
      /\ j.fresh = job[w].fresh /\ j.index = job[w].index
  BY Zenon, <1>1, <1>2 DEF JobFields
<1>4. Set(w, j) /\ job'[w] = j BY Zenon, <1>1, <1>2 DEF Set
<1>5. Keeps(w, j) BY Zenon, <1>3 DEF Keeps
<1>6. Stage(w)' /\ Sent(w)' BY Zenon, <1>3, <1>4 DEF TInv, Stage, Sent, Keyed
<1> QED BY Zenon, <1>2, <1>3, <1>4, <1>5, <1>6, WorkerStep DEF Keyed, Unkeyed

LEMMA UploadInv == ASSUME TInv, NEW w \in Workers, Upload(w) PROVE TInv'
<1>1. Owns(w) /\ job[w].pc = "gate" BY Zenon DEF Upload, At, Owns
<1>2. UNCHANGED <<queue, result, seals, keys, stored, late, parts>> /\ Serves(w)
  BY Zenon, LocalServes DEF Upload, server
<1>3. CASE Fail(w, "cancelled") BY ZenonT(30), <1>1, <1>2, <1>3, EndInv DEF Fail
<1>4. ASSUME NEW pc \in {"session", "whole"}, Set(w, [job[w] EXCEPT !.pc = pc, !.try = 1])
      PROVE  TInv'
  <2>1. PICK j : j = [job[w] EXCEPT !.pc = pc, !.try = 1] BY Zenon
  <2>2. DOMAIN job[w] = JobFields /\ job[w].fresh \in BOOLEAN /\ job[w].index \in Nat
        /\ DOMAIN job = Workers
    BY Zenon DEF TInv, Shape
  <2>3. /\ DOMAIN j = JobFields /\ j.pc = pc /\ j.file = job[w].file /\ j.key = job[w].key
        /\ j.fresh = job[w].fresh /\ j.index = job[w].index
    BY Zenon, <2>1, <2>2 DEF JobFields
  <2>4. Set(w, j) /\ job'[w] = j BY Zenon, <1>4, <2>1, <2>2 DEF Set
  <2>5. Keeps(w, j) BY Zenon, <1>2, <2>3 DEF Keeps
  <2>6. Stage(w)' /\ Sent(w)' BY ZenonT(30), <1>1, <2>3, <2>4 DEF TInv, Stage, Sent, Keyed
  <2> QED BY ZenonT(30), <1>1, <1>2, <2>2, <2>3, <2>4, <2>5, <2>6, WorkerStep DEF Keyed
<1> QED BY ZenonT(30), <1>3, <1>4 DEF Upload

LEMMA RetryInv == ASSUME TInv, NEW w \in Workers, retryOrGiveUp(w) PROVE TInv'
<1>1. Owns(w) /\ job[w].pc = "error" BY Zenon DEF retryOrGiveUp, At, Owns
<1>2. UNCHANGED <<queue, result, seals, keys, stored, late, parts>> /\ Serves(w)
  BY Zenon, LocalServes DEF retryOrGiveUp, server
<1>3. DOMAIN job[w] = JobFields /\ job[w].fresh \in BOOLEAN /\ job[w].index \in Nat
      /\ DOMAIN job = Workers
  BY Zenon DEF TInv, Shape
<1>4. CASE Fail(w, job[w].why) BY ZenonT(30), <1>1, <1>2, <1>4, EndInv DEF Fail
<1>5. CASE Set(w, [job[w] EXCEPT !.pc = "gate", !.rate = @ + 1, !.fresh = FALSE])
  <2>1. PICK j : j = [job[w] EXCEPT !.pc = "gate", !.rate = @ + 1, !.fresh = FALSE] BY Zenon
  <2>2. /\ DOMAIN j = JobFields /\ j.pc = "gate" /\ j.file = job[w].file /\ j.key = job[w].key
        /\ j.fresh = FALSE /\ j.index = job[w].index
    BY Zenon, <2>1, <1>3 DEF JobFields
  <2>3. Set(w, j) /\ job'[w] = j BY Zenon, <1>3, <1>5, <2>1 DEF Set
  <2>4. Keeps(w, j) BY Zenon, <1>2, <2>2 DEF Keeps
  <2>5. Stage(w)' /\ Sent(w)' BY ZenonT(30), <1>1, <2>2, <2>3 DEF TInv, Stage, Sent, Keyed
  <2>6. j.fresh \in BOOLEAN BY ZenonT(30), <2>2
  <2> QED BY ZenonT(30), <1>1, <1>2, <1>3, <2>2, <2>3, <2>4, <2>5, <2>6, WorkerStep DEF Keyed
<1>6. CASE /\ teeSealWentStale(job[w])
           /\ Set(w, [NoJob EXCEPT !.pc = "reseal", !.file = job[w].file])
  <2>1. PICK j : j = [NoJob EXCEPT !.pc = "reseal", !.file = job[w].file] BY Zenon
  <2>2. /\ DOMAIN j = JobFields /\ j.pc = "reseal" /\ j.file = job[w].file /\ j.key = 0
        /\ j.fresh = FALSE /\ j.index = 0
    BY Zenon, <2>1 DEF JobFields, NoJob
  <2>3. Set(w, j) /\ job'[w] = j BY Zenon, <1>3, <1>6, <2>1 DEF Set
  <2>4. Keeps(w, j) BY Zenon, <1>2, <2>2 DEF Keeps
  <2>5. Stage(w)' /\ Sent(w)'
    BY Zenon, <1>2, <1>6, <2>2, <2>3 DEF Stage, Sent, Keyed, teeSealWentStale
  <2>6. j.fresh \in BOOLEAN BY ZenonT(30), <2>2
  <2>7. j.pc \in Keyed \cup Unkeyed /\ j.index \in Nat BY <2>2 DEF Unkeyed
  <2> QED BY ZenonT(30), <1>1, <1>2, <1>3, <2>2, <2>3, <2>4, <2>5, <2>6, <2>7, WorkerStep
<1> QED BY Zenon, <1>4, <1>5, <1>6 DEF retryOrGiveUp

LEMMA CountsInv == ASSUME TInv, NEW w \in Workers, counts(w) PROVE TInv'
<1>1. Owns(w) BY Zenon DEF counts, At, Owns
<1>2. UNCHANGED <<queue, seals, keys, stored, late, parts>> BY Zenon DEF counts, server
<1> QED BY Zenon, <1>1, <1>2, CountInv DEF counts

LEMMA SessionInv == ASSUME TInv, NEW w \in Workers, uploadSession(w) PROVE TInv'
<1>1. Owns(w) /\ job[w].pc = "session" BY Zenon DEF uploadSession, At, Owns
<1>2. UNCHANGED <<queue, result, seals, keys, stored, late, parts>> /\ Serves(w)
  BY Zenon, LocalServes DEF uploadSession, server
<1>3. CASE Fail(w, "cancelled") BY ZenonT(30), <1>1, <1>2, <1>3, EndInv DEF Fail
<1>4. CASE \E why \in {"transient", "rate", "permanent"} :
               Set(w, [job[w] EXCEPT !.pc = "error", !.why = why])
  BY ZenonT(30), <1>1, <1>2, <1>4, EndInv DEF Keyed
<1>5. CASE Set(w, IF job[w].fresh
                  THEN [job[w] EXCEPT !.pc = "chunk", !.sess = session', !.try = 1]
                  ELSE [job[w] EXCEPT !.pc = "chunk", !.sess = session', !.id = ids + 1,
                                      !.index = 0, !.try = 1])
  <2>1. PICK j : j = IF job[w].fresh
                     THEN [job[w] EXCEPT !.pc = "chunk", !.sess = session', !.try = 1]
                     ELSE [job[w] EXCEPT !.pc = "chunk", !.sess = session', !.id = ids + 1,
                                         !.index = 0, !.try = 1]
    BY Zenon
  <2>2. DOMAIN job[w] = JobFields /\ job[w].fresh \in BOOLEAN /\ job[w].index \in Nat
        /\ DOMAIN job = Workers
    BY Zenon DEF TInv, Shape
  <2>3. job[w].fresh => job[w].index = 0 BY Zenon, <1>1 DEF TInv, Sent
  <2>4. /\ DOMAIN j = JobFields /\ j.pc = "chunk" /\ j.file = job[w].file /\ j.key = job[w].key
        /\ j.fresh = job[w].fresh /\ j.index = 0
    BY Zenon, <2>1, <2>2, <2>3 DEF JobFields
  <2>5. Set(w, j) /\ job'[w] = j BY Zenon, <1>5, <2>1, <2>2 DEF Set
  <2>6. Keeps(w, j) BY Zenon, <1>2, <2>4 DEF Keeps
  <2>7. Stage(w)' BY Zenon, <1>1, <2>4, <2>5 DEF TInv, Stage, Keyed
  <2>8. Sent(w)' BY <2>4, <2>5, ChunksAssumption DEF Sent
  <2> QED BY <1>1, <1>2, <2>2, <2>4, <2>5, <2>6, <2>7, <2>8, WorkerStep DEF Keyed
<1> QED BY Zenon, <1>3, <1>4, <1>5 DEF uploadSession

\* What became of a request, as its sender sees it.
Outcome(r, why) ==
    \/ Taken(r) /\ Effect(r) /\ UNCHANGED late
    \/ /\ why # "none" /\ UNCHANGED <<stored, before, parts>>
       /\ late' \in {late, late \cup {r}}

LEMMA OutcomeServes ==
    ASSUME TInv, NEW w \in Workers, NEW kind \in {"whole", "chunk", "final"}, NEW why,
           job[w].pc \in Keyed, Outcome(Request(w, kind), why)
    PROVE  /\ Serves(w)
           /\ why = "none" /\ kind # "chunk" => \E v \in stored' : v.file = job[w].file
           /\ why = "none" /\ kind = "chunk"
                  => <<job[w].sess, job[w].id, job[w].index>> \in parts'
<1> DEFINE r == Request(w, kind)
<1>1. /\ r.kind = kind /\ r.file = job[w].file /\ r.key = job[w].key /\ r.sess = job[w].sess
      /\ r.id = job[w].id /\ r.index = job[w].index
  BY Zenon DEF Request
<1> HIDE DEF r
<1>2. job[w].key # 0 BY Zenon DEF TInv, Stage
<1>3. CASE Taken(r) /\ Effect(r) /\ UNCHANGED late
  <2>1. Serves(w) BY Zenon, <1>1, <1>2, <1>3 DEF Serves, Effect, Pair
  <2>2. ASSUME kind # "chunk" PROVE \E v \in stored' : v.file = job[w].file
    <3>1. CASE Has(r.key)
      <4>1. PICK v \in stored : v.key = job[w].key BY Zenon, <3>1, <1>1 DEF Has
      <4>2. v.file = job[w].file BY Zenon, <4>1 DEF TInv, KeyFile
      <4> QED BY ZenonT(30), <4>1, <4>2, <1>3 DEF Effect
    <3>2. CASE ~Has(r.key)
      <4>1. [file |-> r.file, key |-> r.key] \in stored' BY Zenon, <3>2, <1>1, <1>3, <2>2 DEF Effect
      <4> QED BY Zenon, <4>1, <1>1
    <3> QED BY Zenon, <3>1, <3>2
  <2>3. kind = "chunk" => <<r.sess, r.id, r.index>> \in parts' BY Zenon, <1>1, <1>3 DEF Effect
  <2> QED BY Zenon, <2>1, <2>2, <2>3, <1>1
<1>4. CASE /\ why # "none" /\ UNCHANGED <<stored, before, parts>>
           /\ late' \in {late, late \cup {r}}
  BY Zenon, <1>1, <1>2, <1>4 DEF Serves
<1> QED BY Zenon, <1>3, <1>4 DEF Outcome, r

\* A worker keeps its file and key and goes on at pc.
LEMMA RequestInv ==
    ASSUME TInv, NEW w \in Workers, NEW j, Owns(w), Set(w, j), job[w].pc \in Keyed,
           DOMAIN j = JobFields, j.pc \in Keyed \ {"gate", "whole"} \/ j.pc = job[w].pc,
           j.file = job[w].file, j.key = job[w].key, j.index \in Nat, j.fresh \in BOOLEAN,
           UNCHANGED <<queue, result, seals, keys>>, Serves(w), Sent(w)',
           j.pc = "done" => \E v \in stored' : v.file = job[w].file
    PROVE  TInv'
<1>1. job'[w] = j BY ZenonT(30) DEF TInv, Shape, Set
<1>2. Keeps(w, j) BY ZenonT(30) DEF Keeps, Keyed
<1>3. Stage(w)' BY ZenonT(30), <1>1 DEF TInv, Stage, Keyed, Versions
<1> QED BY ZenonT(30), <1>2, <1>3, WorkerStep DEF Keyed

LEMMA WholeInv == ASSUME TInv, NEW w \in Workers, uploadWholeBody(w) PROVE TInv'
<1>1. Owns(w) /\ job[w].pc = "whole" BY Zenon DEF uploadWholeBody, At, Owns
<1>2. UNCHANGED <<queue, result, seals, keys>> BY Zenon DEF uploadWholeBody
<1>3. CASE cancelled
  <2>1. Fail(w, "cancelled") /\ UNCHANGED server BY Zenon, <1>3 DEF uploadWholeBody
  <2> QED BY ZenonT(30), <1>1, <1>2, <2>1, LocalServes, EndInv DEF Fail
<1>4. CASE ~cancelled
  <2> DEFINE J(why) == IF why = "none" THEN [job[w] EXCEPT !.pc = "done"]
                       ELSE IF why = "toolarge" THEN [job[w] EXCEPT !.pc = "session"]
                       ELSE IF isTransient(why) /\ job[w].try < Attempts
                       THEN [job[w] EXCEPT !.try = @ + 1]
                       ELSE [job[w] EXCEPT !.pc = "error", !.why = why]
  <2>1. PICK why : Set(w, J(why)) /\ Outcome(Request(w, "whole"), why)
    BY ZenonT(30), <1>4 DEF uploadWholeBody, Exchange, GivenUp, Outcome, server, Refusals
  <2>2. /\ Serves(w)
        /\ why = "none" => \E v \in stored' : v.file = job[w].file
    <3>1. job[w].pc \in Keyed /\ Outcome(Request(w, "whole"), why) BY Zenon, <1>1, <2>1 DEF Keyed
    <3>2. "whole" \in {"whole", "chunk", "final"} /\ "whole" # "chunk" BY Zenon
    <3> HIDE DEF J
    <3> QED BY ZenonT(30), <3>1, <3>2, OutcomeServes
  <2>3. PICK j : j = J(why) BY ZenonT(30)
  <2>4. DOMAIN job[w] = JobFields /\ job[w].fresh \in BOOLEAN /\ job[w].index \in Nat
        /\ DOMAIN job = Workers
    BY Zenon DEF TInv, Shape
  <2>5. ~job[w].fresh BY Zenon, <1>1 DEF TInv, Sent
  <2>6. /\ DOMAIN j = JobFields /\ j.file = job[w].file /\ j.key = job[w].key
        /\ j.fresh = job[w].fresh /\ j.index = job[w].index
        /\ j.pc \in {"done", "session", "error", "whole"} /\ (j.pc = "done" => why = "none")
    BY Zenon, <1>1, <2>3, <2>4 DEF JobFields
  <2>7. Set(w, j) /\ job'[w] = j BY Zenon, <2>1, <2>3, <2>4 DEF Set
  <2>8. Sent(w)' BY Zenon, <2>5, <2>6, <2>7 DEF Sent
  <2> QED BY Zenon, <1>1, <1>2, <2>2, <2>4, <2>6, <2>7, <2>8, RequestInv DEF Keyed
<1> QED BY Zenon, <1>3, <1>4

LEMMA ChunkInv == ASSUME TInv, NEW w \in Workers, uploadChunked(w) PROVE TInv'
<1>1. Owns(w) /\ job[w].pc = "chunk" BY Zenon DEF uploadChunked, At, Owns
<1>2. UNCHANGED <<queue, result, seals, keys>> BY Zenon DEF uploadChunked
<1>3. CASE cancelled
  <2>1. Fail(w, "cancelled") /\ UNCHANGED server BY Zenon, <1>3 DEF uploadChunked
  <2> QED BY ZenonT(30), <1>1, <1>2, <2>1, LocalServes, EndInv DEF Fail
<1>4. CASE ~cancelled
  <2> DEFINE J(why) ==
          IF why = "none"
          THEN [job[w] EXCEPT !.pc = IF job[w].index + 1 < Chunks THEN "chunk" ELSE "final",
                              !.index = @ + 1, !.try = 1, !.waits = 0, !.budget = 0]
          ELSE IF uploadRetryable(why) /\ job[w].try < ChunkAttempts
          THEN [job[w] EXCEPT !.try = @ + 1]
          ELSE IF Refreshable(job[w], why) THEN [job[w] EXCEPT !.pc = "session", !.fresh = TRUE]
          ELSE [job[w] EXCEPT !.pc = "error", !.why = why]
  <2>1. PICK why : Set(w, J(why)) /\ Outcome(Request(w, "chunk"), why)
    BY ZenonT(30), <1>4 DEF uploadChunked, Exchange, GivenUp, Outcome, server, Refusals
  <2>2. /\ Serves(w)
        /\ why = "none" => <<job[w].sess, job[w].id, job[w].index>> \in parts'
    BY <1>1, <2>1, OutcomeServes DEF Keyed
  <2>3. PICK j : j = J(why) BY ZenonT(30)
  <2>4. DOMAIN job[w] = JobFields /\ job[w].fresh \in BOOLEAN /\ job[w].index \in Nat
        /\ DOMAIN job = Workers /\ job[w].index < Chunks
        /\ \A i \in 0 .. job[w].index - 1 : <<job[w].sess, job[w].id, i>> \in parts
    BY Zenon, <1>1 DEF TInv, Shape, Sent
  <2>5. Set(w, j) BY Zenon, <2>1, <2>3
  <2>6. job'[w] = j BY Zenon, <2>4, <2>5 DEF Set
  <2>7. parts \subseteq parts' BY Zenon, <2>2 DEF Serves
  <2>8. CASE why = "none"
    <3>1. j = [job[w] EXCEPT !.pc = IF job[w].index + 1 < Chunks THEN "chunk" ELSE "final",
                             !.index = @ + 1, !.try = 1, !.waits = 0, !.budget = 0]
      BY Zenon, <2>3, <2>8
    <3>2. /\ DOMAIN j = JobFields /\ j.file = job[w].file /\ j.key = job[w].key
          /\ j.fresh = job[w].fresh /\ j.index = job[w].index + 1
          /\ j.sess = job[w].sess /\ j.id = job[w].id
          /\ j.pc = IF job[w].index + 1 < Chunks THEN "chunk" ELSE "final"
      BY Zenon, <3>1, <2>4 DEF JobFields
    <3>3. \A i \in 0 .. j.index - 1 : <<j.sess, j.id, i>> \in parts'
      <4> SUFFICES ASSUME NEW i \in 0 .. j.index - 1 PROVE <<job[w].sess, job[w].id, i>> \in parts'
        BY Zenon, <3>2
      <4>1. i = job[w].index \/ i \in 0 .. job[w].index - 1 BY <3>2, <2>4
      <4> QED BY Zenon, <4>1, <2>2, <2>4, <2>7, <2>8
    <3>4. Sent(w)' BY <3>2, <3>3, <2>4, <2>6, ChunksAssumption DEF Sent
    <3>5. j.pc \in {"chunk", "final"} /\ j.index \in Nat BY <3>2, <2>4
    <3> QED BY Zenon, <1>1, <1>2, <2>2, <2>4, <2>5, <3>2, <3>4, <3>5, RequestInv DEF Keyed
  <2>9. CASE why # "none"
    <3>1. /\ DOMAIN j = JobFields /\ j.file = job[w].file /\ j.key = job[w].key
          /\ j.index = job[w].index /\ j.sess = job[w].sess /\ j.id = job[w].id
          /\ \/ j.pc \in {"chunk", "error"} /\ j.fresh = job[w].fresh
             \/ j.pc = "session" /\ j.fresh = TRUE /\ j.index = 0
      BY ZenonT(30), <1>1, <2>3, <2>4, <2>9 DEF JobFields, Refreshable
    <3>2. Sent(w)' BY Zenon, <3>1, <2>4, <2>6, <2>7 DEF Sent
    <3>3. j.fresh \in BOOLEAN BY ZenonT(30), <3>1, <2>4
    <3> QED BY ZenonT(30), <1>1, <1>2, <2>2, <2>4, <2>5, <3>1, <3>2, <3>3, RequestInv DEF Keyed
  <2> QED BY Zenon, <2>8, <2>9
<1> QED BY Zenon, <1>3, <1>4

LEMMA FinalInv == ASSUME TInv, NEW w \in Workers, finalizeChunkedUpload(w) PROVE TInv'
<1>1. Owns(w) /\ job[w].pc = "final" BY Zenon DEF finalizeChunkedUpload, At, Owns
<1>2. UNCHANGED <<queue, result, seals, keys>> BY Zenon DEF finalizeChunkedUpload
<1>3. CASE cancelled
  <2>1. Fail(w, "cancelled") /\ UNCHANGED server BY Zenon, <1>3 DEF finalizeChunkedUpload
  <2> QED BY ZenonT(30), <1>1, <1>2, <2>1, LocalServes, EndInv DEF Fail
<1>4. CASE ~cancelled
  <2> DEFINE J(why) ==
          IF why = "none" THEN [job[w] EXCEPT !.pc = "done"]
          ELSE IF why \in {"pending", "busy"}
          THEN IF job[w].waits < ScanWaits THEN [job[w] EXCEPT !.waits = @ + 1, !.try = 1]
               ELSE [job[w] EXCEPT !.pc = "error", !.why = "transient"]
          ELSE IF why = "budget" /\ job[w].budget < BudgetWaits
          THEN [job[w] EXCEPT !.budget = @ + 1, !.try = 1]
          ELSE IF uploadRetryable(why) /\ job[w].try < ChunkAttempts
          THEN [job[w] EXCEPT !.try = @ + 1]
          ELSE [job[w] EXCEPT !.pc = "error", !.why = why]
  <2>1. PICK why : Set(w, J(why)) /\ Outcome(Request(w, "final"), why)
    BY ZenonT(30), <1>4 DEF finalizeChunkedUpload, Exchange, GivenUp, Outcome, server, Refusals
  <2>2. /\ Serves(w)
        /\ why = "none" => \E v \in stored' : v.file = job[w].file
    <3>1. job[w].pc \in Keyed /\ Outcome(Request(w, "final"), why) BY Zenon, <1>1, <2>1 DEF Keyed
    <3>2. "final" \in {"whole", "chunk", "final"} /\ "final" # "chunk" BY Zenon
    <3> HIDE DEF J
    <3> QED BY ZenonT(30), <3>1, <3>2, OutcomeServes
  <2>3. PICK j : j = J(why) BY ZenonT(30)
  <2>4. DOMAIN job[w] = JobFields /\ job[w].fresh \in BOOLEAN /\ job[w].index \in Nat
        /\ DOMAIN job = Workers
    BY Zenon DEF TInv, Shape
  <2>5. parts \subseteq parts' BY Zenon, <2>2 DEF Serves
  <2>6. /\ DOMAIN j = JobFields /\ j.file = job[w].file /\ j.key = job[w].key
        /\ j.fresh = job[w].fresh /\ j.index = job[w].index
        /\ j.sess = job[w].sess /\ j.id = job[w].id
        /\ j.pc \in {"done", "error", "final"} /\ (j.pc = "done" => why = "none")
    BY Zenon, <1>1, <2>3, <2>4 DEF JobFields
  <2>7. Set(w, j) /\ job'[w] = j BY Zenon, <2>1, <2>3, <2>4 DEF Set
  <2>8. Sent(w)' BY ZenonT(30), <1>1, <2>5, <2>6, <2>7 DEF TInv, Sent
  <2> QED BY Zenon, <1>1, <1>2, <2>2, <2>4, <2>6, <2>7, <2>8, RequestInv DEF Keyed
<1> QED BY Zenon, <1>3, <1>4

-----------------------------------------------------------------------------
(* The results.                                                             *)

LEMMA TNextInv == TInv /\ [TNext]_tvars => TInv'
<1> SUFFICES ASSUME TInv, [TNext]_tvars PROVE TInv'
  BY Zenon
<1>1. CASE ensureRemoteDir \/ GateOpens \/ Interrupt \/ UNCHANGED tvars
  <2>1. UNCHANGED tcore
    BY Zenon, <1>1 DEF ensureRemoteDir, GateOpens, Interrupt, tvars, tcore, server
  <2> QED BY Zenon, <2>1, StutterInv
<1>2. CASE LateArrives BY Zenon, <1>2, LateInv
<1>3. ASSUME NEW w \in Workers, Work(w) PROVE TInv'
  BY Zenon, <1>3, UploadOneInv, AlreadyUploadedInv, SealInv, SendInv, UploadInv, WholeInv, SessionInv,
     ChunkInv, FinalInv, RetryInv, CountsInv
  DEF Work
<1> QED BY Zenon, <1>1, <1>2, <1>3 DEF TNext

\* The invariant holds in every run of `pc ul`, for any number of workers and files.
THEOREM TInvariant == TSpec => []TInv
<1>1. TInit => TInv BY Zenon, TInitInv
<1>2. TInv /\ [TNext]_tvars => TInv' BY Zenon, TNextInv
<1> QED BY <1>1, <1>2, PTL DEF TSpec

\* finalizeChunkedUpload is only sent for an upload all of whose chunks the server has,
\* in the session it is sent in.
THEOREM FinaliseIsComplete == TSpec => []FinaliseComplete
<1>1. TInv => FinaliseComplete
  <2> SUFFICES ASSUME TInv, NEW w \in Workers, At(w, "final")
               PROVE  Complete(Request(w, "final"))
    BY Zenon DEF FinaliseComplete
  <2>1. /\ job[w].index = Chunks
        /\ \A i \in 0 .. job[w].index - 1 : <<job[w].sess, job[w].id, i>> \in parts
    BY Zenon DEF TInv, Sent, At
  <2> QED BY Zenon, <2>1 DEF Complete, Request
<1>2. TSpec => []TInv BY Zenon, TInvariant
<1> QED BY <1>1, <1>2, PTL

\* A version that the server takes was sealed, and not taken before.
LEMMA Arrives ==
    ASSUME TInv, NEW f \in Files, NEW k, Pair(f, k) \in Possible(f), ~Has(k),
           stored' = stored \cup {Pair(f, k)}, UNCHANGED <<seals, result>>
    PROVE  D!Arrive(f)
<1> DEFINE n(g) == Cardinality(Versions(g))
<1>1. Pair(f, k).file = f /\ Pair(f, k).key = k BY Zenon DEF Pair
<1>2. Versions(f)' = Versions(f) \cup {Pair(f, k)} BY Zenon, <1>1 DEF Versions
<1>3. \A g \in Files : g # f => Versions(g)' = Versions(g) BY Zenon, <1>1 DEF Versions
<1>4. Versions(f) \subseteq Possible(f)
  BY Zenon DEF Versions, Possible, TInv, Shape
<1>5. Pair(f, k) \notin Versions(f) BY Zenon, <1>1 DEF Versions, Has
<1>6. /\ IsFiniteSet(Possible(f)) /\ Cardinality(Possible(f)) \in Nat
      /\ Cardinality(Possible(f)) <= seals[f] /\ seals[f] \in 0 .. 2
  BY ZenonT(30), FS_CardinalityType DEF TInv, Counted, Shape
<1>7. IsFiniteSet(Versions(f)) /\ n(f) \in Nat BY Zenon, <1>4, <1>6, FS_Subset, FS_CardinalityType
<1>8. Cardinality(Versions(f) \cup {Pair(f, k)}) = n(f) + 1 BY ZenonT(30), <1>5, <1>7, FS_AddElement
<1>9. Versions(f) \cup {Pair(f, k)} \subseteq Possible(f) BY Zenon, <1>4
<1>10. Cardinality(Versions(f) \cup {Pair(f, k)}) <= Cardinality(Possible(f))
  BY Zenon, <1>6, <1>9, FS_Subset
<1>11. n(f) < seals[f] BY <1>6, <1>7, <1>8, <1>10
<1>12. [g \in Files |-> n(g)'] = [[g \in Files |-> n(g)] EXCEPT ![f] = @ + 1]
  BY ZenonT(30), <1>2, <1>3, <1>8
<1> QED BY Zenon, <1>11, <1>12 DEF D!Arrive

\* A step that leaves the three mapped variables alone.
LEMMA Unseen == UNCHANGED <<stored, seals, result>> => UNCHANGED D!dvars
BY Zenon DEF D!dvars, Versions

LEMMA NonEmpty == ASSUME NEW S, IsFiniteSet(S), S # {} PROVE Cardinality(S) > 0
<1>1. Cardinality(S) \in Nat BY Zenon, FS_CardinalityType
<1>2. Cardinality(S) # 0 BY Zenon, FS_EmptySet
<1> QED BY <1>1, <1>2

LEMMA Reports ==
    ASSUME TInv, NEW w \in Workers, NEW r \in {"uploaded", "failed", "skipped"}, Owns(w),
           Count(w, r), UNCHANGED <<stored, seals>>,
           r = "uploaded" => job[w].pc = "done"
    PROVE  D!Report(job[w].file, r) /\ job[w].file \in Files
<1> DEFINE f == job[w].file
<1>1. f \in Files /\ result[f] = "pending" BY ZenonT(30) DEF TInv, Shape, Owned, Owns
<1>2. ASSUME r = "uploaded" PROVE Cardinality(Versions(f)) > 0
  <2>1. Versions(f) # {} BY Zenon, <1>2 DEF TInv, Stage
  <2>2. Versions(f) \subseteq Possible(f) /\ IsFiniteSet(Possible(f))
    BY ZenonT(30), <1>1 DEF Versions, Possible, TInv, Shape, Counted
  <2>3. IsFiniteSet(Versions(f)) /\ Cardinality(Versions(f)) \in Nat
    BY ZenonT(30), <2>2, FS_Subset, FS_CardinalityType
  <2> QED BY Zenon, <2>1, <2>3, NonEmpty
<1>3. \A g \in Files : Versions(g)' = Versions(g) BY Zenon DEF Versions
<1> QED BY Zenon, <1>1, <1>2, <1>3 DEF D!Report, Count

\* A request of a worker or a late one: the server's part.
LEMMA EffectMaps ==
    ASSUME TInv, NEW r, r.file \in Files, Pair(r.file, r.key) \in Possible(r.file), Effect(r),
           UNCHANGED <<seals, result>>
    PROVE  D!DNext \/ UNCHANGED D!dvars
<1>1. CASE stored' = stored BY Zenon, <1>1, Unseen
<1>2. CASE ~Has(r.key) /\ stored' = stored \cup {Pair(r.file, r.key)}
  BY Zenon, <1>2, Arrives DEF D!DNext
<1> QED BY Zenon, <1>1, <1>2 DEF Effect, Pair

LEMMA RequestMaps ==
    ASSUME TInv, NEW w \in Workers, NEW kind, NEW why, Owns(w), job[w].pc \in Keyed,
           Outcome(Request(w, kind), why), UNCHANGED <<seals, result>>
    PROVE  D!DNext \/ UNCHANGED D!dvars
<1> DEFINE r == Request(w, kind)
<1>1. r.file = job[w].file /\ r.key = job[w].key BY Zenon DEF Request
<1>2. job[w].key \in 1 .. keys /\ job[w].file \in Files
  <2>1. job[w].key # 0 BY Zenon DEF TInv, Stage
  <2>2. job[w].key \in 0 .. keys /\ keys \in Nat BY Zenon DEF TInv, Shape
  <2>3. job[w].file \in Files BY Zenon DEF TInv, Shape, Owns
  <2> QED BY SMTT(30), <2>1, <2>2, <2>3
<1>3. Pair(r.file, r.key) \in Possible(r.file) BY Zenon, <1>1, <1>2 DEF Possible, Pair
<1>4. CASE Effect(r) BY ZenonT(30), <1>1, <1>2, <1>3, <1>4, EffectMaps
<1>5. CASE UNCHANGED stored BY Zenon, <1>5, Unseen
<1> QED BY Zenon, <1>4, <1>5 DEF Outcome

LEMMA WorkMaps ==
    ASSUME TInv, NEW w \in Workers, Work(w) PROVE D!DNext \/ UNCHANGED D!dvars
<1>1. CASE uploadOne(w) \/ send(w) \/ Upload(w) \/ uploadSession(w) \/ retryOrGiveUp(w)
  BY Zenon, <1>1, Unseen DEF uploadOne, send, Upload, uploadSession, retryOrGiveUp, server
<1>2. CASE alreadyUploaded(w)
  <2>1. Owns(w) /\ UNCHANGED <<stored, seals>> BY Zenon, <1>2 DEF alreadyUploaded, At, Owns, server
  <2>2. CASE Count(w, "skipped") BY Zenon, <2>1, <2>2, Reports DEF D!DNext
  <2>3. CASE Count(w, "failed") BY Zenon, <2>1, <2>3, Reports DEF D!DNext
  <2>4. CASE UNCHANGED result BY Zenon, <2>1, <2>4, Unseen
  <2> QED BY Zenon, <1>2, <2>2, <2>3, <2>4 DEF alreadyUploaded
<1>3. CASE counts(w)
  <2>1. Owns(w) /\ UNCHANGED <<stored, seals>> BY Zenon, <1>3 DEF counts, At, Owns, server
  <2>2. CASE At(w, "done") /\ Count(w, "uploaded") BY Zenon, <2>1, <2>2, Reports DEF D!DNext, At
  <2>3. CASE Count(w, "failed") BY Zenon, <2>1, <2>3, Reports DEF D!DNext
  <2> QED BY Zenon, <1>3, <2>2, <2>3 DEF counts
<1>4. CASE sealForUpload(w) \/ sendResealingOnce(w)
  <2> DEFINE f == job[w].file
  <2>1. /\ f \in Files /\ seals[f] < 2 /\ result[f] = "pending"
        /\ seals' = [seals EXCEPT ![f] = @ + 1] /\ UNCHANGED <<stored, result>>
    <3>1. job[w].pc \in {"seal", "reseal"} BY Zenon, <1>4 DEF sealForUpload, sendResealingOnce, At
    <3>2. f \in Files BY Zenon, <3>1 DEF TInv, Shape
    <3>3. seals[f] < 2 BY <3>1, <3>2 DEF TInv, Stage
    <3>4. result[f] = "pending" BY Zenon, <3>1 DEF TInv, Owned, Owns
    <3>5. seals' = [seals EXCEPT ![f] = @ + 1] /\ UNCHANGED <<stored, result>>
      BY Zenon, <1>4 DEF sealForUpload, sendResealingOnce, server
    <3> QED BY Zenon, <3>2, <3>3, <3>4, <3>5
  <2>2. \A g \in Files : Versions(g)' = Versions(g) BY Zenon, <2>1 DEF Versions
  <2>3. D!Seal(f) BY Zenon, <2>1, <2>2 DEF D!Seal
  <2> QED BY Zenon, <2>1, <2>3 DEF D!DNext
<1>5. CASE uploadWholeBody(w)
  <2>1. Owns(w) /\ job[w].pc \in Keyed /\ UNCHANGED <<seals, result>>
    BY Zenon, <1>5 DEF uploadWholeBody, At, Owns, Keyed
  <2>2. UNCHANGED stored \/ \E why : Outcome(Request(w, "whole"), why)
    BY ZenonT(30), <1>5 DEF uploadWholeBody, Exchange, GivenUp, Outcome, server, Refusals
  <2> QED BY Zenon, <2>1, <2>2, Unseen, RequestMaps
<1>6. CASE uploadChunked(w)
  <2>1. Owns(w) /\ job[w].pc \in Keyed /\ UNCHANGED <<seals, result>>
    BY Zenon, <1>6 DEF uploadChunked, At, Owns, Keyed
  <2>2. UNCHANGED stored \/ \E why : Outcome(Request(w, "chunk"), why)
    BY ZenonT(30), <1>6 DEF uploadChunked, Exchange, GivenUp, Outcome, server, Refusals
  <2> QED BY Zenon, <2>1, <2>2, Unseen, RequestMaps
<1>7. CASE finalizeChunkedUpload(w)
  <2>1. Owns(w) /\ job[w].pc \in Keyed /\ UNCHANGED <<seals, result>>
    BY Zenon, <1>7 DEF finalizeChunkedUpload, At, Owns, Keyed
  <2>2. UNCHANGED stored \/ \E why : Outcome(Request(w, "final"), why)
    BY ZenonT(30), <1>7 DEF finalizeChunkedUpload, Exchange, GivenUp, Outcome, server, Refusals
  <2> QED BY Zenon, <2>1, <2>2, Unseen, RequestMaps
<1> QED BY Zenon, <1>1, <1>2, <1>3, <1>4, <1>5, <1>6, <1>7 DEF Work

LEMMA TNextMaps == TInv /\ [TNext]_tvars => [D!DNext]_(D!dvars)
<1> SUFFICES ASSUME TInv, [TNext]_tvars PROVE D!DNext \/ UNCHANGED D!dvars
  BY Zenon
<1>1. CASE ensureRemoteDir \/ GateOpens \/ Interrupt \/ UNCHANGED tvars
  BY Zenon, <1>1, Unseen DEF ensureRemoteDir, GateOpens, Interrupt, tvars, server
<1>2. CASE LateArrives
  <2>1. PICK r \in late : Effect(r) \/ UNCHANGED <<stored, before, parts>>
    BY Zenon, <1>2 DEF LateArrives
  <2>2. UNCHANGED <<seals, result>> BY Zenon, <1>2 DEF LateArrives
  <2>3. r.file \in Files /\ r.key \in 1 .. keys BY Zenon DEF TInv, Shape
  <2>4. Pair(r.file, r.key) \in Possible(r.file) BY Zenon, <2>3 DEF Possible, Pair
  <2> QED BY Zenon, <2>1, <2>2, <2>3, <2>4, Unseen, EffectMaps
<1>3. ASSUME NEW w \in Workers, Work(w) PROVE D!DNext \/ UNCHANGED D!dvars
  BY Zenon, <1>3, WorkMaps
<1> QED BY Zenon, <1>1, <1>2, <1>3 DEF TNext

LEMMA TInitMaps == TInit => D!DInit
<1> SUFFICES ASSUME TInit PROVE D!DInit
  BY Zenon
<1>1. \A f \in Files : Cardinality(Versions(f)) = 0 BY Zenon, FS_EmptySet DEF TInit, Versions
<1>2. result \in [Files -> {"pending", "skipped"}]
  BY Zenon DEF TInit, runUpload, runRecursiveUpload
<1> QED BY Zenon, <1>1, <1>2 DEF TInit, D!DInit

\* `pc ul` implements Delivery: whatever is lost, repeated, late or interrupted, a file gets
\* at most one version for each time it was sealed, is counted once, and is counted as
\* uploaded only when the server has it.
THEOREM TransferDelivers == TSpec => DeliveryRefined
<1>1. TInit => D!DInit BY Zenon, TInitMaps
<1>2. TInv /\ [TNext]_tvars => [D!DNext]_(D!dvars) BY Zenon, TNextMaps
<1>3. TSpec => []TInv BY Zenon, TInvariant
<1> QED BY <1>1, <1>2, <1>3, PTL DEF TSpec, DeliveryRefined, D!DSpec

-----------------------------------------------------------------------------
(* The retries of an upload: every counter within its limit.                *)

Within(j, i, s) ==
    /\ j.rate \in 0 .. RateRetries /\ j.try \in 0 .. Attempts + ChunkAttempts
    /\ j.index \in 0 .. Chunks /\ j.id \in 0 .. i /\ j.sess \in 0 .. s
Limits ==
    /\ phase \in {"dirs", "run", "exit"} /\ flags \in Flags
    /\ ids \in Nat /\ session \in Nat
    /\ \A w \in Workers : Within(job[w], ids, session)

\* A worker without a file is within every limit, and so is one that only moves on.
LEMMA NoJobWithin ==
    ASSUME NEW i \in Nat, NEW s \in Nat, NEW j, j.rate = 0, j.try = 0, j.index = 0, j.id = 0, j.sess = 0
    PROVE  Within(j, i, s)
  BY RetriesAssumption, AttemptsAssumption, ChunksAssumption DEF Within
LEMMA SameWithin ==
    ASSUME NEW i, NEW s, NEW k, Within(k, i, s), NEW j, j.rate = k.rate, j.try = k.try, j.index = k.index,
           j.id = k.id, j.sess = k.sess
    PROVE  Within(j, i, s)
  BY Zenon DEF Within

\* A step of one worker that keeps its own limits keeps everybody's.
LEMMA LimitStep ==
    ASSUME TInv, Limits, NEW w \in Workers, NEW j, Set(w, j), UNCHANGED <<phase, flags>>,
           ids' \in {ids, ids + 1}, session' \in {session, session + 1}, Within(j, ids', session')
    PROVE  Limits'
<1>1. DOMAIN job = Workers
  BY Zenon DEF TInv, Shape
<1>2. job'[w] = j /\ \A v \in Workers \ {w} : job'[v] = job[v]
  BY Zenon, <1>1 DEF Set
<1>3. ids \in Nat /\ session \in Nat /\ ids' \in Nat /\ session' \in Nat /\ ids <= ids' /\ session <= session'
  BY DEF Limits
<1>4. ASSUME NEW v \in Workers \ {w} PROVE Within(job[v], ids', session')
  <2>1. Within(job[v], ids, session)
    BY Zenon, <1>4 DEF Limits
  <2> QED
    BY <1>3, <2>1 DEF Within
<1> QED
  BY Zenon, <1>2, <1>3, <1>4 DEF Limits

\* A worker that moves on, fails or is done with its file.
LEMMA MoveLimits ==
    ASSUME TInv, Limits, NEW w \in Workers,
           \/ \E pc : Go(w, pc)
           \/ \E why : Fail(w, why)
           \/ Set(w, NoJob)
           \/ \E pc, f : Set(w, [NoJob EXCEPT !.pc = pc, !.file = f]),
           UNCHANGED <<phase, flags, ids, session>>
    PROVE  Limits'
<1>1. DOMAIN job[w] = JobFields /\ Within(job[w], ids, session) /\ ids \in Nat /\ session \in Nat
  BY Zenon DEF TInv, Shape, Limits
<1>2. ASSUME NEW pc PROVE Within([job[w] EXCEPT !.pc = pc], ids, session)
  BY Zenon, <1>1, SameWithin DEF JobFields
<1>3. ASSUME NEW why PROVE Within([job[w] EXCEPT !.pc = "failed", !.why = why], ids, session)
  BY Zenon, <1>1, SameWithin DEF JobFields
<1>4. ASSUME NEW pc, NEW f PROVE Within([NoJob EXCEPT !.pc = pc, !.file = f], ids, session)
  BY Zenon, <1>1, NoJobWithin DEF NoJob
<1>5. Within(NoJob, ids, session)
  BY Zenon, <1>1, NoJobWithin DEF NoJob
<1>6. PICK j : Set(w, j) /\ Within(j, ids, session)
  BY Zenon, <1>2, <1>3, <1>4, <1>5 DEF Go, Fail
<1> QED
  BY Zenon, <1>6, LimitStep

\* The steps around the requests.
LEMMA SealLimits ==
    ASSUME TInv, Limits, NEW w \in Workers,
           \/ uploadOne(w) \/ alreadyUploaded(w) \/ sealForUpload(w) \/ sendResealingOnce(w) \/ counts(w)
    PROVE  Limits'
<1>1. UNCHANGED <<phase, flags, ids, session>>
  BY Zenon DEF uploadOne, alreadyUploaded, sealForUpload, sendResealingOnce, counts
<1>2. \/ \E pc : Go(w, pc)
      \/ Set(w, NoJob)
      \/ \E pc, f : Set(w, [NoJob EXCEPT !.pc = pc, !.file = f])
  BY Zenon DEF uploadOne, alreadyUploaded, sealForUpload, sendResealingOnce, counts, Count
<1> QED
  BY Zenon, <1>1, <1>2, MoveLimits

LEMMA SendLimits ==
    ASSUME TInv, Limits, NEW w \in Workers, send(w) \/ Upload(w) \/ retryOrGiveUp(w)
    PROVE  Limits'
<1>1. UNCHANGED <<phase, flags, ids, session>>
  BY Zenon DEF send, Upload, retryOrGiveUp
<1>2. /\ DOMAIN job[w] = JobFields /\ Within(job[w], ids, session) /\ ids \in {ids, ids + 1}
      /\ session \in {session, session + 1}
  BY Zenon DEF TInv, Shape, Limits
<1>3. 0 \in 0 .. RateRetries /\ 1 \in 0 .. Attempts + ChunkAttempts
  BY RetriesAssumption, AttemptsAssumption
<1>4. CASE send(w)
  <2>1. PICK j : Set(w, j) /\ j = [job[w] EXCEPT !.pc = "gate", !.key = keys + 1, !.rate = 0]
    BY Zenon, <1>4 DEF send
  <2>2. j.rate = 0 /\ j.try = job[w].try /\ j.index = job[w].index /\ j.id = job[w].id /\ j.sess = job[w].sess
    BY Zenon, <1>2, <2>1 DEF JobFields
  <2>3. Within(j, ids, session)
    BY Zenon, <1>2, <1>3, <2>2 DEF Within
  <2> QED
    BY Zenon, <1>1, <1>2, <2>1, <2>3, LimitStep
<1>5. CASE Upload(w)
  <2>1. CASE cancelled
    BY Zenon, <1>1, <1>5, <2>1, MoveLimits DEF Upload
  <2>2. CASE ~cancelled
    <3>1. PICK pc : Set(w, [job[w] EXCEPT !.pc = pc, !.try = 1])
      BY Zenon, <1>5, <2>2 DEF Upload
    <3>2. PICK j : Set(w, j) /\ j = [job[w] EXCEPT !.pc = pc, !.try = 1]
      BY Zenon, <3>1
    <3>3. j.rate = job[w].rate /\ j.try = 1 /\ j.index = job[w].index /\ j.id = job[w].id /\ j.sess = job[w].sess
      BY Zenon, <1>2, <3>2 DEF JobFields
    <3>4. Within(j, ids, session)
      BY Zenon, <1>2, <1>3, <3>3 DEF Within
    <3> QED
      BY Zenon, <1>1, <1>2, <3>2, <3>4, LimitStep
  <2> QED
    BY Zenon, <2>1, <2>2
<1>6. CASE retryOrGiveUp(w)
  <2>1. CASE job[w].rate < RateRetries
             /\ Set(w, [job[w] EXCEPT !.pc = "gate", !.rate = @ + 1, !.fresh = FALSE])
    <3>1. PICK j : Set(w, j) /\ j = [job[w] EXCEPT !.pc = "gate", !.rate = @ + 1, !.fresh = FALSE]
      BY Zenon, <2>1
    <3>2. /\ j.rate = job[w].rate + 1 /\ j.try = job[w].try /\ j.index = job[w].index /\ j.id = job[w].id
          /\ j.sess = job[w].sess
      BY Zenon, <1>2, <3>1 DEF JobFields
    <3>3. job[w].rate + 1 \in 0 .. RateRetries
      BY <1>2, <2>1, RetriesAssumption DEF Within
    <3>4. Within(j, ids, session)
      BY Zenon, <1>2, <3>2, <3>3 DEF Within
    <3> QED
      BY Zenon, <1>1, <1>2, <3>1, <3>4, LimitStep
  <2>2. CASE (\E why : Fail(w, why)) \/ \E f : Set(w, [NoJob EXCEPT !.pc = "reseal", !.file = f])
    BY Zenon, <1>1, <2>2, MoveLimits
  <2> QED
    BY Zenon, <1>6, <2>1, <2>2 DEF retryOrGiveUp
<1> QED
  BY Zenon, <1>4, <1>5, <1>6

\* A request and what the worker does with its outcome: a retry only below its limit, a chunk
\* only below the number of chunks.
LEMMA RequestLimits ==
    ASSUME TInv, Limits, NEW w \in Workers, NEW j, Set(w, j), UNCHANGED <<phase, flags, ids, session>>,
           j.rate = job[w].rate, j.id = job[w].id, j.sess = job[w].sess,
           \/ j.index = job[w].index
           \/ job[w].pc = "chunk" /\ j.index = job[w].index + 1,
           \/ j.try \in {1, job[w].try}
           \/ j.try = job[w].try + 1 /\ (job[w].try < Attempts \/ job[w].try < ChunkAttempts)
    PROVE  Limits'
<1>1. /\ Within(job[w], ids, session) /\ ids \in {ids, ids + 1} /\ session \in {session, session + 1}
      /\ job[w].pc = "chunk" => job[w].index < Chunks
  BY Zenon DEF TInv, Sent, Limits
<1>2. j.try \in 0 .. Attempts + ChunkAttempts
  BY <1>1, AttemptsAssumption DEF Within
<1>3. j.index \in 0 .. Chunks
  BY <1>1, ChunksAssumption DEF Within
<1>4. Within(j, ids, session)
  BY Zenon, <1>1, <1>2, <1>3 DEF Within
<1> QED
  BY Zenon, <1>1, <1>4, LimitStep

LEMMA WholeLimits == ASSUME TInv, Limits, NEW w \in Workers, uploadWholeBody(w) PROVE Limits'
<1>1. UNCHANGED <<phase, flags, ids, session>>
  BY Zenon DEF uploadWholeBody
<1>2. CASE cancelled
  BY Zenon, <1>1, <1>2, MoveLimits DEF uploadWholeBody
<1>3. CASE ~cancelled
  <2> DEFINE J(why) ==
          IF why = "none" THEN [job[w] EXCEPT !.pc = "done"]
          ELSE IF why = "toolarge" THEN [job[w] EXCEPT !.pc = "session"]
          ELSE IF isTransient(why) /\ job[w].try < Attempts
          THEN [job[w] EXCEPT !.try = @ + 1]
          ELSE [job[w] EXCEPT !.pc = "error", !.why = why]
  <2>1. PICK why : Set(w, J(why))
    BY ZenonT(30), <1>3 DEF uploadWholeBody, Exchange
  <2>2. PICK j : j = J(why)
    BY ZenonT(30)
  <2>3. DOMAIN job[w] = JobFields
    BY Zenon DEF TInv, Shape
  <2>4. /\ j.rate = job[w].rate /\ j.id = job[w].id /\ j.sess = job[w].sess /\ j.index = job[w].index
        /\ j.try = job[w].try \/ (j.try = job[w].try + 1 /\ job[w].try < Attempts)
    BY ZenonT(30), <2>2, <2>3 DEF JobFields
  <2>5. Set(w, j)
    BY Zenon, <2>1, <2>2
  <2> HIDE DEF J
  <2> QED
    BY Zenon, <1>1, <2>4, <2>5, RequestLimits
<1> QED
  BY Zenon, <1>2, <1>3

LEMMA ChunkLimits == ASSUME TInv, Limits, NEW w \in Workers, uploadChunked(w) PROVE Limits'
<1>1. UNCHANGED <<phase, flags, ids, session>> /\ job[w].pc = "chunk"
  BY Zenon DEF uploadChunked, At
<1>2. CASE cancelled
  BY Zenon, <1>1, <1>2, MoveLimits DEF uploadChunked
<1>3. CASE ~cancelled
  <2> DEFINE J(why) ==
          IF why = "none"
          THEN [job[w] EXCEPT !.pc = IF job[w].index + 1 < Chunks THEN "chunk" ELSE "final",
                              !.index = @ + 1, !.try = 1, !.waits = 0, !.budget = 0]
          ELSE IF uploadRetryable(why) /\ job[w].try < ChunkAttempts
          THEN [job[w] EXCEPT !.try = @ + 1]
          ELSE IF Refreshable(job[w], why) THEN [job[w] EXCEPT !.pc = "session", !.fresh = TRUE]
          ELSE [job[w] EXCEPT !.pc = "error", !.why = why]
  <2>1. PICK why : Set(w, J(why))
    BY ZenonT(30), <1>3 DEF uploadChunked, Exchange
  <2>2. PICK j : j = J(why)
    BY ZenonT(30)
  <2>3. DOMAIN job[w] = JobFields
    BY Zenon DEF TInv, Shape
  <2>4. /\ j.rate = job[w].rate /\ j.id = job[w].id /\ j.sess = job[w].sess
        /\ j.index \in {job[w].index, job[w].index + 1}
        /\ j.try \in {1, job[w].try} \/ (j.try = job[w].try + 1 /\ job[w].try < ChunkAttempts)
    BY ZenonT(30), <2>2, <2>3 DEF JobFields
  <2>5. Set(w, j)
    BY Zenon, <2>1, <2>2
  <2> HIDE DEF J
  <2> QED
    BY Zenon, <1>1, <2>4, <2>5, RequestLimits
<1> QED
  BY Zenon, <1>2, <1>3

LEMMA FinalLimits == ASSUME TInv, Limits, NEW w \in Workers, finalizeChunkedUpload(w) PROVE Limits'
<1>1. UNCHANGED <<phase, flags, ids, session>>
  BY Zenon DEF finalizeChunkedUpload
<1>2. CASE cancelled
  BY Zenon, <1>1, <1>2, MoveLimits DEF finalizeChunkedUpload
<1>3. CASE ~cancelled
  <2> DEFINE J(why) ==
          IF why = "none" THEN [job[w] EXCEPT !.pc = "done"]
          ELSE IF why \in {"pending", "busy"}
          THEN IF job[w].waits < ScanWaits THEN [job[w] EXCEPT !.waits = @ + 1, !.try = 1]
               ELSE [job[w] EXCEPT !.pc = "error", !.why = "transient"]
          ELSE IF why = "budget" /\ job[w].budget < BudgetWaits
          THEN [job[w] EXCEPT !.budget = @ + 1, !.try = 1]
          ELSE IF uploadRetryable(why) /\ job[w].try < ChunkAttempts
          THEN [job[w] EXCEPT !.try = @ + 1]
          ELSE [job[w] EXCEPT !.pc = "error", !.why = why]
  <2>1. PICK why : Set(w, J(why))
    BY ZenonT(30), <1>3 DEF finalizeChunkedUpload, Exchange
  <2>2. PICK j : j = J(why)
    BY ZenonT(30)
  <2>3. DOMAIN job[w] = JobFields
    BY Zenon DEF TInv, Shape
  <2>4. /\ j.rate = job[w].rate /\ j.id = job[w].id /\ j.sess = job[w].sess /\ j.index = job[w].index
        /\ j.try \in {1, job[w].try} \/ (j.try = job[w].try + 1 /\ job[w].try < ChunkAttempts)
    BY ZenonT(30), <2>2, <2>3 DEF JobFields
  <2>5. Set(w, j)
    BY Zenon, <2>1, <2>2
  <2> HIDE DEF J
  <2> QED
    BY Zenon, <1>1, <2>4, <2>5, RequestLimits
<1> QED
  BY Zenon, <1>2, <1>3

LEMMA SessionLimits == ASSUME TInv, Limits, NEW w \in Workers, uploadSession(w) PROVE Limits'
<1>1. UNCHANGED <<phase, flags>>
  BY Zenon DEF uploadSession
<1>2. /\ DOMAIN job[w] = JobFields /\ Within(job[w], ids, session) /\ ids \in {ids, ids + 1}
      /\ session \in {session, session + 1} /\ ids \in Nat /\ session \in Nat
  BY Zenon DEF TInv, Shape, Limits
<1>3. CASE Fail(w, "cancelled") /\ UNCHANGED <<session, ids>>
  BY Zenon, <1>1, <1>3, MoveLimits
<1>4. CASE /\ \E why : Set(w, [job[w] EXCEPT !.pc = "error", !.why = why])
           /\ UNCHANGED <<session, ids>>
  <2>1. PICK why : Set(w, [job[w] EXCEPT !.pc = "error", !.why = why])
    BY Zenon, <1>4
  <2>2. Within([job[w] EXCEPT !.pc = "error", !.why = why], ids, session)
    BY Zenon, <1>2, SameWithin DEF JobFields
  <2> QED
    BY Zenon, <1>1, <1>2, <1>4, <2>1, <2>2, LimitStep
<1>5. ASSUME NEW j, Set(w, j), session' \in {session, session + 1},
             \/ j = [job[w] EXCEPT !.pc = "chunk", !.sess = session', !.try = 1] /\ ids' = ids
             \/ /\ j = [job[w] EXCEPT !.pc = "chunk", !.sess = session', !.id = ids + 1, !.index = 0,
                                      !.try = 1]
                /\ ids' = ids + 1
      PROVE  Limits'
  <2>1. /\ j.rate = job[w].rate /\ j.try = 1 /\ j.sess = session'
        /\ j.index \in {0, job[w].index} /\ j.id \in {job[w].id, ids'} /\ ids' \in {ids, ids + 1}
    BY Zenon, <1>2, <1>5 DEF JobFields
  <2>2. /\ 1 \in 0 .. Attempts + ChunkAttempts /\ 0 \in 0 .. Chunks
        /\ session' \in 0 .. session' /\ ids' \in 0 .. ids' /\ job[w].id \in 0 .. ids'
    BY <1>2, <1>5, <2>1, AttemptsAssumption, ChunksAssumption DEF Within
  <2>3. Within(j, ids', session')
    BY Zenon, <1>2, <2>1, <2>2 DEF Within
  <2> QED
    BY Zenon, <1>1, <1>5, <2>1, <2>3, LimitStep
<1>6. CASE /\ session' = IF session = 0 \/ job[w].fresh THEN session + 1 ELSE session
           /\ Set(w, IF job[w].fresh THEN [job[w] EXCEPT !.pc = "chunk", !.sess = session', !.try = 1]
                     ELSE [job[w] EXCEPT !.pc = "chunk", !.sess = session', !.id = ids + 1, !.index = 0,
                                         !.try = 1])
           /\ newChunkSessionID(job[w].fresh)
  BY Zenon, <1>5, <1>6 DEF newChunkSessionID
<1> QED
  BY Zenon, <1>3, <1>4, <1>6 DEF uploadSession

\* Every retry of an upload is counted and within its limit, for any number of workers, files,
\* chunks and faults: attempts of a request (withRetry, withUploadRetry), waits for the rate
\* limit (uploadHonouringRateLimit), and two seals for a file (sendResealingOnce); a chunk
\* index stays below the number of chunks, and the sessions, uploads and keys that are named
\* have been made.
THEOREM UploadTypes == TSpec => []TTypeOK
<1>1. TInit => Limits
  <2> SUFFICES ASSUME TInit PROVE Limits
    BY Zenon
  <2>1. phase \in {"dirs", "run", "exit"} /\ flags \in Flags /\ ids = 0 /\ session = 0
    BY Zenon DEF TInit, runUpload, runRecursiveUpload
  <2>2. \A w \in Workers : job[w] = NoJob
    BY Zenon DEF TInit
  <2>3. 0 \in Nat
    OBVIOUS
  <2>4. Within(NoJob, 0, 0)
    BY Zenon, <2>3, NoJobWithin DEF NoJob
  <2> QED
    BY Zenon, <2>1, <2>2, <2>3, <2>4 DEF Limits
<1>2. TInv /\ Limits /\ [TNext]_tvars => Limits'
  <2> SUFFICES ASSUME TInv, Limits, [TNext]_tvars PROVE Limits'
    BY Zenon
  <2>1. CASE ensureRemoteDir \/ GateOpens \/ Interrupt \/ LateArrives \/ UNCHANGED tvars
    <3>1. UNCHANGED <<flags, ids, session, job>> /\ phase' \in {phase, "run", "exit"}
      BY Zenon, <2>1 DEF ensureRemoteDir, GateOpens, Interrupt, LateArrives, tvars
    <3> QED
      BY Zenon, <3>1 DEF Limits
  <2>2. ASSUME NEW w \in Workers, Work(w) PROVE Limits'
    BY Zenon, <2>2, SealLimits, SendLimits, WholeLimits, SessionLimits, ChunkLimits, FinalLimits DEF Work
  <2> QED
    BY Zenon, <2>1, <2>2 DEF TNext
<1>3. TInv /\ Limits => TTypeOK
  <2> SUFFICES ASSUME TInv, Limits PROVE TTypeOK
    BY Zenon
  <2>1. \A i \in DOMAIN queue : queue[i] \in Files
    BY DEF TInv, Shape
  <2>2. /\ seals \in [Files -> 0 .. 2]
        /\ result \in [Files -> {"pending", "uploaded", "failed", "skipped"}]
    BY Zenon DEF TInv, Shape
  <2>3. ASSUME NEW w \in Workers PROVE job[w].file \in Files \cup {None} /\ job[w].key \in 0 .. keys
    <3>1. NoJob.file = None
      BY Zenon DEF NoJob
    <3> QED
      BY Zenon, <3>1 DEF TInv, Shape
  <2> QED
    BY Zenon, <2>1, <2>2, <2>3 DEF Limits, Within, TTypeOK
<1> QED
  BY <1>1, <1>2, <1>3, TInvariant, PTL DEF TSpec

-----------------------------------------------------------------------------
(* A download command.                                                      *)

DlFields == {"mode", "over", "skip", "pc", "cur", "todo", "tries"}

\* From the look at a path to the report on it.
Busy == dl.pc \in {"request", "unserved", "verify", "keys", "decrypt", "swap", "decrypted"}

\* What the proof needs of the types.
DlShape ==
    /\ DOMAIN dl = DlFields /\ DOMAIN local = Paths
    /\ dl.cur \in Paths /\ dl.todo \in Seq(Paths) /\ IsInjective(dl.todo)
    /\ reported \cup mineFirst \subseteq Paths

\* No path is visited again.
Ahead ==
    /\ dl.pc = "start" => dl.todo = <<>> /\ dl.cur = Root
    /\ dl.pc \in {"start", "list"} => reported = {}
    /\ dl.mode = "file" /\ dl.pc \notin DlOver => reported = {}
    /\ Range(dl.todo) \cap reported = {}
    /\ Busy => dl.cur \notin Range(dl.todo) \cup reported

\* Sealed content lies only where the command is at work.
Clean ==
    \A f \in Paths : local[f] = "sealed" =>
        faulty \/ (InPlace /\ f = dl.cur /\ dl.pc \in {"verify", "keys", "decrypt", "killed"})

\* What was reported, or is about to be, is the clear content.
Truthful ==
    ~faulty => /\ \A f \in reported \ saved : local[f] = "clear"
               /\ passed \subseteq {"clear"}
               /\ dl.pc = "decrypted" =>
                    IF InPlace THEN local[dl.cur] = "clear" \/ dl.cur \in saved ELSE temp = "clear"

\* A path with a content of the user's is not worked on unless it may be overwritten.
Spared ==
    dl.mode # "version" /\ ~dl.over =>
        /\ \A f \in mineFirst \ saved : local[f] = "mine"
        /\ Busy /\ InPlace => dl.cur \notin mineFirst \ saved

DInv == DlShape /\ Ahead /\ Clean /\ Truthful /\ Spared

\* What is left of a list without repetition.
LEMMA TailFacts ==
    ASSUME NEW s \in Seq(Paths), IsInjective(s), s # <<>>
    PROVE  /\ Head(s) \in Paths /\ Head(s) \in Range(s)
           /\ Tail(s) \in Seq(Paths) /\ IsInjective(Tail(s))
           /\ Range(Tail(s)) \subseteq Range(s) \ {Head(s)}
<1>1. Len(s) \in Nat /\ Len(s) > 0 /\ Head(s) = s[1]
  OBVIOUS
<1>2. Tail(s) \in Seq(Paths) /\ Len(Tail(s)) = Len(s) - 1
  OBVIOUS
<1>3. \A i \in 1 .. Len(Tail(s)) : Tail(s)[i] = s[i + 1]
  OBVIOUS
<1>4. \A i, j \in 1 .. Len(s) : s[i] = s[j] => i = j
  BY DEF IsInjective
<1>5. IsInjective(Tail(s))
  <2>1. \A i, j \in 1 .. Len(Tail(s)) : s[i + 1] = s[j + 1] => i = j
    BY <1>1, <1>2, <1>4
  <2>2. DOMAIN Tail(s) = 1 .. Len(Tail(s))
    BY <1>2
  <2> QED
    BY Zenon, <1>3, <2>1, <2>2 DEF IsInjective
<1>6. Head(s) \in Paths /\ Head(s) \in Range(s)
  BY <1>1 DEF Range
<1>7. \A i \in 1 .. Len(Tail(s)) : i + 1 \in DOMAIN s /\ s[i + 1] # s[1]
  BY <1>1, <1>2, <1>4
<1>8. Range(Tail(s)) \subseteq Range(s) \ {Head(s)}
  <2>1. DOMAIN Tail(s) = 1 .. Len(Tail(s))
    BY <1>2
  <2>2. ASSUME NEW i \in 1 .. Len(Tail(s)) PROVE Tail(s)[i] \in Range(s) \ {Head(s)}
    BY Zenon, <1>1, <1>3, <1>7 DEF Range
  <2> QED
    BY Zenon, <2>1, <2>2 DEF Range
<1> QED
  BY Zenon, <1>2, <1>5, <1>6, <1>8

LEMMA DInitInv == DInit => DInv
<1> SUFFICES ASSUME DInit PROVE DInv
  OBVIOUS
<1>1. /\ DOMAIN dl = DlFields /\ dl.pc = "start" /\ dl.cur = Root /\ dl.todo = <<>>
  BY DEF DInit, DlFields
<1>2. DlShape
  BY <1>1 DEF DInit, DlShape, Paths, IsInjective
<1>3. Ahead /\ Clean /\ Truthful
  BY <1>1, ContentAssumption DEF DInit, Ahead, Clean, Truthful, Busy, Range
<1>4. Spared
  BY <1>1 DEF DInit, Spared, Busy
<1> QED
  BY <1>2, <1>3, <1>4 DEF DInv

\* A step to another pc that leaves the files alone.
LEMMA PcInv ==
    ASSUME DInv, NEW pc, Step(pc), UNCHANGED <<files, dworld, told>>, faulty => faulty',
           dl.pc \notin DlOver,
           pc \notin {"start", "list", "decrypted"},
           Busy' => Busy \/ (dl.cur \notin Range(dl.todo) \cup reported
                             /\ (dl.mode # "version" /\ ~dl.over /\ InPlace
                                   => dl.cur \notin mineFirst \ saved)),
           dl.pc \in {"verify", "keys", "decrypt"} =>
             pc \in {"verify", "keys", "decrypt", "killed"} \/ faulty' \/ ~InPlace
             \/ local[dl.cur] # "sealed"
    PROVE  DInv'
<1>1. /\ DOMAIN dl' = DlFields /\ dl'.pc = pc /\ dl'.mode = dl.mode /\ dl'.over = dl.over
      /\ dl'.cur = dl.cur /\ dl'.todo = dl.todo
  BY DEF Step, DInv, DlShape, DlFields
<1>2. UNCHANGED <<local, temp, saved, reported, passed, mineFirst>> /\ InPlace' = InPlace
  BY <1>1 DEF files, dworld, told, InPlace
<1>3. DlShape'
  BY <1>1, <1>2 DEF DInv, DlShape
<1>4. Ahead'
  BY <1>1, <1>2 DEF DInv, Ahead
<1>5. Clean'
  BY <1>1, <1>2 DEF DInv, Clean, DlOver
<1>6. Truthful'
  BY <1>1, <1>2 DEF DInv, Truthful
<1>7. Spared'
  BY <1>1, <1>2 DEF DInv, Spared
<1> QED
  BY <1>3, <1>4, <1>5, <1>6, <1>7 DEF DInv

\* A content is put where the command is at work, or at its working file.
LEMMA PutInv ==
    ASSUME DInv, NEW pc, NEW c, Step(pc), Put(c), UNCHANGED <<dworld, told>>, faulty => faulty',
           Busy, pc \notin {"start", "list"},
           c = "sealed" => pc = "verify",
           pc = "decrypted" => faulty' \/ c = "clear"
    PROVE  DInv'
<1>1. /\ DOMAIN dl' = DlFields /\ dl'.pc = pc /\ dl'.mode = dl.mode /\ dl'.over = dl.over
      /\ dl'.cur = dl.cur /\ dl'.todo = dl.todo
  BY DEF Step, DInv, DlShape, DlFields
<1>2. UNCHANGED <<saved, reported, passed, mineFirst>> /\ InPlace' = InPlace
  BY <1>1 DEF dworld, told, InPlace
<1>3. /\ DOMAIN local' = Paths /\ \A f \in Paths \ {dl.cur} : local'[f] = local[f]
      /\ IF InPlace THEN local'[dl.cur] = c ELSE temp' = c /\ local' = local
  BY DEF Put, DInv, DlShape
<1>4. DlShape'
  BY <1>1, <1>2, <1>3 DEF DInv, DlShape
<1>5. Ahead'
  BY <1>1, <1>2 DEF DInv, Ahead, Busy, DlOver
<1>6. Clean'
  BY <1>1, <1>2, <1>3 DEF DInv, DlShape, Clean
<1>7. Truthful'
  BY <1>1, <1>2, <1>3 DEF DInv, DlShape, Ahead, Truthful
<1>8. Spared'
  BY <1>1, <1>2, <1>3 DEF DInv, DlShape, Spared
<1> QED
  BY <1>4, <1>5, <1>6, <1>7, <1>8 DEF DInv

\* The commands.
LEMMA CommandInv ==
    ASSUME DInv, runDownload \/ runVersionDownload \/ runStdoutDownload
    PROVE  DInv'
<1>1. UNCHANGED <<files, dworld, told, faulty>> /\ dl.pc = "start"
  BY DEF runDownload, runVersionDownload, runStdoutDownload, DlAt
<1>2. dl.cur \notin Range(dl.todo) \cup reported
  BY SMTT(30), <1>1 DEF DInv, Ahead, Range
<1>3. CASE runVersionDownload \/ runStdoutDownload
  <2>1. Step("request") /\ (dl.mode = "version" \/ ~InPlace)
    BY <1>3 DEF runVersionDownload, runStdoutDownload, InPlace
  <2> QED
    BY <1>1, <1>2, <2>1, PcInv DEF DlOver
<1>4. CASE runDownload
  <2>1. dl.mode = "file" /\ dl.cur = Root
    BY <1>1, <1>4 DEF runDownload, DInv, Ahead
  <2>2. PICK pc \in {"request", "ended", "failed"} :
          Step(pc) /\ (pc = "request" => dl.over \/ local[Root] = None)
    BY <1>4 DEF runDownload, Existing
  <2>3. ~dl.over /\ local[Root] = None => Root \notin mineFirst \ saved
    BY <2>1, ContentAssumption DEF DInv, Spared
  <2>4. Busy' => pc = "request"
    BY <2>2 DEF Busy, Step, DInv, DlShape, DlFields
  <2> QED
    BY <1>1, <1>2, <2>1, <2>2, <2>3, <2>4, PcInv DEF DlOver
<1> QED
  BY <1>3, <1>4

\* A folder, file by file.
LEMMA FolderInv ==
    ASSUME DInv, listFolder \/ runExtractDownload \/ createArchive \/ runZipDownload
    PROVE  DInv'
<1>1. /\ UNCHANGED <<local, dworld, told, faulty>>
      /\ dl.pc \in {"start", "list", "next", "create"}
  BY DEF listFolder, runExtractDownload, createArchive, runZipDownload, DlAt, files
<1>2. ~Busy /\ dl.pc \notin DlOver
  BY <1>1 DEF Busy, DlOver
<1>3. CASE \E pc \in {"next", "failed", "ended"} : Step(pc)
  <2>1. PICK pc \in {"next", "failed", "ended"} : Step(pc)
    BY <1>3
  <2>2. /\ DOMAIN dl' = DlFields /\ dl'.pc = pc /\ dl'.mode = dl.mode /\ dl'.over = dl.over
        /\ dl'.cur = dl.cur /\ dl'.todo = dl.todo
    BY <2>1 DEF Step, DInv, DlShape, DlFields
  <2>3. UNCHANGED <<saved, reported, passed, mineFirst>> /\ ~Busy'
    BY <1>1, <2>2 DEF dworld, told, Busy
  <2>4. DlShape' /\ Ahead'
    BY <1>1, <1>2, <2>2, <2>3 DEF DInv, DlShape, Ahead, Busy
  <2>5. Clean' /\ Truthful' /\ Spared'
    BY <1>1, <2>2, <2>3 DEF DInv, Clean, Truthful, Spared
  <2> QED
    BY <2>4, <2>5 DEF DInv
<1>4. CASE /\ listFolder
           /\ dl' = [dl EXCEPT !.pc = IF dl.mode = "zip" THEN "create" ELSE "next", !.todo = Listing]
  <2>1. /\ DOMAIN dl' = DlFields /\ dl'.pc \in {"create", "next"} /\ dl'.mode = dl.mode
        /\ dl'.over = dl.over /\ dl'.cur = dl.cur /\ dl'.todo = Listing
    BY <1>4 DEF DInv, DlShape, DlFields
  <2>2. reported = {}
    BY <1>4 DEF listFolder, DlAt, DInv, Ahead
  <2>3. UNCHANGED <<saved, reported, passed, mineFirst>> /\ ~Busy'
    BY <1>1, <2>1 DEF dworld, told, Busy
  <2>4. Listing \in Seq(Paths) /\ IsInjective(Listing)
    BY ListingAssumption DEF Paths
  <2>5. DlShape'
    BY <1>1, <2>1, <2>3, <2>4 DEF DInv, DlShape
  <2>6. Ahead'
    BY <2>1, <2>2, <2>3 DEF Ahead
  <2>7. Clean' /\ Truthful' /\ Spared'
    BY <1>1, <2>1, <2>3 DEF DInv, Clean, Truthful, Spared
  <2> QED
    BY <2>5, <2>6, <2>7 DEF DInv
<1>5. CASE /\ runExtractDownload \/ runZipDownload
           /\ dl.todo # <<>>
  <2> DEFINE f == Head(dl.todo)
  <2>1. PICK pc \in {"request", "next"} :
          /\ dl' = [dl EXCEPT !.todo = Tail(@), !.cur = f, !.tries = 0, !.pc = pc]
          /\ pc = "request" => dl.mode = "zip" \/ dl.over \/ local[f] = None
    BY <1>5 DEF runExtractDownload, runZipDownload, Existing
  <2>2. /\ f \in Paths /\ f \in Range(dl.todo)
        /\ Tail(dl.todo) \in Seq(Paths) /\ IsInjective(Tail(dl.todo))
        /\ Range(Tail(dl.todo)) \subseteq Range(dl.todo) \ {f}
    BY <1>5, TailFacts DEF DInv, DlShape
  <2> HIDE DEF f
  <2>3. /\ DOMAIN dl' = DlFields /\ dl'.pc = pc /\ dl'.mode = dl.mode
        /\ dl'.over = dl.over /\ dl'.cur = f /\ dl'.todo = Tail(dl.todo)
    BY <2>1 DEF DInv, DlShape, DlFields
  <2>4. UNCHANGED <<saved, reported, passed, mineFirst>>
    BY <1>1 DEF dworld, told
  <2>5. dl.mode \in {"extract", "zip"} /\ dl.pc = "next"
    BY <1>5 DEF runExtractDownload, runZipDownload, DlAt
  <2>6. DlShape'
    BY <1>1, <2>2, <2>3, <2>4 DEF DInv, DlShape
  <2>7. Ahead'
    BY <2>2, <2>3, <2>4, <2>5 DEF DInv, Ahead
  <2>8. Clean' /\ Truthful'
    BY <1>1, <2>3, <2>4, <2>5 DEF DInv, Clean, Truthful
  <2>9. Spared'
    BY <1>1, <2>1, <2>3, <2>4, <2>5, ContentAssumption DEF DInv, Spared, Busy, InPlace
  <2> QED
    BY <2>6, <2>7, <2>8, <2>9 DEF DInv
<1> QED
  BY <1>3, <1>4, <1>5 DEF listFolder, runExtractDownload, createArchive, runZipDownload

\* client.Download.
LEMMA ClientInv ==
    ASSUME DInv, streamDownload \/ fileSink \/ downloadRejection \/ downloadFailed
    PROVE  DInv'
<1>1. Busy /\ UNCHANGED <<dworld, told, faulty>> /\ dl.pc \in {"request", "unserved"}
  BY DEF streamDownload, fileSink, downloadRejection, downloadFailed, DlAt, Busy
<1>2. CASE UNCHANGED files /\ \E pc \in {"unserved", "failed", "next"} : Step(pc)
  BY <1>1, <1>2, PcInv DEF DlOver
<1>3. CASE \E pc \in {"verify", "failed", "next"}, c \in {"sealed", None} :
             Step(pc) /\ Put(c) /\ (c = "sealed" => pc = "verify")
  BY <1>1, <1>3, PutInv
<1>4. CASE streamDownload /\ dl' = [dl EXCEPT !.tries = @ + 1]
  <2>1. /\ DOMAIN dl' = DlFields /\ dl'.pc = dl.pc /\ dl'.mode = dl.mode
        /\ dl'.over = dl.over /\ dl'.cur = dl.cur /\ dl'.todo = dl.todo
    BY <1>4 DEF DInv, DlShape, DlFields
  <2>2. UNCHANGED <<local, temp, saved, reported, passed, mineFirst, faulty>>
    BY <1>4 DEF streamDownload, files, dworld, told
  <2>3. DlShape' /\ Ahead'
    BY <2>1, <2>2 DEF DInv, DlShape, Ahead, Busy
  <2>4. Clean' /\ Truthful' /\ Spared'
    BY <2>1, <2>2 DEF DInv, Clean, Truthful, Spared, Busy, InPlace
  <2> QED
    BY <2>3, <2>4 DEF DInv
<1>5. CASE downloadRejection /\ dl.mode = "file"
  <2>1. /\ DOMAIN dl' = DlFields /\ dl'.pc = "list" /\ dl'.mode = "extract"
        /\ dl'.over = dl.over /\ dl'.cur = dl.cur /\ dl'.todo = dl.todo
    BY <1>5 DEF downloadRejection, DInv, DlShape, DlFields
  <2>2. UNCHANGED <<local, saved, reported, passed, mineFirst, faulty>> /\ dl.pc = "request"
    BY <1>5 DEF downloadRejection, files, dworld, told, DlAt
  <2>3. DlShape' /\ Ahead'
    BY <1>5, <2>1, <2>2 DEF DInv, DlShape, Ahead, Busy, DlOver
  <2>4. Clean' /\ Truthful'
    BY <2>1, <2>2 DEF DInv, Clean, Truthful
  <2>5. Spared'
    BY <1>5, <2>1, <2>2 DEF DInv, Spared, Busy
  <2> QED
    BY <2>3, <2>4, <2>5 DEF DInv
<1>6. CASE streamDownload
  BY <1>2, <1>4, <1>6 DEF streamDownload
<1>7. CASE fileSink
  BY <1>3, <1>7 DEF fileSink
<1>8. CASE downloadRejection
  BY <1>2, <1>5, <1>8 DEF downloadRejection
<1>9. CASE downloadFailed
  <2>1. CASE dl.mode = "stdout"
    BY <1>2, <1>9, <2>1 DEF downloadFailed
  <2>2. CASE dl.mode # "stdout"
    BY <1>3, <1>9, <2>2, ContentAssumption DEF downloadFailed
  <2> QED
    BY <2>1, <2>2
<1> QED
  BY <1>6, <1>7, <1>8, <1>9

\* decryptDownloadedFile.
LEMMA DecryptInv ==
    ASSUME DInv, VerifyDownloadIntegrity \/ GetKeyPair \/ DecryptFile \/ renameOrCopy
    PROVE  DInv'
<1>1. Busy /\ UNCHANGED <<dworld, told>> /\ dl.pc \in {"verify", "keys", "decrypt", "swap"}
  BY DEF VerifyDownloadIntegrity, GetKeyPair, DecryptFile, renameOrCopy, DlAt, Busy
<1>2. dl.pc \notin DlOver
  BY <1>1 DEF DlOver
<1>3. CASE UNCHANGED <<files, faulty>> /\ \E pc \in {"keys", "decrypt"} : Step(pc)
  BY <1>1, <1>2, <1>3, PcInv
<1>4. CASE UNCHANGED files /\ Step("failed") /\ faulty' = TRUE
  BY <1>1, <1>2, <1>4, PcInv
<1>5. CASE UNCHANGED faulty /\ \E pc \in {"failed", "swap"} : Step(pc) /\ Put(None)
  BY <1>1, <1>5, PutInv, ContentAssumption
<1>6. CASE renameOrCopy
  <2>1. PICK c \in {"clear", "partial"} :
          Put(c) /\ ((c = "clear" /\ UNCHANGED faulty) \/ faulty' = TRUE) /\ Step("decrypted")
    BY <1>6 DEF renameOrCopy
  <2> QED
    BY <1>1, <2>1, PutInv
<1>7. CASE VerifyDownloadIntegrity
  BY <1>3, <1>5, <1>7 DEF VerifyDownloadIntegrity, Refuse
<1>8. CASE GetKeyPair
  BY <1>3, <1>4, <1>8 DEF GetKeyPair
<1>9. CASE DecryptFile
  BY <1>5, <1>9 DEF DecryptFile, Refuse
<1> QED
  BY <1>6, <1>7, <1>8, <1>9

\* The report, and the content passed on.
LEMMA ReportInv ==
    ASSUME DInv, reportDownloaded \/ passOn
    PROVE  DInv'
<1>1. dl.pc = "decrypted" /\ UNCHANGED <<local, saved, mineFirst, faulty>>
  BY DEF reportDownloaded, passOn, DlAt, files, dworld
<1>2. PICK pc \in {"next", "ended"} : Step(pc) /\ (pc = "next" => dl.mode \in {"extract", "zip"})
  BY DEF reportDownloaded, passOn
<1>3. /\ DOMAIN dl' = DlFields /\ dl'.pc = pc /\ dl'.mode = dl.mode
      /\ dl'.over = dl.over /\ dl'.cur = dl.cur /\ dl'.todo = dl.todo
  BY <1>2 DEF Step, DInv, DlShape, DlFields
<1>4. ~Busy' /\ Busy
  BY <1>1, <1>3 DEF Busy
<1>5. /\ reported' = reported \/ (reported' = reported \cup {dl.cur} /\ InPlace)
      /\ passed' = passed \/ (passed' = passed \cup {temp} /\ ~InPlace)
  BY DEF reportDownloaded, passOn
<1>6. DlShape'
  BY <1>1, <1>3, <1>5 DEF DInv, DlShape
<1>7. Ahead'
  BY <1>2, <1>3, <1>4, <1>5 DEF DInv, Ahead, DlOver
<1>8. Clean' /\ Spared'
  BY <1>1, <1>3, <1>4 DEF DInv, Clean, Spared
<1>9. Truthful'
  BY <1>1, <1>3, <1>5 DEF DInv, Truthful
<1> QED
  BY <1>6, <1>7, <1>8, <1>9 DEF DInv

\* The world: a save of the user's makes no claim of the command's false but at that path.
LEMMA DlWorldInv ==
    ASSUME DInv, Cancel \/ KillDownload \/ UserSaves \/ UNCHANGED dvars
    PROVE  DInv'
<1>1. CASE KillDownload
  <2>1. Step("killed") /\ UNCHANGED <<files, dworld, told, faulty>> /\ dl.pc \notin DlOver
    BY <1>1 DEF KillDownload
  <2>2. ~Busy'
    BY <2>1 DEF Step, Busy, DInv, DlShape, DlFields
  <2> QED
    BY <2>1, <2>2, PcInv
<1>2. CASE Cancel \/ UNCHANGED dvars
  <2>1. UNCHANGED <<dl, local, temp, mineFirst, saved, reported, passed, faulty>>
    BY <1>2 DEF Cancel, dvars, files, told
  <2> QED
    BY <2>1 DEF DInv, DlShape, Ahead, Clean, Truthful, Spared, Busy, InPlace
<1>3. CASE UserSaves
  <2>1. /\ UNCHANGED <<dl, temp, mineFirst, reported, passed, faulty>> /\ saved = {}
        /\ local' = [local EXCEPT ![dl.cur] = "mine"] /\ saved' = {dl.cur}
    BY <1>3 DEF UserSaves, told
  <2>2. DlShape' /\ Ahead'
    BY <2>1 DEF DInv, DlShape, Ahead, Busy
  <2>3. Clean' /\ Spared'
    BY <2>1 DEF DInv, DlShape, Clean, Spared, Busy, InPlace
  <2>4. Truthful'
    BY <2>1 DEF DInv, DlShape, Truthful, InPlace
  <2> QED
    BY <2>2, <2>3, <2>4 DEF DInv
<1> QED
  BY <1>1, <1>2, <1>3

\* DInv is an inductive invariant of a download command, whatever the folder lists, the
\* server serves and the user saves meanwhile.
THEOREM DInvariant == DSpec => []DInv
<1>1. DInv /\ [DNext]_dvars => DInv'
  BY CommandInv, FolderInv, ClientInv, DecryptInv, ReportInv, DlWorldInv DEF DNext
<1> QED
  BY <1>1, DInitInv, PTL DEF DSpec

\* What pc dl and pc vh report as downloaded is the clear content, no sealed content stays
\* behind, and without --overwrite the user's files are left as they were.
THEOREM DownloadsAreSound == DSpec => []DownloadSound
<1>1. DInv => DownloadSound
  BY DEF DInv, Clean, Truthful, Spared, DownloadSound
<1> QED
  BY <1>1, DInvariant, PTL
\* What the command leaves anywhere, for any folder and any number of attempts: each attempt
\* of streamDownload is within retryDelays, a path holds nothing, the user's content or one
\* the command put there, and nothing outside the paths asked for is saved or reported.
THEOREM DownloadTypes == DSpec => []DTypeOK
<1> DEFINE C == {None, "mine", "sealed", "clear", "partial"}
<1>1. DInit => DTypeOK
  BY DlAssumption DEF DInit, DTypeOK, Paths
<1>2. ASSUME DInv, DTypeOK, [DNext]_dvars PROVE dl'.tries \in 0 .. DlAttempts - 1
  <2>1. DOMAIN dl = DlFields /\ dl.tries \in 0 .. DlAttempts - 1 /\ DlAttempts \in Nat \ {0}
    BY <1>2, DlAssumption DEF DInv, DlShape, DTypeOK
  <2>2. ASSUME NEW pc, Step(pc) PROVE dl'.tries = dl.tries
    BY <2>1, <2>2 DEF Step, DlFields
  <2>3. \/ dl'.tries = dl.tries \/ dl'.tries = 0
        \/ dl.tries + 1 < DlAttempts /\ dl'.tries = dl.tries + 1
    <3>1. CASE runDownload \/ runVersionDownload \/ runStdoutDownload \/ createArchive \/ KillDownload
      BY Zenon, <2>2, <3>1
      DEF runDownload, runVersionDownload, runStdoutDownload, createArchive, KillDownload
    <3>2. CASE listFolder \/ downloadRejection
      BY Zenon, <2>1, <2>2, <3>2 DEF listFolder, downloadRejection, DlFields
    <3>3. CASE runExtractDownload \/ runZipDownload
      BY Zenon, <2>1, <2>2, <3>3 DEF runExtractDownload, runZipDownload, DlFields
    <3>4. CASE streamDownload
      BY <2>1, <2>2, <3>4 DEF streamDownload, DlFields
    <3>5. CASE fileSink \/ downloadFailed \/ GetKeyPair \/ renameOrCopy \/ reportDownloaded \/ passOn
      BY Zenon, <2>2, <3>5
      DEF fileSink, downloadFailed, GetKeyPair, renameOrCopy, reportDownloaded, passOn
    <3>6. CASE VerifyDownloadIntegrity \/ DecryptFile
      BY Zenon, <2>2, <3>6 DEF VerifyDownloadIntegrity, DecryptFile, Refuse
    <3>7. CASE Cancel \/ UserSaves \/ UNCHANGED dvars
      BY Zenon, <3>7 DEF Cancel, UserSaves, dvars
    <3> QED
      BY Zenon, <1>2, <3>1, <3>2, <3>3, <3>4, <3>5, <3>6, <3>7 DEF DNext
  <2> QED
    BY <2>1, <2>3
<1>3. ASSUME DInv, DTypeOK, [DNext]_dvars
      PROVE  /\ local' \in [Paths -> C] /\ saved' \subseteq Paths
             /\ archive' \in {None, "mine", "open", "closed"}
  <2>1. /\ local \in [Paths -> C] /\ dl.cur \in Paths /\ saved \subseteq Paths
        /\ archive \in {None, "mine", "open", "closed"}
    BY <1>3 DEF DTypeOK
  <2>2. ASSUME NEW c \in C, Put(c) PROVE local' \in [Paths -> C] /\ archive' = archive
    BY <2>1, <2>2 DEF Put
  <2>3. ASSUME UNCHANGED files PROVE local' \in [Paths -> C] /\ archive' = archive
    BY Zenon, <2>1, <2>3 DEF files
  <2>4. ASSUME UNCHANGED dworld PROVE saved' \subseteq Paths
    BY Zenon, <2>1, <2>4 DEF dworld
  <2>5. None \in C /\ "sealed" \in C /\ "clear" \in C /\ "partial" \in C
    BY Zenon
  <2>6. CASE \/ runDownload \/ runVersionDownload \/ runStdoutDownload \/ listFolder
             \/ runExtractDownload \/ streamDownload \/ downloadRejection \/ GetKeyPair
             \/ reportDownloaded \/ KillDownload
    <3>1. UNCHANGED files /\ UNCHANGED dworld
      BY Zenon, <2>6 DEF runDownload, runVersionDownload, runStdoutDownload, listFolder,
         runExtractDownload, streamDownload, downloadRejection, GetKeyPair, reportDownloaded,
         KillDownload
    <3> QED
      BY Zenon, <2>1, <2>3, <2>4, <3>1
  <2>7. CASE fileSink \/ downloadFailed \/ VerifyDownloadIntegrity \/ DecryptFile \/ renameOrCopy
    <3>1. UNCHANGED dworld
      BY Zenon, <2>7 DEF fileSink, downloadFailed, VerifyDownloadIntegrity, DecryptFile, renameOrCopy
    <3>2. UNCHANGED files \/ \E c \in C : Put(c)
      BY Zenon, <2>5, <2>7
      DEF fileSink, downloadFailed, VerifyDownloadIntegrity, DecryptFile, renameOrCopy, Refuse
    <3> QED
      BY Zenon, <2>1, <2>2, <2>3, <2>4, <3>1, <3>2
  <2>8. CASE createArchive \/ runZipDownload \/ passOn
    <3>1. UNCHANGED local /\ UNCHANGED dworld
      BY Zenon, <2>8 DEF createArchive, runZipDownload, passOn
    <3>2. archive' \in {archive, "open", "closed"}
      BY Zenon, <2>8 DEF createArchive, runZipDownload, passOn
    <3> QED
      BY Zenon, <2>1, <2>4, <3>1, <3>2
  <2>9. CASE Cancel \/ UNCHANGED dvars
    <3>1. UNCHANGED files /\ UNCHANGED saved
      BY Zenon, <2>9 DEF Cancel, dvars, files
    <3> QED
      BY Zenon, <2>1, <2>3, <3>1
  <2>10. CASE UserSaves
    BY <2>1, <2>10 DEF UserSaves
  <2> QED
    BY Zenon, <1>3, <2>6, <2>7, <2>8, <2>9, <2>10 DEF DNext
<1>4. DInv /\ DInv' /\ DTypeOK /\ [DNext]_dvars => DTypeOK'
  <2> SUFFICES ASSUME DInv, DInv', DTypeOK, [DNext]_dvars PROVE DTypeOK'
    OBVIOUS
  <2>1. dl'.cur \in Paths /\ reported' \cup mineFirst' \subseteq Paths
    BY DEF DInv, DlShape
  <2> QED
    BY Zenon, <1>2, <1>3, <2>1 DEF DTypeOK
<1> QED
  BY <1>1, <1>4, DInvariant, PTL DEF DSpec
=============================================================================
