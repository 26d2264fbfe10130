------------------------------ MODULE MCClient ------------------------------
(***************************************************************************)
(* The parts of the client beside the mounts, for TLC: the upload and the   *)
(* download commands, the scanner's keys, the account's keys and its agent, *)
(* and the pin files.                                                       *)
(* They share no variable, so a behaviour of all of them is an interleaving *)
(* of one behaviour of each, and the instance is their sum: `part` says     *)
(* which one runs, and the others stay where they started.  (The two halves *)
(* of Pins, seal pins and signing pins, share no file either.)              *)
(***************************************************************************)
EXTENDS Transfer, Download, TeeKeys, Keyring, Pins

VARIABLE part

cvars == <<tvars, dvars, kvars, rvars, pvars, part>>

-----------------------------------------------------------------------------
(* The values of the constants.                                             *)

Attested(g, st, m, x, ky, s) ==
    [enabled |-> TRUE, available |-> TRUE, sgx |-> g, status |-> st, meas |-> m, x |-> x, ky |-> ky,
     sign |-> s]
MCOffers ==
    {Attested(TRUE, "trusted", "m1", "x1", "k1", "s1"),
     Attested(TRUE, "trusted", "m1", "x1", "k2", "s2"),
     Attested(FALSE, "none", None, "x1", "k1", "s1"),
     [Attested(FALSE, "none", None, None, None, None) EXCEPT !.enabled = FALSE, !.available = FALSE]}
MCOldPins ==
    {Empty, [Empty EXCEPT !.readable = FALSE],
     [Empty EXCEPT !.posture = [mode |-> "epid", meas |-> "m1", x |-> "x1", ky |-> None],
                   !.sign = "s1", !.retired = <<"s0">>]}

\* f2 is a rotation of f1 that its signing identity signs, f3 belongs to another identity.
MCBundles ==
    {[fp |-> "f1", anchor |-> "a1", signed |-> TRUE], [fp |-> "f2", anchor |-> "a1", signed |-> TRUE],
     [fp |-> "f3", anchor |-> "a2", signed |-> TRUE]}
MCListing == <<"m", "n">>
MCHistory == <<"h1">>
MCSignatures ==
    {[by |-> "", key |-> "h1"], [by |-> "p", key |-> "k1"], [by |-> "p", key |-> "k2"]}

-----------------------------------------------------------------------------
(* The sum.                                                                 *)

\* Uploads with a key set to fetch (two at first contact, one with a pin), or downloads
\* with one to check.
Uploading ==
    /\ up[1].pc = "fetch" /\ up[2].pc = (IF pin = Empty THEN "fetch" ELSE "done")
    /\ \A d \in Downloads : down[d].pc = "verified"
    /\ pin.readable
    /\ IF pin = Empty THEN offer.ky = "k1" /\ offer.sgx ELSE offer.ky = "k2"
Downloading ==
    /\ \A t \in Uploads : up[t].pc = "done"
    /\ \A d \in Downloads : down[d].pc = "idle"

\* A file, or a folder of two files of which the second is in order, and the paths that
\* matter to the command.
OneFile ==
    /\ served["n"] = "good"
    /\ served[Root] # "dir" => \A f \in Range(Listing) : served[f] = "good" /\ local[f] = None
    /\ served[Root] = "dir" \/ dl.mode = "stdout" => local[Root] = None
    /\ dl.mode # "zip" => archive = None
    /\ dl.mode = "zip" => mineFirst = {}
    /\ ~(dl.over /\ dl.skip)
NoDownload ==
    /\ dl.mode = "stdout" /\ ~dl.over /\ ~dl.skip
    /\ archive = None /\ mineFirst = {} /\ \A f \in Paths : served[f] = "good"

\* --force or --skip-existing, and the large file of a directory first; or nothing to upload.
OneUpload == flags.force # flags.skip /\ (phase = "dirs" => queue = <<"l", "s">>)
NoUpload ==
    phase = "run" /\ queue = <<"s">> /\ before = {} /\ flags = [force |-> FALSE, skip |-> FALSE]

\* The part that runs, and the others where they start.
CInit ==
    /\ part \in {"transfer", "download", "tee", "keyring", "seal", "sign"}
    /\ DInit /\ (IF part = "download" THEN OneFile ELSE NoDownload)
    /\ TInit /\ (IF part = "transfer" THEN OneUpload ELSE NoUpload)
    /\ KInit /\ (Uploading \/ Downloading)
    /\ part # "tee" => Downloading /\ pin = Empty /\ offer.ky = "k2"
    /\ RInit
    /\ PInit /\ (part # "seal" => lock = None)
    /\ \A p \in Peers : published[p].fp = "f1"

\* Workers, uploads and processes are interchangeable: of two that have not begun, the first
\* begins.
Transfers ==
    /\ part = "transfer" /\ TNext
    /\ job[1] = NoJob /\ job[2] = NoJob => job'[2] = NoJob
    /\ UNCHANGED <<dvars, kvars, rvars, pvars, part>>
Fetches == part = "download" /\ DNext /\ UNCHANGED <<tvars, kvars, rvars, pvars, part>>
Scans ==
    /\ part = "tee" /\ KNext
    /\ up[1] = up[2] /\ up[1].pc = "fetch" /\ events = 0 => up'[2] = up[2]
    /\ UNCHANGED <<tvars, dvars, rvars, pvars, part>>
Logins == part = "keyring" /\ RNext /\ UNCHANGED <<tvars, dvars, kvars, pvars, part>>
Begun == proc[1].pc = "idle" => proc'[2] = proc[2]
Seals ==
    /\ part = "seal"
    /\ Age \/ Publish \/ \E i \in Procs : Sealing(i) \/ Die(i)
    /\ Begun /\ published'["q"] = published["q"]
    /\ ops = 0 => proc'[1].now.peer \in {"p", None}
    /\ UNCHANGED <<tvars, dvars, kvars, rvars, part>>
Signs ==
    /\ part = "sign"
    /\ Unfriend \/ \E i \in Procs : Verifying(i) \/ Die(i)
    /\ Begun
    /\ UNCHANGED <<tvars, dvars, kvars, rvars, part>>

CNext == Transfers \/ Fetches \/ Scans \/ Logins \/ Seals \/ Signs

\* TFairness and RFairness, of the part that runs.
CFairness ==
    /\ WF_tvars(part = "transfer" /\ ensureRemoteDir)
    /\ WF_tvars(part = "transfer" /\ GateOpens)
    /\ \A w \in Workers : WF_tvars(part = "transfer" /\ Work(w))
    /\ \A a \in Agents : WF_rvars(part = "keyring" /\ AgentStep(a))

CSpec == CInit /\ [][CNext]_cvars /\ CFairness

-----------------------------------------------------------------------------
(* Properties of the sum; the others are those of the parts.                *)

\* Every part keeps its type (the pc commands and the sessions they open).
ClientTypeOK == TTypeOK /\ DTypeOK /\ KTypeOK /\ RTypeOK /\ PTypeOK

\* run() of the upload command returns with every file counted (AllCounted).
UploadsCounted == part = "transfer" => AllCounted
=============================================================================
