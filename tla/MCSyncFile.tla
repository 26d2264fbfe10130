----------------------------- MODULE MCSyncFile -----------------------------
(* SyncFile for TLC: what the user, another device, the network and the      *)
(* operator do is counted and bounded; so are the repairs.                   *)
EXTENDS SyncFile

CONSTANTS
    MaxActs,        \* bound: acts of the user and of another device, failures,
                    \* restarts, FlushAll calls and repairs by the reconciler
    FirstListFails, \* may the listing of InitialSync fail?
    QuietHeals,     \* the reconciler repairs only a file nothing is under way for,
                    \* and is not counted: it runs every three minutes
    EditsInWindow   \* may the user edit between a download's check and its rename?

VARIABLE acts

mcvars == <<svars, acts>>

MCInit == SInit /\ acts = 0

Act == acts < MaxActs /\ acts' = acts + 1
MCUser == Act /\ (User \/ Resolve) /\ (dl.pc = "rename" => EditsInWindow)
MCElsewhere == Act /\ Elsewhere
MCFault == Act /\ Fault /\ (boot = "list" /\ boot' = "run" => FirstListFails)
MCFlush == Act /\ \E w \in Workers : startFlush(w)

Quiet ==
    /\ watch = NoWatch /\ dl.pc = "idle"
    /\ \A w \in Workers : worker[w].pc = "idle" /\ Claimable(w) = {}
MCReconciler == IF QuietHeals THEN Quiet /\ healEntry /\ UNCHANGED acts
                ELSE Act /\ healEntry

MCWatcher == Watcher /\ UNCHANGED acts
MCPoller == Poller /\ UNCHANGED acts
MCDownloader == Downloader /\ UNCHANGED acts
MCInitialSync == InitialSync /\ UNCHANGED acts
MCWrites(w) == Writes(w) /\ UNCHANGED acts

MCNext ==
    \/ MCUser \/ MCElsewhere \/ MCFault \/ MCFlush
    \/ MCWatcher \/ MCPoller \/ MCDownloader \/ MCReconciler \/ MCInitialSync
    \/ \E w \in Workers : MCWrites(w)

MCSpec == MCInit /\ [][MCNext]_mcvars

\* Every goroutine of the mount goes on: the watcher's loop and its sync worker,
\* the suppression timer, poller, downloader, reconciler, writeback workers.
MCFairSpec ==
    /\ MCSpec
    /\ WF_mcvars(handleEvent /\ UNCHANGED acts) /\ WF_mcvars(syncFile /\ UNCHANGED acts)
    /\ WF_mcvars(SuppressEnd /\ UNCHANGED acts)
    /\ WF_mcvars(MCPoller) /\ WF_mcvars(MCDownloader) /\ WF_mcvars(MCInitialSync)
    /\ WF_mcvars(MCReconciler) /\ \A w \in Workers : WF_mcvars(MCWrites(w))

Reported == \E i \in Present : inode[i].status \in {"conflict", "failed"}

\* An edit of the user reaches the server unless it is deleted again, put in
\* the trash, or the file is reported as in conflict or failed.
EditsArrive ==
    \A d \in Data : keep = d ~> (keep # d \/ d \in had \cup trash \/ Reported)

\* Once nothing changes any more, what the server has is what the folder has,
\* unless the user deleted it here or the file is reported.
RemoteArrives == <>[](srv.data # 0 => local = srv.data \/ undo # 0 \/ Reported)
=============================================================================
