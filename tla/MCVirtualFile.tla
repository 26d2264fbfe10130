---------------------------- MODULE MCVirtualFile ----------------------------
(* VirtualFile for TLC: the opens are counted and bounded, and so is what      *)
(* another device, the network, the operator, the poller and the evictor do.   *)
EXTENDS VirtualFile

CONSTANTS
    MaxOpens,       \* bound: Open and Create calls
    MaxPolls,       \* bound: poll cycles
    MaxActs         \* bound: truncates, explicit flushes, unlinks, remote changes,
                    \* failures and evictions, together

VARIABLES opens, polls, acts,
    reported    \* history: the file was shown as failed or in conflict since the
                \* last Flush

mcvars == <<fvars, opens, polls, acts, reported>>

MCInit == VInit /\ opens = 0 /\ polls = 0 /\ acts = 0 /\ reported = FALSE

Issue == \E i \in Inodes : inode[i].status \in {"conflict", "failed"}
History == reported' = ((owed' = owed /\ reported) \/ Issue')
Act == acts < MaxActs /\ acts' = acts + 1 /\ UNCHANGED <<opens, polls>> /\ History
Free == UNCHANGED <<opens, polls, acts>> /\ History

MCOpen(p) == opens < MaxOpens /\ opens' = opens + 1 /\ Opens(p)
             /\ UNCHANGED <<polls, acts>> /\ History
MCPoll == polls < MaxPolls /\ polls' = polls + 1 /\ pollList /\ UNCHANGED <<opens, acts>> /\ History
MCAct == /\ \/ Truncate \/ unlinkRemote \/ RemoteChange \/ Fault
            \/ \E p \in Procs : FlushHandle(p)
         /\ Act
MCEvict == evict /\ IF ev.pc = "idle" THEN Act ELSE Free
MCAsks(p) == Asks(p) /\ Free
MCRuns(p) == Runs(p) /\ Free
MCGoesOn == (unlinkLocal \/ pollApply \/ retryFailed) /\ Free
MCWrites(w) == Writes(w) /\ Free

MCNext ==
    \/ MCAct \/ MCPoll \/ MCEvict \/ MCGoesOn
    \/ \E p \in Procs : MCOpen(p) \/ MCAsks(p) \/ MCRuns(p)
    \/ \E w \in Workers : MCWrites(w)

MCSpec == MCInit /\ [][MCNext]_mcvars

\* A call that was made goes on (the kernel waits for it, the HTTP client has
\* timeouts), and so do the writeback workers.
MCFairSpec == /\ MCSpec
              /\ \A p \in Procs : WF_mcvars(MCRuns(p))
              /\ \A w \in Workers : WF_mcvars(MCWrites(w))

\* Open returns: its own download ends, or the one it waits for wakes it.
OpenReturns ==
    \A p \in Procs : proc[p].pc \in {"loading", "fetched", "waiting", "woken"}
                       ~> proc[p].pc \in {"open", "none"}

\* What a Flush took on, or something written after it, reaches the server,
\* unless the file is unlinked or was reported as in conflict or failed.
Arrived(d) == owed # d \/ \E e \in had : e >= d
FlushedArrives == \A d \in Data : owed = d ~> Arrived(d) \/ reported

\* The same after a retry: a file that is no longer reported is uploaded, as the
\* retry verb says.
RetriedArrives == \A d \in Data : owed = d ~> Arrived(d) \/ Issue
=============================================================================
