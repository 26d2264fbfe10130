---------------------------- MODULE MCWriteback ----------------------------
(* Writeback for TLC: the calls that add work, the flushes and the crashes  *)
(* are counted and bounded.                                                *)
EXTENDS Writeback

CONSTANTS
    MaxCalls,       \* bound: calls into the queue, and files changed in flight
    MaxFlushes,     \* bound: FlushAll calls
    MaxCrashes      \* bound: crashes and stops of the mount process

VARIABLES calls, flushes, crashes

mcvars == <<vars, calls, flushes, crashes>>

MCInit == Init /\ calls = 0 /\ flushes = 0 /\ crashes = 0

MCCall ==
    /\ calls < MaxCalls /\ calls' = calls + 1
    /\ \/ \E i \in Inodes : Call(i)
       \/ \E w \in Workers, a \in Kinds : Resend(w, a)
    /\ UNCHANGED <<flushes, crashes>>
MCFlush ==
    /\ flushes < MaxFlushes /\ flushes' = flushes + 1
    /\ \E w \in Flushers : FlushStart(w)
    /\ UNCHANGED <<calls, crashes>>
MCRestart ==
    /\ crashes < MaxCrashes /\ crashes' = crashes + 1
    /\ \E gone \in SUBSET Inodes : Restart(gone)
    /\ UNCHANGED <<calls, flushes>>
MCProgress(w) == Progress(w) /\ UNCHANGED <<calls, flushes, crashes>>
MCCancel(w) ==
    /\ Cancel(w)
    /\ IF w = "loop" THEN crashes < MaxCrashes /\ crashes' = crashes + 1
                     ELSE UNCHANGED crashes
    /\ UNCHANGED <<calls, flushes>>
MCTick == Tick /\ UNCHANGED <<calls, flushes, crashes>>

MCNext ==
    \/ MCCall \/ MCFlush \/ MCRestart \/ MCTick
    \/ \E w \in Workers : MCProgress(w) \/ MCCancel(w)

MCSpec == MCInit /\ [][MCNext]_mcvars

\* The loop's ticker and the HTTP client's timeouts keep every worker going,
\* and time passes.
MCFairSpec == /\ MCSpec
              /\ \A w \in Workers : WF_mcvars(MCProgress(w))
              /\ WF_mcvars(MCTick)

\* FlushAll returns without help from its deadline, whatever is held by a
\* conflict, failing or arriving meanwhile.
FlushTerminates ==
    \A w \in Flushers : worker[w].pc # "idle" ~> worker[w].pc = "idle"

\* Every row that is queued is carried out, given up or withdrawn, or waits for
\* a conflict to be resolved: no claim, cancelled batch, retry delay or crash
\* leaves work stuck in the table.
RowsSettle ==
    \A r \in RowIds :
        (r \in Live /\ queue[r].state # "failed") ~>
            \/ r \notin Live \/ queue[r].state = "failed"
            \/ heldByConflict(EntryOf(r))
=============================================================================
