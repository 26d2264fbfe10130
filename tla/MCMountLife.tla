----------------------------- MODULE MCMountLife -----------------------------
(* MountLife for TLC: two accounts, two remote paths, and a bound on the       *)
(* commands and on what goes wrong with daemons.                               *)
EXTENDS MountLife, TLC

CONSTANTS
    MaxCmds,        \* bound: commands
    MaxFaults       \* bound: daemons that fail to start, are killed, signalled or unmounted

VARIABLES cmds, faults

mcvars == <<mvars, cmds, faults>>

KeyA == <<"a", "r">>
KeyB == <<"b", "r">>
KeyS == <<"a", "s">>
MCKeys == {KeyA, KeyB, KeyS}
MCDefaultDir == KeyA :> "fa" @@ KeyB :> "fb" @@ KeyS :> "fs"
MCLegacyDir == KeyA :> "old" @@ KeyB :> "old" @@ KeyS :> "olds"

MCInit == MInit /\ cmds = 0 /\ faults = 0
Free == UNCHANGED <<cmds, faults>>

MCCommand(c) == cmds < MaxCmds /\ cmds' = cmds + 1 /\ Commands(c) /\ UNCHANGED faults
MCFault(d) == /\ faults < MaxFaults /\ faults' = faults + 1 /\ UNCHANGED cmds
              /\ Faults(d)
MCStarts(d) == Starts(d) /\ Free
MCRuns(d) == Runs(d) /\ Free
MCShuts(d) == Shuts(d) /\ Free
MCContinues(c) == Continues(c) /\ Free

MCNext == \/ \E c \in Clis : MCCommand(c) \/ MCContinues(c)
          \/ \E d \in Daemons : MCStarts(d) \/ MCRuns(d) \/ MCShuts(d) \/ MCFault(d)

MCSpec == MCInit /\ [][MCNext]_mcvars

\* Every wait of a shutdown has a deadline, the initial sync was cancelled, and a FUSE
\* mount is set up or refused.
MCReturns(d) == (InitialSyncReturns(d) \/ GateRun(d) \/ BackendMount(d)) /\ Free
MCFairSpec == /\ MCSpec
              /\ \A d \in Daemons : WF_mcvars(MCShuts(d)) /\ WF_mcvars(MCReturns(d))
==============================================================================
